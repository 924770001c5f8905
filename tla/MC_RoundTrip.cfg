CONSTANTS
    BUFFER_SIZE = 68
    MaxItems = 2
    Ints <- MCInts
    Texts <- MCTexts
    Diagnostics <- MCDiagnostics
    EnvVectors <- MCEnvVectors
SPECIFICATION Spec
INVARIANTS
    ParseInvertsBuild
    TruncationRefused
    WrapInvertsUnwrap
    SymbolsAgree
CHECK_DEADLOCK FALSE
