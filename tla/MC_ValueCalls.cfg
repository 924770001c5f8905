CONSTANTS
    Garbage = Garbage
    BUFFER_SIZE = 28
    MaxItems = 2
    Ints <- MCInts
    Texts <- MCTexts
    Diagnostics <- MCDiagnostics
    EnvVectors <- MCEnvVectors
SPECIFICATION Spec
INVARIANTS
    CallsSucceed
    BuildsMessage
    ParsesMessage
    UndefinedIsEnvironment
    NothingUnset
    StatusTellsSchema
CHECK_DEADLOCK FALSE
