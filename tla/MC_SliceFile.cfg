CONSTANTS
    r1 = r1
    Readers <- MCReaders
    MaxWrites = 3
    MaxLen = 2
SPECIFICATION Spec
INVARIANTS
    TypeOK
    PrefixOfOne
    WholeIfOpenedWhole
PROPERTY ImplementsRegister
CHECK_DEADLOCK FALSE
