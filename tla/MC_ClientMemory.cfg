CONSTANTS
    MaxCalls = 4
    MaxItems = 2
    BufferSize = 8192
    RequestLens <- MCRequestLens
    SizeTBytes = 8
SPECIFICATION Spec
INVARIANTS
    TypeOK
    HeldLive
    NoSharing
    NoInvalid
    LeakExact
CHECK_DEADLOCK FALSE
