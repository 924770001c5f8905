CONSTANTS
    MaxCalls = 2
    MaxItems = 2
    BufferSize = 8192
    RequestLens <- MCRequestLens
    SizeTBytes = 8
SPECIFICATION Spec
INVARIANT NeighbourIntact
CHECK_DEADLOCK FALSE
