CONSTANTS
    a1 = a1
    a2 = a2
    ArrayId <- MCArrayId
    MaxContexts = 2
    MaxEnv = 2
    MaxBuilds = 3
SPECIFICATION Spec
INVARIANT FreeReleasesStrings
CHECK_DEADLOCK FALSE
