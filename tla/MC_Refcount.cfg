CONSTANTS
    t1 = t1
    t2 = t2
    t3 = t3
    r1 = r1
    r2 = r2
    r3 = r3
    r4 = r4
    r5 = r5
    NoThread = NoThread
    Threads <- ThreeThreads
    Refs <- FiveRefs
    Limit <- AllBuilds
    Modulus = 6
    Addresses = {4}
SPECIFICATION Spec
INVARIANTS
    TypeOK
    CountExact
    NoUseAfterFree
    LastFrees
PROPERTY ImplementsObject
CHECK_DEADLOCK FALSE
