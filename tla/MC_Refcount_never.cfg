CONSTANTS
    t1 = t1
    t2 = t2
    t3 = t3
    r1 = r1
    r2 = r2
    r3 = r3
    r4 = r4
    r5 = r5
    NoThread = NoThread
    Threads <- TwoThreads
    Refs <- ThreeRefs
    Limit <- PPCOnly
    Modulus = 8
    Addresses = {4}
SPECIFICATION Spec
INVARIANT Reclaimed
CHECK_DEADLOCK FALSE
