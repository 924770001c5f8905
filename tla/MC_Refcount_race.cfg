CONSTANTS
    t1 = t1
    t2 = t2
    t3 = t3
    r1 = r1
    r2 = r2
    r3 = r3
    r4 = r4
    r5 = r5
    NoThread = NoThread
    Threads <- TwoThreads
    Refs <- FourRefs
    Limit <- AtomicOnly
    Modulus = 4
    Addresses = {}
SPECIFICATION Spec
INVARIANT NoOverflow
CHECK_DEADLOCK FALSE
