CONSTANTS
    Vals = {"a", "b", "c", "d"}
    t1 = t1
    t2 = t2
    t3 = t3
    Threads <- MCThreads
    Script <- MCScript
    Waits <- MCWaits
    MaxIter = 2
    MAX = 4
    Builds = {"SEQ", "RC11"}
    WeakCAS = FALSE
    Lax = {"deqMayFail"}
SPECIFICATION LinSpec
INVARIANTS ArrayInv PayloadsKnown ThreeExplained
PROPERTIES FalseOnlyIfRaced
