CONSTANTS
    Vals = {"a", "b", "c"}
    t1 = t1
    t2 = t2
    t3 = t3
    Threads <- MCThreads
    Script <- MixedScript
    MaxIter = 3
    RingSize = 2
    MaxRings = 4
    WeakCAS = FALSE
    Lax = {}
SPECIFICATION LinSpec
INVARIANTS RingsInv NoItemLeftBehind Linearizable
