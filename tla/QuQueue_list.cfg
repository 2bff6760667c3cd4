CONSTANTS
    Vals = {"a", "b", "c", "d"}
    t1 = t1
    t2 = t2
    t3 = t3
    Threads <- MCThreads
    Script <- MixedScript
    MaxIter = 0
    Stalled = {t3}
SPECIFICATION FairSpec
INVARIANTS ListInv
PROPERTIES ImplementsAtomicQueue OthersFinish
