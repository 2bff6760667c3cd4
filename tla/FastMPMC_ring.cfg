CONSTANTS
    Vals = {"a", "b", "c"}
    t1 = t1
    t2 = t2
    t3 = t3
    Threads <- MCThreads
    Script <- MCScript
    MaxIter = 0
    Capacity = 2
    WeakCAS = TRUE
SPECIFICATION FairSpec
INVARIANTS Inv SlotExclusive
PROPERTIES VersionsGrow ImplementsAtomicQueue Finishes
