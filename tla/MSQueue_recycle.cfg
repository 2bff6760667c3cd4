CONSTANTS
    Vals = {"a", "b", "c"}
    Threads = {0, 1, 2}
    Script <- RecycleScript
    MaxIter = 0
    NumThreads = 3
    MaxFree = 4
    InitialFree = 2
    WeakCAS = FALSE
    Stalled = {2}
    Lax = {}
SPECIFICATION FairLinSpec
INVARIANTS ListInv FreeListsInv SnapshotsValid Linearizable
PROPERTY OthersFinish
