CONSTANTS
    Vals = {"A", "B", "C", "D"}
    KeyNum <- MCKeys
    Threads <- MCThreads
    Script <- MCScript
    Mains <- MCMains
    Flags <- MCFlags
    Builds = {"SEQ", "OPT"}
    MaxIter = 3
    MaxFind <- MCFind
    MaxCalls = 6
    WeakCAS = FALSE
    Lax = {}
SPECIFICATION LinSpec
INVARIANTS TreeInv FreedOnce PublishedFirst Explained
PROPERTY RemovedForGood
