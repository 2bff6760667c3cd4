CONSTANTS
    Vals = {"A", "B", "C", "D"}
    KeyNum <- MCKeys
    Threads <- MovedThreads
    Script <- MovedScript
    Mains <- MovedMains
    Flags <- MovedFlags
    Builds = {"OPT"}
    MaxIter = 3
    MaxFind <- MovedFind
    MaxCalls = 6
    WeakCAS = FALSE
    Lax = {}
SPECIFICATION LinSpec
INVARIANT Explained
