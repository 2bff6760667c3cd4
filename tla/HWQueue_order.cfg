CONSTANTS
    Vals = {"A", "B", "D", "E"}
    thread_0 = thread_0
    thread_1 = thread_1
    thread_2 = thread_2
    thread_3 = thread_3
    thread_6 = thread_6
    thread_7 = thread_7
    thread_8 = thread_8
    thread_9 = thread_9
    Threads = {thread_0, thread_1, thread_2, thread_3, thread_6, thread_7, thread_8, thread_9}
    Script <- MCScript
    Waits <- MCWaits
    Item <- MCItem
    MaxIter = 2
    MAX = 4
    Builds = {"RC11"}
    WeakCAS = FALSE
    Lax = {"deqMayFail"}
SPECIFICATION TestSpec
INVARIANT Explained
\* An abandoned execution stops.
CHECK_DEADLOCK FALSE
