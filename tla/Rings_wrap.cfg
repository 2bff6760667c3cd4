CONSTANTS
    Vals = {"a", "b", "c", "d"}
    t1 = t1
    t2 = t2
    t3 = t3
    Threads <- MCThreads
    Script <- MCScript
    MaxIter = 3
    Size = 2
    Word = 4
    WeakCAS = FALSE
    WeakExchange = TRUE
SPECIFICATION MCSpec
INVARIANTS CountersInv NoSlotRace SomeWaitEnds
INVARIANTS RingInv DequeInv
PROPERTIES ImplementsAtomicQueue
PROPERTIES ImplementsQueueAtFirst DropsOnlyWhenFull
PROPERTIES DequeImplementsQueue
