------------------------------- MODULE MSQueue -------------------------------
(***************************************************************************)
(* wrappers/ms-queue-wrapper.h: the Michael and Scott queue.  A linked     *)
(* list of nodes with a dummy at its head; head, tail and every next field *)
(* are a node index and a count in one word, so that a compare-and-swap on *)
(* a word that has changed and changed back fails.  Nodes are recycled:    *)
(* every thread has a small free list of its own, takes the nodes of its   *)
(* enqueues from it and puts the old dummy of its dequeues on it.          *)
(* Every access to shared memory is one step; work on the thread's own     *)
(* free list is done in the step next to it.                               *)
(***************************************************************************)
EXTENDS Clients, FiniteSets

CONSTANTS
    NumThreads,   \* the argument of q_init_queue
    MaxFree,      \* MAX_FREELIST
    InitialFree,  \* INITIAL_FREE
    WeakCAS,      \* TRUE: compare_exchange_weak may fail spuriously
    Stalled       \* threads the scheduler may abandon

\* A thread is its number, as set_thread_num takes it.
ASSUME ThreadNumbers == Threads \subseteq Nat /\ NumThreads \in Nat
ASSUME FreeListSizes == MaxFree \in Nat /\ InitialFree \in 0 .. MaxFree

VARIABLES
    head, tail,  \* the two ends of the list
    next,        \* next[n]: nodes[n].next
    value,       \* value[n]: nodes[n].value
    freeList,    \* freeList[t]: free_lists[t], 0 where a place is empty
    loc          \* loc[t]: the locals of the call t is in

list == <<head, tail, next, value>>
vars == <<ip, pc, cnt, ret, head, tail, next, value, freeList, loc>>

Pointer(n, c) == [ptr |-> n, count |-> c]   \* MAKE_POINTER
NullPtr == 0
Poison == 1638                              \* POISON_IDX
Dummy == 1

InitialNode(t, j) == 2 + t * MaxFree + (j - 1)
Nodes == {Dummy} \cup {InitialNode(t, j) : t \in {u \in Threads : u < NumThreads},
                                           j \in 1 .. InitialFree}

MaxNodes == 63                              \* MAX_NODES
ASSUME NodesFit == \A n \in Nodes : n <= MaxNodes

\* nodes[0] is never handed out, Poison lies outside the array.
Cells == Nodes \cup {NullPtr, Poison}

NoLocals == [node |-> NullPtr, head |-> Pointer(0, 0), tail |-> Pointer(0, 0),
             next |-> Pointer(0, 0), val |-> Null]

EnqLabels == {"e_val", "e_ldnext", "e_clear", "e_tail", "e_next", "e_check",
              "e_link", "e_ldptr", "e_help", "e_swing"}
DeqLabels == {"d_head", "d_tail", "d_next", "d_check", "d_help", "d_val", "d_cas"}
Labels == EnqLabels \cup DeqLabels

\* init_queue
Init ==
    /\ ClientInit
    /\ head = Pointer(Dummy, 0)
    /\ tail = Pointer(Dummy, 0)
    /\ next = [n \in Cells |-> IF n \in Nodes \ {Dummy} THEN Pointer(Poison, 0)
                               ELSE Pointer(NullPtr, 0)]
    /\ value = [n \in Cells |-> Null]
    /\ freeList = [t \in Threads |->
                      [j \in 1 .. MaxFree |-> IF t < NumThreads /\ j <= InitialFree
                                              THEN InitialNode(t, j) ELSE NullPtr]]
    /\ loc = [t \in Threads |-> NoLocals]

-----------------------------------------------------------------------------
\* Slips the runs must notice.
SameCountBug(c) == c
HeadUncheckedBug(t) == TRUE
NeverHelpBug(t) == loc[t].tail
HeadPassesBug(t) == FALSE
RecycledIsNextBug(t) == loc[t].next.ptr

\* The count of a new word, and the node put on the free list by a dequeue.
NextCount(c) == c + 1
Retired(t) == loc[t].head.ptr
\* A new node's next keeps its count and loses its pointer.
ClearedNext(p) == Pointer(NullPtr, p.count)

\* The outcomes of a compare-and-swap of expected in a word that holds actual.
CasOutcomes(actual, expected) ==
    IF actual # expected THEN {FALSE}
    ELSE IF WeakCAS THEN {TRUE, FALSE} ELSE {TRUE}

SetLocal(t, l) == loc' = [loc EXCEPT ![t] = l]

\* The call of t ends; its locals are gone.
Finish(t, r) == Return(t, r) /\ SetLocal(t, NoLocals)

-----------------------------------------------------------------------------
\* new_node: the first node on t's free list.
FreePlaces(t) == {j \in 1 .. MaxFree : freeList[t][j] # NullPtr}
EmptyPlaces(t) == {j \in 1 .. MaxFree : freeList[t][j] = NullPtr}
First(S) == CHOOSE j \in S : \A i \in S : j <= i

EnqCall(t) ==
    \/ /\ FreePlaces(t) # {}
       /\ Invoke(t, "enq", "e_val")
       /\ LET j == First(FreePlaces(t))
          IN  /\ SetLocal(t, [NoLocals EXCEPT !.node = freeList[t][j]])
              /\ freeList' = [freeList EXCEPT ![t][j] = NullPtr]
       /\ UNCHANGED list
    \/ /\ FreePlaces(t) = {}
       /\ Invoke(t, "enq", "assert")
       /\ UNCHANGED <<list, freeList, loc>>

EnqWriteValue(t) ==
    /\ pc[t] = "e_val"
    /\ value' = [value EXCEPT ![loc[t].node] = Current(t).val]
    /\ Goto(t, "e_ldnext")
    /\ UNCHANGED <<head, tail, next, freeList, loc>>

EnqLoadOwnNext(t) ==
    /\ pc[t] = "e_ldnext"
    /\ SetLocal(t, [loc[t] EXCEPT !.next = ClearedNext(next[loc[t].node])])
    /\ Goto(t, "e_clear")
    /\ UNCHANGED <<list, freeList>>

EnqClearNext(t) ==
    /\ pc[t] = "e_clear"
    /\ next' = [next EXCEPT ![loc[t].node] = loc[t].next]
    /\ Goto(t, "e_tail")
    /\ UNCHANGED <<head, tail, value, freeList, loc>>

EnqLoadTail(t) ==
    /\ pc[t] = "e_tail"
    /\ SetLocal(t, [loc[t] EXCEPT !.tail = tail])
    /\ Goto(t, "e_next")
    /\ UNCHANGED <<list, freeList>>

EnqLoadNext(t) ==
    /\ pc[t] = "e_next"
    /\ SetLocal(t, [loc[t] EXCEPT !.next = next[loc[t].tail.ptr]])
    /\ Goto(t, "e_check")
    /\ UNCHANGED <<list, freeList>>

LooksLast(t) == loc[t].next.ptr = NullPtr

EnqCheckTail(t) ==
    /\ pc[t] = "e_check"
    /\ \/ loc[t].tail # tail /\ Retry(t, "e_tail")
       \/ /\ loc[t].tail = tail
          /\ CASE loc[t].next.ptr = Poison  -> Goto(t, "assert")
               [] LooksLast(t)              -> Goto(t, "e_link")
               [] OTHER                     -> Goto(t, "e_ldptr")
    /\ UNCHANGED <<list, freeList, loc>>

EnqLink(t) ==
    /\ pc[t] = "e_link"
    /\ LET last == loc[t].tail.ptr
       IN  \E won \in CasOutcomes(next[last], loc[t].next) :
            IF won
            THEN /\ next' = [next EXCEPT ![last] =
                                Pointer(loc[t].node, NextCount(loc[t].next.count))]
                 /\ Goto(t, "e_swing")
            ELSE Goto(t, "e_ldptr") /\ UNCHANGED next
    /\ UNCHANGED <<head, tail, value, freeList, loc>>

EnqLoadPtr(t) ==
    /\ pc[t] = "e_ldptr"
    /\ SetLocal(t, [loc[t] EXCEPT !.next = next[loc[t].tail.ptr]])
    /\ Goto(t, "e_help")
    /\ UNCHANGED <<list, freeList>>

\* The word a lagging tail is moved to.
MovedTail(t) == Pointer(loc[t].next.ptr, NextCount(loc[t].tail.count))

HelpTail(t) ==
    \E won \in CasOutcomes(tail, loc[t].tail) :
        tail' = IF won THEN MovedTail(t) ELSE tail

EnqHelp(t) ==
    /\ pc[t] = "e_help"
    /\ HelpTail(t)
    /\ Retry(t, "e_tail")
    /\ UNCHANGED <<head, next, value, freeList, loc>>

EnqSwing(t) ==
    /\ pc[t] = "e_swing"
    /\ \E won \in CasOutcomes(tail, loc[t].tail) :
        tail' = IF won THEN Pointer(loc[t].node, NextCount(loc[t].tail.count))
                ELSE tail
    /\ Finish(t, Ok)
    /\ UNCHANGED <<head, next, value, freeList>>

-----------------------------------------------------------------------------
DeqCall(t) == Invoke(t, "deq", "d_head") /\ UNCHANGED <<list, freeList, loc>>

DeqLoadHead(t) ==
    /\ pc[t] = "d_head"
    /\ SetLocal(t, [loc[t] EXCEPT !.head = head])
    /\ Goto(t, "d_tail")
    /\ UNCHANGED <<list, freeList>>

DeqLoadTail(t) ==
    /\ pc[t] = "d_tail"
    /\ SetLocal(t, [loc[t] EXCEPT !.tail = tail])
    /\ Goto(t, "d_next")
    /\ UNCHANGED <<list, freeList>>

DeqLoadNext(t) ==
    /\ pc[t] = "d_next"
    /\ SetLocal(t, [loc[t] EXCEPT !.next = next[loc[t].head.ptr]])
    /\ Goto(t, "d_check")
    /\ UNCHANGED <<list, freeList>>

HeadUnchanged(t) == loc[t].head = head
HeadMeetsTail(t) == loc[t].head.ptr = loc[t].tail.ptr

DeqCheckHead(t) ==
    /\ pc[t] = "d_check"
    /\ \/ ~HeadUnchanged(t) /\ Retry(t, "d_head") /\ UNCHANGED loc
       \/ /\ HeadUnchanged(t) /\ HeadMeetsTail(t)
          /\ CASE loc[t].next.ptr = Poison  -> Goto(t, "assert") /\ UNCHANGED loc
               [] loc[t].next.ptr = NullPtr -> Finish(t, Empty)
               [] OTHER                     -> Goto(t, "d_help") /\ UNCHANGED loc
       \/ /\ HeadUnchanged(t) /\ ~HeadMeetsTail(t)
          /\ Goto(t, "d_val") /\ UNCHANGED loc
    /\ UNCHANGED <<list, freeList>>

DeqHelp(t) ==
    /\ pc[t] = "d_help"
    /\ HelpTail(t)
    /\ Retry(t, "d_head")
    /\ UNCHANGED <<head, next, value, freeList, loc>>

DeqReadValue(t) ==
    /\ pc[t] = "d_val"
    /\ SetLocal(t, [loc[t] EXCEPT !.val = value[loc[t].next.ptr]])
    /\ Goto(t, "d_cas")
    /\ UNCHANGED <<list, freeList>>

\* The winner also runs reclaim: the old dummy goes to the first empty place
\* of its free list, and an assertion fails if there is none.
DeqAdvance(t) ==
    /\ pc[t] = "d_cas"
    /\ \E won \in CasOutcomes(head, loc[t].head) :
        IF won
        THEN /\ head' = Pointer(loc[t].next.ptr, NextCount(loc[t].head.count))
             /\ IF EmptyPlaces(t) # {}
                THEN /\ freeList' = [freeList EXCEPT
                            ![t][First(EmptyPlaces(t))] = Retired(t)]
                     /\ Finish(t, loc[t].val)
                ELSE Goto(t, "assert") /\ UNCHANGED <<freeList, loc>>
        ELSE Retry(t, "d_head") /\ UNCHANGED <<head, freeList, loc>>
    /\ UNCHANGED <<tail, next, value>>

-----------------------------------------------------------------------------
EnqStep(t) ==
    \/ EnqCall(t) \/ EnqWriteValue(t) \/ EnqLoadOwnNext(t) \/ EnqClearNext(t)
    \/ EnqLoadTail(t) \/ EnqLoadNext(t) \/ EnqCheckTail(t) \/ EnqLink(t)
    \/ EnqLoadPtr(t) \/ EnqHelp(t) \/ EnqSwing(t)

DeqStep(t) ==
    \/ DeqCall(t) \/ DeqLoadHead(t) \/ DeqLoadTail(t) \/ DeqLoadNext(t)
    \/ DeqCheckHead(t) \/ DeqHelp(t) \/ DeqReadValue(t) \/ DeqAdvance(t)

Step(t) == EnqStep(t) \/ DeqStep(t)

Terminating == Quiescent /\ UNCHANGED vars

Next == (\E t \in Threads : Step(t)) \/ Terminating

Spec == Init /\ [][Next]_vars

\* Lock-freedom: whatever the stalled threads hold, all others finish.
OthersFinish == <>(\A t \in Threads \ Stalled : Finished(t))

-----------------------------------------------------------------------------
PointerType == [ptr : Cells, count : Nat]

\* The program's variables stay in their types.
TypeOK ==
    /\ ClientTypeOK(Labels)
    /\ head \in PointerType
    /\ tail \in PointerType
    /\ next \in [Cells -> PointerType]
    /\ value \in [Cells -> Payloads]
    /\ freeList \in [Threads -> [1 .. MaxFree -> Cells]]
    /\ loc \in [Threads -> [node : Cells, head : PointerType, tail : PointerType,
                            next : PointerType, val : Payloads]]

\* No free list is empty when a node is needed or full when one comes back, and
\* no next field that was never initialised is followed.
NoAssertFails == \A t \in Threads : pc[t] # "assert"

\* The list: the nodes met when following the pointers nx from the node h.
ListFrom(h, nx) ==
    LET at[i \in 0 .. Cardinality(Nodes)] ==
            IF i = 0 THEN h ELSE nx[at[i - 1]].ptr
    IN  at
ListAt == ListFrom(head.ptr, next)
InList == {ListAt[i] : i \in 0 .. Cardinality(Nodes)} \ {NullPtr}

\* The list ends, tail is one of its nodes, and lags the end by at most one
\* node, however many enqueuers have stopped between linking and swinging.
ListWellFormed ==
    /\ ListAt[Cardinality(Nodes)] = NullPtr
    /\ tail.ptr \in InList
    /\ next[tail.ptr].ptr # NullPtr => next[next[tail.ptr].ptr].ptr = NullPtr

\* An enqueuer has its node for itself until it has linked it.
InHand(t) == IF pc[t] = "e_swing" THEN NullPtr ELSE loc[t].node

\* A node is in exactly one place: the list, one place of one free list, or
\* the hands of one enqueuer.  A recycled node never gets back into use
\* twice, and none is lost.
NodeHasOnePlace ==
    \A n \in Nodes :
        LET free    == {p \in Threads \X (1 .. MaxFree) : freeList[p[1]][p[2]] = n}
            holders == {t \in Threads : InHand(t) = n}
        IN  Cardinality(free) + Cardinality(holders)
                = IF n \in InList THEN 0 ELSE 1

\* A dequeuer whose compare-and-swap is about to succeed has read the next
\* node and the value of the current dummy, although both nodes may have been
\* recycled while it was stalled: the counts rule out a head that has changed
\* and changed back.
HeadSnapshotValid ==
    \A t \in Threads :
        pc[t] = "d_cas" /\ loc[t].head = head =>
            /\ loc[t].next.ptr = next[head.ptr].ptr
            /\ loc[t].next.ptr \in InList
            /\ loc[t].val = value[loc[t].next.ptr]

\* Likewise an enqueuer whose compare-and-swap is about to succeed links its
\* node behind the last node of the list.
LinksAtEnd ==
    \A t \in Threads :
        pc[t] = "e_link" /\ next[loc[t].tail.ptr] = loc[t].next =>
            loc[t].tail.ptr \in InList

\* The node of an enqueue is one, and nobody else writes its next field: it
\* leads nowhere from the time it is cleared to the time the node is linked.
OwnNode(t) ==
    /\ loc[t].node \in Nodes \cup {NullPtr}
    /\ pc[t] \in EnqLabels => loc[t].node # NullPtr
    /\ pc[t] \in DeqLabels \cup {"idle"} => loc[t].node = NullPtr
    /\ pc[t] = "e_clear" => loc[t].next = ClearedNext(next[loc[t].node])
    /\ pc[t] \in {"e_tail", "e_next", "e_check", "e_link", "e_ldptr", "e_help"} =>
           next[loc[t].node].ptr = NullPtr

\* An end of the list that has moved since t read it has a greater count.
EndsRead(t) ==
    /\ pc[t] \in {"e_next", "e_check", "e_link", "e_ldptr", "e_help", "e_swing",
                   "d_next", "d_check", "d_help"} =>
           loc[t].tail = tail \/ loc[t].tail.count < tail.count
    /\ pc[t] \in {"d_tail", "d_next", "d_check", "d_val", "d_cas"} =>
           loc[t].head = head \/ loc[t].head.count < head.count

\* While tail is still the word an enqueuer read, the next field it read is the
\* one of that node, or a node has been linked there since; if the next field
\* has kept its count, that node is still the last.
NextRead(t) ==
    LET now == next[loc[t].tail.ptr] IN
    /\ pc[t] = "e_check" /\ loc[t].tail = tail =>
           \/ loc[t].next = now
           \/ loc[t].next.ptr = NullPtr /\ now.ptr # NullPtr /\ loc[t].next.count < now.count
    /\ pc[t] = "e_link" =>
           /\ loc[t].next.ptr = NullPtr
           /\ \/ loc[t].next = now /\ loc[t].tail.ptr = tail.ptr
              \/ loc[t].next.count < now.count
           /\ loc[t].tail = tail => loc[t].next = now \/ now.ptr # NullPtr
    /\ pc[t] = "e_ldptr" /\ loc[t].tail = tail => now.ptr # NullPtr

\* Whoever moves tail moves it to the node behind it.
TailStepsOn(t) ==
    /\ pc[t] \in {"e_help", "d_help"} /\ loc[t].tail = tail =>
           loc[t].next.ptr = next[tail.ptr].ptr /\ loc[t].next.ptr # NullPtr
    /\ pc[t] = "e_swing" /\ loc[t].tail = tail => next[tail.ptr].ptr = loc[t].node

\* While head is still the word a dequeuer read, a tail it saw ahead of head
\* is ahead of it, and the next field it read is the one of the dummy.
HeadRead(t) ==
    /\ pc[t] \in {"d_next", "d_check"} /\ loc[t].head = head
          /\ loc[t].head.ptr # loc[t].tail.ptr =>
           /\ tail.ptr # head.ptr
           /\ pc[t] = "d_check" => loc[t].next.ptr = next[head.ptr].ptr
    /\ pc[t] = "d_check" /\ loc[t].tail = tail /\ loc[t].head.ptr = loc[t].tail.ptr =>
           loc[t].next.ptr \in {NullPtr, next[tail.ptr].ptr}
    /\ pc[t] \in {"d_val", "d_cas"} /\ loc[t].head = head =>
           tail.ptr # head.ptr /\ loc[t].next.ptr = next[head.ptr].ptr
    /\ pc[t] = "d_cas" /\ loc[t].head = head => loc[t].val = value[loc[t].next.ptr]

Snapshot(t) == OwnNode(t) /\ EndsRead(t) /\ NextRead(t) /\ TailStepsOn(t) /\ HeadRead(t)

\* The list is a list with tail on it.
ListInv == TypeOK /\ ListWellFormed

\* No node is in two places or lost, and none of the four assertions fails.
FreeListsInv == NoAssertFails /\ NodeHasOnePlace

\* What a compare-and-swap that succeeds has assumed still holds.
SnapshotsValid ==
    HeadSnapshotValid /\ LinksAtEnd /\ \A t \in Threads : Snapshot(t)
=============================================================================
