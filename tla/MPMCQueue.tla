------------------------------ MODULE MPMCQueue ------------------------------
(***************************************************************************)
(* wrappers/mpmc-queue-wrapper.h: a bounded ring with three words.  The    *)
(* two halves of m_rdwr count the reads and the writes that have started;  *)
(* m_read and m_written count those completed.  A call claims its place by *)
(* a compare-and-swap on m_rdwr, then waits until every earlier call of    *)
(* the other kind has completed, uses its slot, and counts itself done.    *)
(*                                                                         *)
(* The wait is for exactly the count the call saw when it claimed, so it   *)
(* relies on no later call being counted before.  An enqueuer that finds   *)
(* the ring full leaves the loop without having claimed anything and goes  *)
(* on, and counts itself, all the same.                                    *)
(***************************************************************************)
EXTENDS Clients, Rings, FiniteSets

CONSTANTS
    Word,     \* the halves of m_rdwr count modulo Word, 2^16 in the code
    WeakCAS   \* TRUE: compare_exchange_weak may fail spuriously

ASSUME WordAssumption == Word \in Nat /\ Word % Size = 0 /\ Word > Size

\* With a MAX_ITER of 1 the assume at the head of the loop stops every call.
ASSUME TurnsAssumption == MaxIter # 1

VARIABLES
    rdwr,               \* m_rdwr as [rd, wr]
    m_read, m_written,
    m_array,
    loc                 \* loc[t]: the local rdwr of t, and *retVal

shared == <<rdwr, m_read, m_written, m_array>>
vars == <<ip, pc, cnt, ret, rdwr, m_read, m_written, m_array, loc>>

EnqLabels == {"e_load", "e_loop", "e_cas", "e_wait", "e_val", "e_done"}
DeqLabels == {"d_load", "d_loop", "d_cas", "d_wait", "d_val", "d_done"}
Labels == EnqLabels \cup DeqLabels

Counters == [rd : 0 .. Word - 1, wr : 0 .. Word - 1]
Zero == [rd |-> 0, wr |-> 0]

\* A global queue_t starts out as zeros; q_init_queue is empty.
Init ==
    /\ ClientInit
    /\ rdwr = Zero
    /\ m_read = 0
    /\ m_written = 0
    /\ m_array = [s \in Slots |-> Null]
    /\ loc = [t \in Threads |-> [rdwr |-> Zero, val |-> Null]]

-----------------------------------------------------------------------------
\* Slips the runs must notice: a wait that is content with less, one that
\* counts the call itself, a claim that goes on although its compare-and-swap
\* failed.
ReadsDoneLateBug(t) == m_read % Word = (loc[t].rdwr.rd + 1) % Word
ReadsDoneBug(t) == m_read % Word <= loc[t].rdwr.rd
WritesDoneBug(t) == m_written % Word <= loc[t].rdwr.wr
ClaimBug(t, new, won, loop) ==
    /\ rdwr' = IF rdwr = loc[t].rdwr THEN new ELSE rdwr
    /\ Goto(t, won)
    /\ UNCHANGED loc

\* One more, in 16 bits.
Count(n) == (n + 1) % Word

IsEmpty(c) == c.wr = c.rd
IsFull(c) == c.wr = (c.rd + Size) % Word
ReadsDone(t) == m_read % Word = loc[t].rdwr.rd
WritesDone(t) == m_written % Word = loc[t].rdwr.wr

ReadSlot(t) == Slot(loc[t].rdwr.rd)
WriteSlot(t) == Slot(loc[t].rdwr.wr)

LoadCounters(t, from, to) ==
    /\ pc[t] = from
    /\ loc' = [loc EXCEPT ![t].rdwr = rdwr]
    /\ Goto(t, to)
    /\ UNCHANGED shared

\* compare_exchange of the local rdwr by new: a failure reloads the local.
Claim(t, new, won, loop) ==
    \/ /\ rdwr = loc[t].rdwr
       /\ rdwr' = new
       /\ Goto(t, won)
       /\ UNCHANGED loc
    \/ /\ rdwr # loc[t].rdwr \/ WeakCAS
       /\ loc' = [loc EXCEPT ![t].rdwr = rdwr]
       /\ Retry(t, loop)
       /\ UNCHANGED rdwr

-----------------------------------------------------------------------------
EnqCall(t) == Invoke(t, "enq", "e_load") /\ UNCHANGED <<shared, loc>>

EnqLoad(t) == LoadCounters(t, "e_load", "e_loop")

\* A full ring ends the loop, not the call.
EnqTest(t) ==
    /\ pc[t] = "e_loop"
    /\ IF IsFull(loc[t].rdwr) THEN Goto(t, "e_wait") ELSE Goto(t, "e_cas")
    /\ UNCHANGED <<shared, loc>>

EnqClaim(t) ==
    /\ pc[t] = "e_cas"
    /\ Claim(t, [loc[t].rdwr EXCEPT !.wr = Count(@)], "e_wait", "e_loop")
    /\ UNCHANGED <<m_read, m_written, m_array>>

EnqWait(t) ==
    /\ pc[t] = "e_wait"
    /\ Assume(t, ReadsDone(t), "e_val")
    /\ UNCHANGED <<shared, loc>>

EnqWriteValue(t) ==
    /\ pc[t] = "e_val"
    /\ m_array' = [m_array EXCEPT ![WriteSlot(t)] = Current(t).val]
    /\ Goto(t, "e_done")
    /\ UNCHANGED <<rdwr, m_read, m_written, loc>>

EnqDone(t) ==
    /\ pc[t] = "e_done"
    /\ m_written' = m_written + 1
    /\ Return(t, Ok)
    /\ UNCHANGED <<rdwr, m_read, m_array, loc>>

DeqCall(t) == Invoke(t, "deq", "d_load") /\ UNCHANGED <<shared, loc>>

DeqLoad(t) == LoadCounters(t, "d_load", "d_loop")

DeqTest(t) ==
    /\ pc[t] = "d_loop"
    /\ IF IsEmpty(loc[t].rdwr) THEN Return(t, Empty) ELSE Goto(t, "d_cas")
    /\ UNCHANGED <<shared, loc>>

DeqClaim(t) ==
    /\ pc[t] = "d_cas"
    /\ Claim(t, [loc[t].rdwr EXCEPT !.rd = Count(@)], "d_wait", "d_loop")
    /\ UNCHANGED <<m_read, m_written, m_array>>

DeqWait(t) ==
    /\ pc[t] = "d_wait"
    /\ Assume(t, WritesDone(t), "d_val")
    /\ UNCHANGED <<shared, loc>>

DeqReadValue(t) ==
    /\ pc[t] = "d_val"
    /\ loc' = [loc EXCEPT ![t].val = m_array[ReadSlot(t)]]
    /\ Goto(t, "d_done")
    /\ UNCHANGED shared

DeqDone(t) ==
    /\ pc[t] = "d_done"
    /\ m_read' = m_read + 1
    /\ Return(t, loc[t].val)
    /\ UNCHANGED <<rdwr, m_written, m_array, loc>>

-----------------------------------------------------------------------------
Step(t) ==
    \/ EnqCall(t) \/ EnqLoad(t) \/ EnqTest(t) \/ EnqClaim(t) \/ EnqWait(t)
    \/ EnqWriteValue(t) \/ EnqDone(t)
    \/ DeqCall(t) \/ DeqLoad(t) \/ DeqTest(t) \/ DeqClaim(t) \/ DeqWait(t)
    \/ DeqReadValue(t) \/ DeqDone(t)

Terminating == Quiescent /\ UNCHANGED vars

Next == (\E t \in Threads : Step(t)) \/ Terminating

Spec == Init /\ [][Next]_vars

-----------------------------------------------------------------------------
\* The program's variables stay in their types: the halves of m_rdwr in
\* their 16 bits.
TypeOK ==
    /\ ClientTypeOK(Labels)
    /\ rdwr \in Counters
    /\ m_read \in Nat
    /\ m_written \in Nat
    /\ m_array \in [Slots -> Payloads]
    /\ loc \in [Threads -> [rdwr : Counters, val : Payloads]]

\* The payload array is not atomic: no thread reads or writes a slot while
\* another thread may write it.
NoSlotRace ==
    \A t, u \in Threads : t # u =>
        ~ \/ pc[t] = "e_val" /\ pc[u] = "e_val" /\ WriteSlot(t) = WriteSlot(u)
          \/ pc[t] = "e_val" /\ pc[u] = "d_val" /\ WriteSlot(t) = ReadSlot(u)

\* A call that has claimed its place and not yet counted itself done; a
\* thread stopped by the assume of its wait has more turns of the loop left.
InProgress(t, kind) ==
    /\ InCall(t) /\ Current(t).kind = kind
    /\ \/ pc[t] \in {"e_wait", "e_val", "e_done", "d_wait", "d_val", "d_done"}
       \/ pc[t] = "blocked" /\ cnt[t] < MaxIter

\* What the comment at the counters says: rdwr counts the reads and writes
\* that have started, read and written count the number completed.  So the
\* difference is the number of calls in progress.
CountersCount ==
    LET open(started, done) == (started - (done % Word) + Word) % Word
        calls(kind) == Cardinality({t \in Threads : InProgress(t, kind)})
    IN  /\ open(rdwr.wr, m_written) = calls("enq")
        /\ open(rdwr.rd, m_read) = calls("deq")

\* The counters keep to their 16 bits and count what they should.
CountersInv == TypeOK /\ CountersCount

\* What the algorithm asks of its users: no enqueue finds the ring full, and
\* there are fewer threads than a half of m_rdwr can count.
HasRoom == \A t \in Threads : pc[t] = "e_loop" => ~IsFull(loc[t].rdwr)
FewThreads == IsFiniteSet(Threads) /\ Cardinality(Threads) < Word

\* A wait is for one value of a counter that goes on.  The claims in progress
\* never all wait for each other, nor for a value that has passed: if none of
\* them was abandoned and all are at their wait, one of the waits is over.
SomeWaitEnds ==
    LET open == {t \in Threads : InProgress(t, "enq") \/ InProgress(t, "deq")}
    IN  open # {} /\ (\A t \in open : pc[t] \in {"e_wait", "d_wait"}) =>
            \E t \in open : IF pc[t] = "e_wait" THEN ReadsDone(t) ELSE WritesDone(t)

-----------------------------------------------------------------------------
\* The item of place p: still with its enqueuer, or in its slot.
Unwritten(t, p) ==
    /\ InProgress(t, "enq") /\ pc[t] # "e_done" /\ loc[t].rdwr.wr = p
ItemOf(p) ==
    IF \E t \in Threads : Unwritten(t, p)
    THEN Current(CHOOSE t \in Threads : Unwritten(t, p)).val
    ELSE m_array[Slot(p)]

\* The item of the place t has claimed to read: in the slot as soon as the
\* writes before t are done, although place and lap may be claimed again.
ItemFor(t) ==
    IF WritesDone(t) THEN m_array[ReadSlot(t)] ELSE ItemOf(loc[t].rdwr.rd)

\* A call takes effect at its winning compare-and-swap; a dequeue that
\* returns false, when it loads an m_rdwr whose halves are equal.
SeesEmpty(t) == pc[t] = "d_loop" /\ IsEmpty(loc[t].rdwr)

Stage == [t \in Threads |->
            IF InProgress(t, "enq") \/ InProgress(t, "deq") \/ SeesEmpty(t)
            THEN "done" ELSE IF InCall(t) THEN "called" ELSE "idle"]
Res   == [t \in Threads |->
            CASE InProgress(t, "enq") -> Ok
              [] SeesEmpty(t)         -> Empty
              [] InProgress(t, "deq") ->
                     IF pc[t] = "d_done" THEN loc[t].val ELSE ItemFor(t)
              [] OTHER                -> ret[t]]
Queue == [i \in 1 .. (rdwr.wr - rdwr.rd + Word) % Word |->
            ItemOf((rdwr.rd + i - 1) % Word)]

Abs == INSTANCE AtomicQueue WITH
    Lax   <- {},
    stage <- Stage,
    res   <- Res,
    queue <- Queue

\* As long as the ring never fills, every execution is one of an atomic FIFO
\* queue, although the checker may abandon a call that has taken effect.
ImplementsAtomicQueue == Abs!Spec
=============================================================================
