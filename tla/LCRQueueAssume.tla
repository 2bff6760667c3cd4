--------------------------- MODULE LCRQueueAssume ---------------------------
(***************************************************************************)
(* wrappers/lcrq/lcrq-assume.c: the same queue, but for its dequeue.  That *)
(* takes the value its test expects: once it has a place, the model        *)
(* checker abandons the execution unless the cell holds that value.  And   *)
(* it moves head to the next ring without looking at tail again.           *)
(***************************************************************************)
EXTENDS LCRQueueLin

\* q_dequeue with the value v as expected; with expected = 0, as noise threads
\* call it, nothing is assumed.
DeqOf(v) == [Deq EXCEPT !.val = v]
Expects(t) == Current(t).val # Null

\* A noise thread: with an even number it only dequeues, count times; with an
\* odd one it enqueues its own items first.
Noise(items, count, even) ==
    (IF even THEN << >> ELSE [i \in 1 .. count |-> Enq(items[i])])
        \o [i \in 1 .. count |-> Deq]

AssumeTakePlace(t) == TakePlace(t, IF Expects(t) THEN "d_assume" ELSE "d_cell")

AssumeValue(t) ==
    /\ pc[t] = "d_assume"
    /\ Goto(t, IF MyCell(t).val = Current(t).val THEN "d_cell" ELSE "blocked")
    /\ UNCHANGED <<shared, loc>>

AssumeLoadNext(t) == LoadNext(t, "d_move")

AssumeDeqStep(t) ==
    \/ DeqCall(t) \/ DeqLoadFirst(t) \/ AssumeTakePlace(t) \/ AssumeValue(t) \/ DeqLoadCell(t)
    \/ DeqTake(t) \/ DeqMarkUnsafe(t) \/ DeqSkip(t) \/ DeqLoadTail(t)
    \/ AssumeLoadNext(t) \/ DeqMoveFirst(t)

AssumeStep(t) == EnqStep(t) \/ AssumeDeqStep(t) \/ FixStep(t)

AssumeNext == ((\E t \in Threads : AssumeStep(t)) \/ Terminating) /\ Observe

AssumeSpec == LinInit /\ [][AssumeNext]_linVars
=============================================================================
