----------------------------- MODULE MCMSQueue -----------------------------
(* Constants of the MSQueue run; a thread is its number. *)
EXTENDS MSQueueLin, TLC

\* Thread 0 recycles nodes through its free list; the enqueuer 2 may stop
\* between any two steps.
RecycleScript ==
    (0 :> <<Enq("a"), Deq, Enq("b"), Deq>>) @@ (1 :> <<Deq>>) @@ (2 :> <<Enq("c")>>)
=============================================================================
