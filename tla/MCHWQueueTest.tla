---------------------------- MODULE MCHWQueueTest ----------------------------
(* The test tests/generated/generic_10_0_10_True_4/t4.c: eight operations take *)
(* part, each in a thread of its own, and there is no noise.                   *)
EXTENDS HWQueueTest

CONSTANTS
    thread_0, thread_1, thread_2, thread_3, thread_6, thread_7, thread_8, thread_9

MCScript ==
    (thread_0 :> <<Enq("A")>>) @@ (thread_1 :> <<Deq>>) @@
    (thread_2 :> <<Enq("B")>>) @@ (thread_3 :> <<Deq>>) @@
    (thread_6 :> <<Enq("D")>>) @@ (thread_7 :> <<Deq>>) @@
    (thread_8 :> <<Enq("E")>>) @@ (thread_9 :> <<Deq>>)

MCItem ==
    (thread_1 :> "A") @@ (thread_3 :> "B") @@ (thread_7 :> "D") @@ (thread_9 :> "E")

\* enq(A)_enq(B), deq(B)_enq(D), deq(D)_deq(E), enq(E)_deq(A).
MCBefore ==
    {<<thread_0, thread_2>>, <<thread_3, thread_6>>, <<thread_7, thread_9>>,
     <<thread_8, thread_1>>}

MCWaits == [t \in Threads |-> {{e[1] : e \in {d \in MCBefore : d[2] = t}}}]
=============================================================================
