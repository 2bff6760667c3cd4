------------------------------ MODULE MCQuQueue ------------------------------
(* Constants of the QuQueue run; t3 may stop between any two steps. *)
EXTENDS QuQueue, TLC

CONSTANTS t1, t2, t3

MCThreads == {t1, t2, t3}

MixedScript ==
    (t1 :> <<Enq("a"), Deq, Enq("b")>>) @@ (t2 :> <<Enq("c"), Deq>>) @@
    (t3 :> <<Deq, Enq("d")>>)
=============================================================================
