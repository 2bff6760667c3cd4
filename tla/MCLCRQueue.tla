----------------------------- MODULE MCLCRQueue -----------------------------
(* Constants of the LCRQueue runs. *)
EXTENDS LCRQueueAssume, TLC

CONSTANTS t1, t2, t3

MCThreads == {t1, t2, t3}
MixedScript ==
    (t1 :> <<Enq("a"), Enq("b")>>) @@ (t2 :> <<Enq("c"), Deq>>) @@ (t3 :> <<Deq>>)
\* t2 is a noise thread with an odd number, t3 the dequeue of a test.
AssumeScript ==
    (t1 :> <<Enq("a"), Enq("b")>>) @@ (t2 :> Noise(<<"c">>, 1, FALSE)) @@ (t3 :> <<DeqOf("c")>>)
=============================================================================
