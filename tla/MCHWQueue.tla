------------------------------ MODULE MCHWQueue ------------------------------
(* Constants of the HWQueue run: four enqueues, three dequeues. *)
EXTENDS HWQueueLin

CONSTANTS t1, t2, t3

MCThreads == {t1, t2, t3}
MCScript ==
    (t1 :> <<Enq("a"), Enq("b")>>) @@ (t2 :> <<Deq, Enq("c"), Deq>>) @@
    (t3 :> <<Enq("d"), Deq>>)
MCWaits == [t \in MCThreads |-> SUBSET (MCThreads \ {t})]

\* The hypotheses of the theorems.
ASSUME TestFits == EnoughCells
ASSUME ScriptItemsApart == ItemsApart
=============================================================================
