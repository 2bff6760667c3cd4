----------------------------- MODULE MCFastMPMC -----------------------------
(* Constants of the FastMPMC run: who calls what. *)
EXTENDS FastMPMC, TLC

CONSTANTS t1, t2, t3

MCThreads == {t1, t2, t3}

\* Two slots.  Each enqueuer dequeues before it enqueues again, as the odd
\* noise threads do: the ring fills and wraps but is never full for good.
MCScript ==
    (t1 :> <<Enq("a"), Deq, Enq("b"), Deq>>) @@ (t2 :> <<Enq("c"), Deq>>) @@
    (t3 :> <<Deq>>)

\* With the loops unbounded and a fair scheduler every call returns: a spin
\* on a version always waits for a thread that can still step.
Finishes == <>(\A t \in Threads : Finished(t))
=============================================================================
