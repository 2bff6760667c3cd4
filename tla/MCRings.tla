------------------------------- MODULE MCRings -------------------------------
(***************************************************************************)
(* The three wrappers with a ring of fixed size, each under a test of its  *)
(* own.  As queue-wrappers.h includes one wrapper, by the macro that is    *)
(* defined, so wrapper says which of them an execution is of; the objects  *)
(* of the other two stay as they are at the start.                         *)
(***************************************************************************)
EXTENDS MPMCQueue, TLC

CONSTANTS
    t1, t2, t3,
    WeakExchange   \* of UniQ

VARIABLES
    wrapper,
    uniIp, uniPc, uniCnt, uniRet, in, out, isUsed, uniBuffer, local,
    dequeIp, dequePc, dequeCnt, dequeRet, bottom, top, buffer, dequeLoc

MCThreads == {t1, t2, t3}

\* MPMC: never more than two items at a time, and four writes in all, so that
\* with two slots and counters modulo four both the ring and the counters wrap.
MCScript ==
    (t1 :> <<Enq("a"), Deq, Enq("b"), Deq>>) @@ (t2 :> <<Enq("c"), Deq, Enq("d")>>) @@
    (t3 :> <<Deq>>)

\* UniQ: one more enqueue than a ring of two slots holds: it drops its item or
\* wraps the ring, when a dequeue has made room.
UniScript ==
    (t1 :> <<Enq("a"), Enq("b")>>) @@ (t2 :> <<Enq("c"), Deq>>) @@ (t3 :> <<Deq>>)

\* Chase-Lev: one owner and two thieves.  The third push fails its assertion if
\* no thief has made room; otherwise the two slots wrap.
OwnerScript ==
    (t1 :> <<Enq("a"), Enq("b"), Enq("c"), Deq, Enq("d")>>) @@
    (t2 :> <<Deq, Deq>>) @@ (t3 :> <<Deq, Deq>>)

UniQ == INSTANCE UniQueue WITH
    Script <- UniScript, ip <- uniIp, pc <- uniPc, cnt <- uniCnt, ret <- uniRet,
    buffer <- uniBuffer

\* The loops of the deque have no bound.
Deque == INSTANCE ChaseLevQueue WITH
    Script <- OwnerScript, MaxIter <- 0, ip <- dequeIp, pc <- dequePc,
    cnt <- dequeCnt, ret <- dequeRet, loc <- dequeLoc

uniVars == <<uniIp, uniPc, uniCnt, uniRet, in, out, isUsed, uniBuffer, local>>
dequeVars == <<dequeIp, dequePc, dequeCnt, dequeRet, bottom, top, buffer, dequeLoc>>
mcVars == <<wrapper, vars, uniVars, dequeVars>>

MCInit ==
    /\ wrapper \in {"MPMC", "UNIQ", "CHASE"}
    /\ Init /\ UniQ!UniInit /\ Deque!Init

MCNext ==
    /\ \/ wrapper = "MPMC" /\ Next /\ UNCHANGED <<uniVars, dequeVars>>
       \/ wrapper = "UNIQ" /\ UniQ!UniNext /\ UNCHANGED <<vars, dequeVars>>
       \/ wrapper = "CHASE" /\ Deque!Next /\ UNCHANGED <<vars, uniVars>>
    /\ UNCHANGED wrapper

MCSpec == MCInit /\ [][MCNext]_mcVars

\* What the modules promise of their queues, under the names they have there;
\* ImplementsAtomicQueue is that of MPMC.
RingInv == UniQ!RingInv
ImplementsQueueAtFirst == UniQ!ImplementsQueueAtFirst
DropsOnlyWhenFull == UniQ!DropsOnlyWhenFull
DequeInv == Deque!DequeInv
DequeImplementsQueue == Deque!ImplementsAtomicQueue

\* The hypothesis of the theorems about the deque.
ASSUME ScriptHasOneOwner == Deque!OneOwner
=============================================================================
