----------------------------- MODULE HWQueueTest -----------------------------
(***************************************************************************)
(* A generated test of HWQueue.  The thread of an operation waits for the  *)
(* flags of the operations before it in the trace (FlagsRead), makes its   *)
(* call and, if that is a dequeue, assumes that it has got the item of the *)
(* history under test; an execution in which an assume fails is abandoned. *)
(* So an execution that completes is one of that history.                  *)
(***************************************************************************)
EXTENDS HWQueueLin

CONSTANT Item   \* Item[t]: what the test assumes that the dequeue of t returns

AssumesPass == \A t \in DOMAIN Item : InCall(t) /\ ~InCall(t)' => ret'[t] = Item[t]

TestNext == LinNext /\ AssumesPass

TestSpec == LinInit /\ [][TestNext]_linVars
=============================================================================
