----------------------------- MODULE AtomicQueue -----------------------------
(***************************************************************************)
(* What every queue under test promises: each call takes effect at one     *)
(* instant between its invocation and its return, on a first-in first-out  *)
(* queue.  queue_solver.py enumerates the histories that have no such      *)
(* instants; a queue that implements this module produces none of them.    *)
(*                                                                         *)
(* Lax weakens the contract for wrappers that promise less:                *)
(*   "deqMayFail"  a dequeue may return false although the queue holds an  *)
(*                 item (it lost a race and gave up)                       *)
(*   "enqMayDrop"  an enqueue may return without having added its item     *)
(***************************************************************************)
EXTENDS Naturals, Sequences

CONSTANTS Threads, Script, Lax

VARIABLES
    ip,     \* ip[t]: the number of calls t has made
    stage,  \* stage[t]: "idle", "called" or "done" (took effect, not returned)
    res,    \* res[t]: the result of the last call of t that took effect
    queue   \* the items, oldest first

vars == <<ip, stage, res, queue>>

Init ==
    /\ ip    = [t \in Threads |-> 0]
    /\ stage = [t \in Threads |-> "idle"]
    /\ res   = [t \in Threads |-> "noret"]
    /\ queue = << >>

Call(t) ==
    /\ stage[t] = "idle"
    /\ ip[t] < Len(Script[t])
    /\ ip'    = [ip EXCEPT ![t] = @ + 1]
    /\ stage' = [stage EXCEPT ![t] = "called"]
    /\ UNCHANGED <<res, queue>>

\* The call of t takes effect with result r and leaves the items q.  It may
\* return at once or later.
Effect(t, r, q) ==
    /\ \E s \in {"done", "idle"} : stage' = [stage EXCEPT ![t] = s]
    /\ res'   = [res EXCEPT ![t] = r]
    /\ queue' = q
    /\ UNCHANGED ip

Enqueue(t) ==
    /\ stage[t] = "called"
    /\ Script[t][ip[t]].kind = "enq"
    /\ \/ Effect(t, "ok", Append(queue, Script[t][ip[t]].val))
       \/ "enqMayDrop" \in Lax /\ Effect(t, "ok", queue)

Dequeue(t) ==
    /\ stage[t] = "called"
    /\ Script[t][ip[t]].kind = "deq"
    /\ \/ queue # << >> /\ Effect(t, Head(queue), Tail(queue))
       \/ queue = << >> /\ Effect(t, "empty", queue)
       \/ "deqMayFail" \in Lax /\ Effect(t, "empty", queue)

Return(t) ==
    /\ stage[t] = "done"
    /\ stage' = [stage EXCEPT ![t] = "idle"]
    /\ UNCHANGED <<ip, res, queue>>

Step(t) == Call(t) \/ Enqueue(t) \/ Dequeue(t) \/ Return(t)

Next == \E t \in Threads : Step(t)

Spec == Init /\ [][Next]_vars
=============================================================================
