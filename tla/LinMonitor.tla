----------------------------- MODULE LinMonitor -----------------------------
(***************************************************************************)
(* A linearizability monitor for the queues and sets whose calls take      *)
(* effect at a point that only a later step decides.  It observes          *)
(* invocations and returns, nothing else, and keeps every way the calls so *)
(* far can be ordered: lin is the set of configurations <<values held,     *)
(* results of the calls that took effect and have not returned>> that      *)
(* agree with every result returned.  It is empty exactly when the history *)
(* is one of those queue_solver.py or set_solver.py calls a test case.     *)
(*                                                                         *)
(* A module is composed with it as  Next /\ Observe.                       *)
(***************************************************************************)
EXTENDS Clients, FiniteSets, SequencesExt

CONSTANT Lax   \* as in AtomicQueue

VARIABLE lin

Undecided == "undecided"

MonitorInit == lin = {[items |-> << >>, res |-> [t \in Threads |-> Undecided]]}

\* What a call can do to the values the object holds, oldest first: the values
\* it leaves and the result.
Outcomes(items, call) ==
    LET v == call.val
        isIn == Contains(items, v)
    IN  CASE call.kind = "enq" ->
                {<<Append(items, v), Ok>>}
                \cup (IF "enqMayDrop" \in Lax THEN {<<items, Ok>>} ELSE {})
          [] call.kind = "deq" ->
                (IF items = << >> THEN {<<items, Empty>>}
                 ELSE {<<Tail(items), Head(items)>>})
                \cup (IF "deqMayFail" \in Lax THEN {<<items, Empty>>} ELSE {})
          [] call.kind = "add" ->
                {IF isIn THEN <<items, No>> ELSE <<Append(items, v), Yes>>}
          [] call.kind = "remove" ->
                {IF isIn THEN <<SelectSeq(items, LAMBDA w : w # v), Yes>>
                 ELSE <<items, No>>}
          [] call.kind = "in" -> {<<items, IF isIn THEN Yes ELSE No>>}

\* The configurations in which the current call of t takes effect next.
TakeEffect(c, t) ==
    {[items |-> o[1], res |-> [c.res EXCEPT ![t] = o[2]]] :
        o \in Outcomes(c.items, Current(t))}

\* The configurations after the calls of the threads ts took effect in order.
TakeEffectInOrder(c, ts) ==
    FoldLeft(LAMBDA cs, t : UNION {TakeEffect(d, t) : d \in cs}, {c}, ts)

\* Before t returns its call must take effect, after any of the other
\* pending calls in any order.
Decide(c, t) ==
    IF c.res[t] # Undecided THEN {c}
    ELSE LET others == {u \in Threads \ {t} : InCall(u) /\ c.res[u] = Undecided}
             orders == UNION {SetToSeqs(S) : S \in SUBSET others}
         IN  UNION {TakeEffectInOrder(c, Append(o, t)) : o \in orders}

AfterReturn(t, r) ==
    {[d EXCEPT !.res[t] = Undecided] :
        d \in {e \in UNION {Decide(c, t) : c \in lin} : e.res[t] = r}}

Observe ==
    LET returning == {t \in Threads : InCall(t) /\ ~InCall(t)'}
    IN  IF returning = {} THEN UNCHANGED lin
        ELSE \E t \in returning : lin' = AfterReturn(t, ret'[t])

\* Some order of the calls explains every result returned so far.
Linearizable == lin # {}
=============================================================================
