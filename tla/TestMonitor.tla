---------------------------- MODULE TestMonitor ----------------------------
(***************************************************************************)
(* What a queue or set in the memory of C11 is held to.  In the build      *)
(* "SEQ" executions interleave and LinMonitor watches the calls in real    *)
(* time.  In any other, "one call returned before another began" means     *)
(* nothing to the program unless a flag says so: as the generated tests    *)
(* do, the complete execution is compared with the order of the flags and  *)
(* of each thread's calls.                                                 *)
(***************************************************************************)
EXTENDS LinMonitor, C11

VARIABLE log   \* log[t]: the results of the calls of t, in order

WatchInit == MonitorInit /\ log = [t \in Threads |-> << >>]

Record ==
    log' = [t \in Threads |-> IF InCall(t) /\ ~InCall(t)' THEN Append(log[t], ret'[t]) ELSE log[t]]

Watch ==
    IF Interleaved THEN Observe /\ UNCHANGED log ELSE Record /\ UNCHANGED lin

AllCalls == UNION {{<<t, i>> : i \in DOMAIN Script[t]} : t \in Threads}

\* What the next call of t does to the values the object holds, if it returned
\* what log says; a call that is not one of calls does nothing to them.
Leaves(at, t, calls) ==
    LET i == at.done[t] + 1
    IN  IF <<t, i>> \in calls
        THEN {o[1] : o \in {p \in Outcomes(at.items, Script[t][i]) : p[2] = log[t][i]}}
        ELSE {at.items}

\* How far an order of the calls has got: done[t] calls of each thread, and
\* the values the object then holds.
Ahead(at, calls) ==
    UNION {{[done |-> [at.done EXCEPT ![t] = @ + 1], items |-> v] : v \in Leaves(at, t, calls)} :
           t \in {u \in Threads :
                     /\ at.done[u] < Len(log[u])
                     /\ \A w \in after[u] : at.done[w] = Len(log[w])}}

\* The orders of all calls, in each of which calls do what they do to a queue
\* or a set and the others nothing.
AllOrders(calls) ==
    LET start == {[done |-> [t \in Threads |-> 0], items |-> << >>]}
        go[n \in Nat] == IF n = 0 THEN start ELSE UNION {Ahead(at, calls) : at \in go[n - 1]}
    IN  go[MapThenSumSet(LAMBDA t : Len(log[t]), Threads)]

Complete == \A t \in Threads : Finished(t)

\* The results have an explanation: some order of the calls that extends
\* the order seen by the program is one of a FIFO queue, or of a set.
Explained ==
    IF Interleaved THEN Linearizable ELSE Complete => AllOrders(AllCalls) # {}
=============================================================================
