------------------------------ MODULE SetTraces ------------------------------
(***************************************************************************)
(* The formulas of set_solver.py that are about sets.                      *)
(***************************************************************************)
EXTENDS Orders

\* base_val: the value operation i is about.
base_val(s, i) == i \div GroupSize(s)

\* opType.  0: add, 1: remove, 2: a contains that returns true, 3: one that
\* returns false
SetType(s, i) ==
    LET place == i % GroupSize(s)
    IN  IF place < 2 THEN place ELSE IF place < 2 + s.k THEN 2 ELSE 3

AddOps(s) == {i \in Ops(s) : SetType(s, i) = 0}
OfValue(s, add, type) ==
    {i \in Ops(s) : base_val(s, i) = base_val(s, add) /\ SetType(s, i) = type}

\* y is an order in which a set can run the operations.
set_O(s, y) ==
    \A add \in AddOps(s) :
        LET remove == add + 1
        IN  /\ <<add, remove>> \in y
            /\ \A i \in OfValue(s, add, 2) : <<add, i>> \in y /\ <<i, remove>> \in y
            /\ \A i \in OfValue(s, add, 3) : <<remove, i>> \in y \/ <<i, add>> \in y

\* A slip the runs must notice: the edges that are true left out.
RuledOutByBug(s, m, rel) ==
    \A i, j \in 0 .. s.n - 1 : <<i, j>> \notin m => <<i, j>> \notin rel

\* What an answer m rules out: every order that has its edges and none that it
\* has not among the first n operations.
RuledOutBy(s, m, rel) ==
    /\ m \subseteq rel
    /\ \A i, j \in 0 .. s.n - 1 : <<i, j>> \notin m => <<i, j>> \notin rel
=============================================================================
