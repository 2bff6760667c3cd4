----------------------------- MODULE MCToolchain -----------------------------
(* The sizes of the runs of the tool chain. *)
EXTENDS GeneratedTest

Queue(n, k, N) == [tool |-> "queue", n |-> n, k |-> k, N |-> N]
Set(n, k, l) == [tool |-> "set", n |-> n, k |-> k, l |-> l]

MCTestSizes ==
    {Queue(2, 0, 2), Queue(4, 0, 4),
     Set(1, 1, 0), Set(1, 0, 1), Set(1, 1, 1), Set(2, 0, 0)}
MCSizes ==
    MCTestSizes \cup
    {Queue(3, 1, 3), Queue(4, 2, 2), Queue(5, 1, 5), Queue(5, 3, 5), Set(1, 2, 1)}

\* The smallest sizes with tests that cannot complete: with a dequeue of bottom,
\* with fewer operations at a time than there are, with two contains that find one
\* value.
MCOpenSizes == {Queue(3, 1, 3), Queue(4, 0, 2), Set(1, 2, 1)}
MCSizesWithOpen == MCOpenSizes \cup {Queue(4, 0, 4)}

\* The formulas are those of a queue and of a set; and a recorded run of
\* queue_solver.py has as many traces (docs/resultset2.txt:86) as there are
\* forbidden orders that contain no other, not counting those that only differ
\* in the names.
ASSUME FormulasAssumption == FormulasRight
ASSUME LettersAssumption == LettersSuffice
ASSUME AsRecorded ==
    LET s == Queue(4, 0, 4)
        smallest == {x \in Forbidden[s] :
            \A z \in SUBSET x : z # x => z \notin Forbidden[s]}
    IN  Cardinality({Renamed(s, x) : x \in smallest}) = 3
=============================================================================
