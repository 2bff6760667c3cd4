------------------------------- MODULE Traces -------------------------------
(***************************************************************************)
(* The traces the solver scripts look for.  A trace is the order "returned *)
(* before the other was called" of a history.  It is a test case if no     *)
(* order in which a queue, or a set, can run the operations extends it,    *)
(* and it is wanted if it is a minimal one.                                *)
(***************************************************************************)
EXTENDS QueueTraces, SetTraces

\* Slips the runs must notice: minimality not tested.
minimal_oneBug(s, rel, i, j) == TRUE

LegalOrders == [s \in Sizes |->
    {y \in TotalOrders(s) : IF s.tool = "queue" THEN queue_O(s, y) ELSE set_O(s, y)}]

testcase(s, x) ==
    /\ po(s, x)
    /\ s.tool = "queue" => maxchain(s, x)
    /\ \A y \in LegalOrders[s] : ~le(x, y)

\* Without its edge from i to j, rel is no test case; for most edges because
\* it is no longer transitive.
minimal_one(s, rel, i, j) == ~testcase(s, rel \ {<<i, j>>})

minimal_all(s, rel) == \A e \in rel : minimal_one(s, rel, e[1], e[2])

\* The two assertions the solver starts with.
Minimal == [s \in Sizes |->
    {rel \in Posets[Count(s)] : testcase(s, rel) /\ minimal_all(s, rel)}]

\* The assertion added for an answer m rules out rel: for queues if m can be
\* renamed to it.
RulesOut(s, m, rel) ==
    IF s.tool = "queue" THEN gi_strong(s, m, rel) ELSE RuledOutBy(s, m, rel)
=============================================================================
