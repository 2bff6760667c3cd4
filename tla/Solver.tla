------------------------------- MODULE Solver -------------------------------
(***************************************************************************)
(* The main loop of queue_solver.py and set_solver.py: it asks the SMT     *)
(* solver for a model of the formulas, prints it, and adds an assertion    *)
(* that rules out this trace and some others, until no model is left.      *)
(***************************************************************************)
EXTENDS Histories

VARIABLES
    size,   \* the script, and its n, k, l, N
    found,  \* the models printed
    res     \* what check_sat said last; "ended" when the script is gone

solverVars == <<size, found, res>>

\* What the solver can answer once the models in fs are printed.
Candidates(s, fs) == {rel \in Minimal[s] : \A m \in fs : ~RulesOut(s, m, rel)}

Answer(s, fs) == IF Candidates(s, fs) # {} THEN "sat" ELSE "unsat"

SolverInit ==
    /\ size \in Sizes
    /\ found = {}
    /\ res = Answer(size, {})

\* Any model may be the one the solver gives.
NextModel ==
    /\ res = "sat"
    /\ \E rel \in Candidates(size, found) :
        /\ found' = found \cup {rel}
        /\ res' = Answer(size, found')
    /\ UNCHANGED size

-----------------------------------------------------------------------------
\* What the formulas stand for, defined without them.

\* At most N operations run at the same time; sets have no such bound.
Width(s, x) == \A I \in SUBSET Ops(s) :
    (\A i, j \in I : <<i, j>> \notin x) => Cardinality(I) <= s.N

Forbidden == [s \in Sizes |->
    {x \in Posets[Count(s)] :
        NotLinearizable(s, x) /\ (s.tool = "queue" => Width(s, x))}]

\* The traces that only differ from x in the names of values and bottoms.
Renamed(s, x) ==
    {{<<f[e[1]], f[e[2]]>> : e \in x} : f \in
        {g \in [Ops(s) -> Ops(s)] :
            /\ IsInjective(g)
            /\ \A i \in Ops(s) : QueueType(s, g[i]) = QueueType(s, i)
            /\ \A i \in EnqOps(s) : g[i + 1] = g[i] + 1}}

\* Those a printed trace stands for; set_solver.py prints each of them.
Names == [s \in Sizes |-> [x \in Minimal[s] |->
    IF s.tool = "queue" THEN Renamed(s, x) ELSE {x}]]

\* Every trace printed is the order of histories that no FIFO queue, or no set,
\* can have, so a test made from it never fails for a correct one; and, as the
\* comment in queue_solver_ori.py says, no smaller order is a test case.  The
\* code tries the edges one by one, on orders that are no longer transitive.
FoundAreMinimal ==
    /\ found \subseteq Forbidden[size]
    /\ \A rel \in found : \A z \in SUBSET rel : z # rel => z \notin Forbidden[size]

\* No trace is printed under two names.
NoTwoAlike ==
    \A x, y \in found : x # y => y \notin Names[size][x]

\* When the script ends it has missed nothing: every history that is not
\* linearizable contains one of the traces printed, under some names.  For sets
\* the assertion of set_solver.py:225 must therefore rule out only the model it
\* is made from, although it looks at few of the edges that are not there.
NothingMissed ==
    res = "unsat" =>
        LET traces == UNION {Names[size][x] : x \in found}
        IN  \A x \in Forbidden[size] : \E y \in traces : y \subseteq x

\* The script ends: a model never comes a second time.
Ends == <>(res # "sat")
=============================================================================
