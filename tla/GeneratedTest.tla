---------------------------- MODULE GeneratedTest ----------------------------
(***************************************************************************)
(* The tool chain.  Once the solver script has ended, queue_testgen.py or  *)
(* set_testgen.py writes a program for a line it printed, with a thread    *)
(* for each operation.  The thread waits until the operations before it in *)
(* the trace have set their flags, makes its call, checks that the answer  *)
(* is that of the history under test and sets its own flag.  Both the wait *)
(* and the check are assumes: the model checker abandons an execution in   *)
(* which they fail, and the test fails if some execution completes.        *)
(*                                                                         *)
(* What is under test is any object at all: a dequeue may return any item, *)
(* also one of a noise thread, or nothing, and the calls of a set either   *)
(* boolean.  So noise threads, which touch no flag, need no steps here.    *)
(***************************************************************************)
EXTENDS Solver

CONSTANT TestSizes   \* the sizes whose lines are made into programs

ASSUME TestSizesAssumption == TestSizes \subseteq Sizes

VARIABLES
    trace,     \* the trace the test is made from
    started,   \* the threads main creates
    pc,        \* pc[t]: "wait", "call", "signal", "done" or "blocked"
    waited,    \* waited[t]: how many flags t has found set
    flag,      \* flag[t]: the flag f_t
    result,    \* result[t]: what the call of t returned
    before     \* the pairs of calls of which one returned before the other began

testVars == <<trace, started, pc, waited, flag, result, before>>
vars == <<solverVars, testVars>>

Ok == 0
Empty == -2
NoiseVal == 100
NoResult == -3

\* label and parse_index: an operation is printed as its kind, the letter of
\* its value and, for a contains, a digit; a dequeue of bottom as the letter T
\* and a second letter.  Letters count from A; nothing keeps the letter of a
\* value from being T, but that takes twenty values.
LetterT == 19
LettersSuffice == \A s \in Sizes : s.tool = "queue" => s.n - s.k <= 2 * LetterT
Name(kind, letter, second) == [kind |-> kind, letter |-> letter, second |-> second]

label(s, i) ==
    IF s.tool = "set"
    THEN LET place == i % GroupSize(s)
         IN  CASE SetType(s, i) = 0 -> Name("add", base_val(s, i), 0)
               [] SetType(s, i) = 1 -> Name("remove", base_val(s, i), 0)
               [] SetType(s, i) = 2 -> Name("in-t", base_val(s, i), place - 2)
               [] SetType(s, i) = 3 -> Name("in-f", base_val(s, i), place - 2 - s.k)
    ELSE IF i \in BottomOps(s) THEN Name("deq", LetterT, i - s.n + s.k)
         ELSE Name(IF QueueType(s, i) = 0 THEN "enq" ELSE "deq", i \div 2, 0)

parse_index(s, name) ==
    CASE name.kind \in {"enq", "deq"} ->
            IF name.letter = LetterT THEN s.n - s.k + name.second
            ELSE name.letter * 2 + (IF name.kind = "deq" THEN 1 ELSE 0)
      [] name.kind = "add"    -> name.letter * GroupSize(s)
      [] name.kind = "remove" -> name.letter * GroupSize(s) + 1
      [] name.kind = "in-t"   -> name.letter * GroupSize(s) + 2 + name.second
      [] name.kind = "in-f"   -> name.letter * GroupSize(s) + 2 + s.k + name.second

\* The edges parse_trace gets from the line the solver printed.
Edges(s, rel) ==
    {<<parse_index(s, label(s, e[1])), parse_index(s, label(s, e[2]))>> : e \in rel}

\* Slips the runs must notice: the add a remove needs does not take part; a
\* thread waits for those after it.
participatingBug(s, edges) == {e[1] : e \in edges} \cup {e[2] : e \in edges}
WaitForBug(edges, t) == {e[2] : e \in {d \in edges : d[1] = t}}

\* For sets the add takes part if the remove of its value does.
participating(s, edges) ==
    LET named == {e[1] : e \in edges} \cup {e[2] : e \in edges}
    IN  named \cup {i - 1 : i \in {r \in named : s.tool = "set" /\ SetType(s, r) = 1}}

WaitFor(edges, t) == {e[1] : e \in {d \in edges : d[2] = t}}

\* op.val of the queue tests.  A dequeue of bottom gets -1 + 1.
val(s, t) == (IF t < s.n - s.k THEN t \div 2 ELSE -1) + 1

IsEnq(s, t) == s.tool = "queue" /\ QueueType(s, t) = 0

\* op.succ of the set tests.
succ(s, t) == SetType(s, t) # 3

Answers(s, t) ==
    CASE s.tool = "set" -> BOOLEAN
      [] IsEnq(s, t)    -> {Ok}
      [] OTHER          -> {Empty, NoiseVal} \cup {val(s, i) : i \in EnqOps(s)}

\* The assumes behind the call.
Passes(s, t, r) ==
    /\ s.tool = "set" => r = succ(s, t)
    /\ s.tool = "queue" /\ ~IsEnq(s, t) =>
          IF val(s, t) = -1 THEN r = Empty ELSE r # Empty /\ r = val(s, t)

Init ==
    /\ SolverInit
    /\ trace = {} /\ started = {} /\ before = {}
    /\ pc = << >> /\ waited = << >> /\ flag = << >> /\ result = << >>

\* The program for one line of the solver's output.  main creates a thread for
\* each participating operation, or for all without noise.
Generate ==
    /\ res = "unsat" /\ size \in TestSizes
    /\ \E rel \in found :
        /\ trace' = Edges(size, rel)
        /\ started' \in {participating(size, trace'), Ops(size)}
    /\ pc' = [t \in started' |-> "wait"]
    /\ waited' = [t \in started' |-> 0]
    /\ flag' = [t \in Ops(size) |-> 0]
    /\ result' = [t \in started' |-> NoResult]
    /\ found' = {}
    /\ res' = "ended"
    /\ UNCHANGED <<size, before>>

-----------------------------------------------------------------------------
\* The flags t waits for, in the order in which the trace lists them.
WaitSeq(t) ==
    CHOOSE q \in SetToSeqs(WaitFor(trace, t)) :
        \A i, j \in DOMAIN q : i < j => q[i] < q[j]

Load(t) ==
    /\ pc[t] = "wait"
    /\ waited[t] < Len(WaitSeq(t))
    /\ IF flag[WaitSeq(t)[waited[t] + 1]] = 1
       THEN waited' = [waited EXCEPT ![t] = @ + 1] /\ UNCHANGED pc
       ELSE pc' = [pc EXCEPT ![t] = "blocked"] /\ UNCHANGED waited
    /\ UNCHANGED <<solverVars, trace, started, flag, result, before>>

Returned == {t \in started : pc[t] \in {"signal", "done"}}

Call(t) ==
    /\ pc[t] = "wait"
    /\ waited[t] = Len(WaitSeq(t))
    /\ pc' = [pc EXCEPT ![t] = "call"]
    /\ before' = before \cup {<<u, t>> : u \in Returned}
    /\ UNCHANGED <<solverVars, trace, started, waited, flag, result>>

Return(t) ==
    /\ pc[t] = "call"
    /\ \E r \in Answers(size, t) :
        /\ result' = [result EXCEPT ![t] = r]
        /\ pc' = [pc EXCEPT ![t] = IF Passes(size, t, r) THEN "signal" ELSE "blocked"]
    /\ UNCHANGED <<solverVars, trace, started, waited, flag, before>>

Signal(t) ==
    /\ pc[t] = "signal"
    /\ flag' = [flag EXCEPT ![t] = 1]
    /\ pc' = [pc EXCEPT ![t] = "done"]
    /\ UNCHANGED <<solverVars, trace, started, waited, result, before>>

NoMore ==
    \/ res = "unsat" /\ (size \notin TestSizes \/ found = {})
    \/ res = "ended" /\ \A t \in started : pc[t] \in {"done", "blocked"}

Terminating == NoMore /\ UNCHANGED vars

Next ==
    \/ NextModel /\ UNCHANGED testVars
    \/ Generate
    \/ \E t \in started : Load(t) \/ Call(t) \/ Return(t) \/ Signal(t)
    \/ Terminating

Spec == Init /\ [][Next]_vars

\* The solver script runs until it ends.
FairSpec == Spec /\ WF_vars(NextModel /\ UNCHANGED testVars)

-----------------------------------------------------------------------------
Completed == started # {} /\ \A t \in started : pc[t] = "done"

\* A test that completes has found a fault: no FIFO queue, and no set, gives
\* these answers to calls in this order.
AsInHistory ==
    \A t \in started :
        /\ size.tool = "set" => result[t] = (SetType(size, t) \in 0 .. 2)
        /\ size.tool = "queue" =>
              /\ QueueType(size, t) = 1 => result[t] = val(size, t - 1)
              /\ QueueType(size, t) = 2 => result[t] = Empty
CompletedIsForbidden == Completed => AsInHistory /\ NotLinearizable(size, before)

\* A test can find the fault it is made for: until a thread is abandoned or
\* all are done, some thread can go on, if what is under test answers as it
\* should not.
CanGoOn(t) ==
    \/ pc[t] = "wait" /\ waited[t] = Len(WaitSeq(t))
    \/ pc[t] = "wait" /\ waited[t] < Len(WaitSeq(t))
          /\ flag[WaitSeq(t)[waited[t] + 1]] = 1
    \/ pc[t] = "call" /\ \E r \in Answers(size, t) : Passes(size, t, r)
    \/ pc[t] = "signal"

NeverStuck ==
    res = "ended" /\ ~Completed /\ (\A t \in started : pc[t] # "blocked")
        => \E t \in started : CanGoOn(t)

\* What has to be put in before a call can find it: the item of a dequeue, the
\* value of a remove or of a contains that finds it.
Source(t) ==
    CASE size.tool = "set" ->
            IF SetType(size, t) \in {1, 2} THEN {t - (t % GroupSize(size))} ELSE {}
      [] size.tool = "queue" ->
            IF QueueType(size, t) = 1 THEN {t - 1} ELSE {}
ItemsArePutIn == \A t \in started : Source(t) \subseteq started

\* Every test can fail: there are answers of what is under test with which all
\* its threads get to their ends, and none of them is the item of a call that
\* the test never makes.
TestsCanComplete == ItemsArePutIn /\ NeverStuck
=============================================================================
