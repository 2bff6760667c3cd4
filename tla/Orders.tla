------------------------------- MODULE Orders -------------------------------
(***************************************************************************)
(* What queue_solver.py and set_solver.py have in common: both enumerate   *)
(* orders on the operations of a history, given as the set of the pairs    *)
(* the solver prints.  n, k, l, N are globals of the scripts; here they    *)
(* are the fields of a size s, together with the script it is for.         *)
(*                                                                         *)
(* Queue: n operations, of which the last k are dequeues that found the    *)
(* queue empty; the others are pairs, operation 2v enqueues value v and    *)
(* operation 2v + 1 dequeues it.  At most N operations run at once.        *)
(* Set: n values, and for each of them an add, a remove, k contains that   *)
(* return true and l that return false, in this order.                     *)
(***************************************************************************)
EXTENDS Integers, SequencesExt, FiniteSetsExt

CONSTANT Sizes   \* the sizes the scripts are run with

\* The scripts raise an exception for any other numbers.
ASSUME SizesAssumption ==
    \A s \in Sizes :
        \/ /\ s \in [tool : {"queue"}, n : Nat, k : Nat, N : Nat]
           /\ s.k < s.n /\ (s.n - s.k) % 2 = 0
        \/ s \in [tool : {"set"}, n : Nat \ {0}, k : Nat, l : Nat]

QueueSizes == {s \in Sizes : s.tool = "queue"}
SetSizes   == {s \in Sizes : s.tool = "set"}

\* group_size and len(ops)
GroupSize(s) == 2 + s.k + s.l
Count(s) == IF s.tool = "queue" THEN s.n ELSE s.n * GroupSize(s)
Ops(s) == 0 .. Count(s) - 1

-----------------------------------------------------------------------------
\* The test for i # k is missing from trans on purpose: with irr it rules out
\* cycles of two.
le(x, y) == x \subseteq y
irr(s, y) == \A i \in Ops(s) : <<i, i>> \notin y
trans(y) ==
    \A e, f \in y : e[2] = f[1] /\ e[1] # e[2] /\ f[1] # f[2] => <<e[1], f[2]>> \in y
po(s, y) == irr(s, y) /\ trans(y)

\* The order of the operations in a sequence of them, and all the total orders.
OrderOf(run) ==
    {<<run[e[1]], run[e[2]]>> :
        e \in {d \in (1 .. Len(run)) \X (1 .. Len(run)) : d[1] < d[2]}}
TotalOrders(s) == {OrderOf(run) : run \in SetToSeqs(Ops(s))}

\* All the partial orders of m operations.
Posets ==
    LET pairs(m) == {e \in (0 .. m - 1) \X (0 .. m - 1) : e[1] # e[2]}
        orders(m) == {y \in SUBSET pairs(m) : trans(y)}
    IN  [m \in {Count(s) : s \in Sizes} |-> {y : y \in orders(m)}]
=============================================================================
