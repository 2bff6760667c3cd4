------------------------------ MODULE Histories ------------------------------
(***************************************************************************)
(* What the formulas of Traces stand for, defined without them: the        *)
(* operations in the orders in which a FIFO queue, or a set, can run them. *)
(***************************************************************************)
EXTENDS Traces

\* The values held after one operation, oldest first, or stuck for ever if the
\* operation cannot have its result.
Stuck == <<-1>>
DoQueue(s, items, i) ==
    CASE QueueType(s, i) = 0 -> Append(items, i)
      [] QueueType(s, i) = 1 ->
            IF items # << >> /\ Head(items) = i - 1 THEN Tail(items) ELSE Stuck
      [] QueueType(s, i) = 2 -> IF items = << >> THEN << >> ELSE Stuck

DoSet(s, items, i) ==
    LET v == base_val(s, i)
        isIn == Contains(items, v)
    IN  CASE SetType(s, i) = 0 -> IF isIn THEN Stuck ELSE Append(items, v)
          [] SetType(s, i) = 1 -> IF isIn THEN Remove(items, v) ELSE Stuck
          [] SetType(s, i) = 2 -> IF isIn THEN items ELSE Stuck
          [] SetType(s, i) = 3 -> IF isIn THEN Stuck ELSE items

Do(s, items, i) ==
    IF items = Stuck THEN Stuck
    ELSE IF s.tool = "queue" THEN DoQueue(s, items, i) ELSE DoSet(s, items, i)

CanRun(s, run) == FoldLeft(LAMBDA items, i : Do(s, items, i), << >>, run) # Stuck

\* The orders in which the operations can run.
AllRunOrders ==
    [s \in Sizes |-> {OrderOf(run) : run \in {r \in SetToSeqs(Ops(s)) : CanRun(s, r)}}]

\* What the formulas say of an order is that the operations can run in it.
FormulasRight == \A s \in Sizes : LegalOrders[s] = AllRunOrders[s]

\* No queue, or no set, has a history with this order.
NotLinearizable(s, x) == \A y \in AllRunOrders[s] : ~(x \subseteq y)
=============================================================================
