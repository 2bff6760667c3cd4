----------------------------- MODULE QueueTraces -----------------------------
(***************************************************************************)
(* The formulas of queue_solver.py that are about queues.                  *)
(***************************************************************************)
EXTENDS Orders

EnqOps(s) == {i \in 0 .. s.n - s.k - 1 : i % 2 = 0}
BottomOps(s) == s.n - s.k .. s.n - 1

\* opType.  0: enq(val), 1: deq(val), 2: deq(bot)
QueueType(s, i) == IF i >= s.n - s.k THEN 2 ELSE i % 2

\* A slip the runs must notice: a match of the reversed order.
gi_t3Bug(s, f, e1, rel) ==
    \A e \in e1 : <<f[e[2]], f[e[1]]>> \in rel

\* A dequeue of bottom sees no value in the queue.
BottomOutside(s, y, i, j) ==
    /\ <<i, j>> \in y <=> <<i + 1, j>> \in y
    /\ <<j, i>> \in y <=> <<j, i + 1>> \in y

\* y is an order in which a FIFO queue can run the operations.
queue_O(s, y) ==
    \A i \in EnqOps(s) :
        /\ <<i, i + 1>> \in y
        /\ \A j \in EnqOps(s) : i < j =>
              /\ <<i, j>> \in y <=> <<i + 1, j + 1>> \in y
              /\ <<j, i>> \in y <=> <<j + 1, i + 1>> \in y
        /\ \A j \in BottomOps(s) : BottomOutside(s, y, i, j)

\* Of N + 1 operations two are ordered.
maxchain(s, x) ==
    \A I \in kSubset(s.N + 1, Ops(s)) : \E i, j \in I : <<i, j>> \in x

-----------------------------------------------------------------------------
\* gi_strong(x, e1, rel): x maps the trace e1 to rel.  gi_t1 and gi_t2 say that
\* every operation is mapped and no two to the same one, so x is a permutation
\* of the operations, f here.  gi_t4 keeps the types and gi_t5 the pairs.
gi_t3(s, f, e1, rel) ==
    \A i, j \in Ops(s) : i # j => (<<i, j>> \in e1 <=> <<f[i], f[j]>> \in rel)
gi_t4(s, f) == \A i \in Ops(s) : QueueType(s, i) = QueueType(s, f[i])
gi_t5(s, f) ==
    \A i \in Ops(s) : QueueType(s, i) = 0 /\ QueueType(s, f[i]) = 0 => f[i + 1] = f[i] + 1

gi_t1t2(s) == {[i \in Ops(s) |-> run[i + 1]] : run \in SetToSeqs(Ops(s))}

Maps == [s \in QueueSizes |-> {f \in gi_t1t2(s) : gi_t4(s, f) /\ gi_t5(s, f)}]

gi_strong(s, e1, rel) == \E f \in Maps[s] : gi_t3(s, f, e1, rel)
=============================================================================
