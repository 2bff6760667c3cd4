----------------------------- MODULE HWQueueLin -----------------------------
(***************************************************************************)
(* HWQueue as its tests see it.  full is a history variable: full[t] is    *)
(* the set of cells that held an item, as far as t knows, when the dequeue *)
(* t is in loaded back.                                                    *)
(***************************************************************************)
EXTENDS HWQueue, TestMonitor

VARIABLE full

linVars == <<ip, pc, cnt, ret, build, mem, view, scView, after, k, lback, lin, log, full>>

LinInit ==
    /\ ArrayInit
    /\ WatchInit
    /\ full = [t \in Threads |-> {}]

\* The last value of cell i that t knows of.
SeenIn(t, i) == mem[AR(i)][Place(view[t], AR(i))].val

\* The cells that held an item, as far as t knows, when the dequeue t is in
\* loads or loaded back.
KnownFull(t) == IF pc[t] = "d_back" THEN {i \in Cells : SeenIn(t, i) # Null} ELSE full[t]

WatchCells ==
    full' = [t \in Threads |->
                IF pc[t] = "d_back" /\ pc'[t] # "d_back"
                THEN KnownFull(t)
                ELSE IF InCall(t)' THEN full[t] ELSE {}]

LinNext == ArrayNext /\ Watch /\ WatchCells

LinSpec == LinInit /\ [][LinNext]_linVars

\* The only way a dequeue may miss an item: it returns false although the
\* queue was never empty, but then every item that it knew to be in its cell
\* when it loaded back has been taken by someone else before it returns.
FalseOnlyIfRaced ==
    [][\A t \in Threads :
        pc[t] \in {"d_back", "d_xchg"} /\ ~InCall(t)' /\ ret'[t] = Empty =>
            \A i \in KnownFull(t) : Newest(AR(i))' = Null]_linVars

\* The calls that put in or take one of the items xs.
CallsOn(xs) ==
    {c \in AllCalls : Script[c[1]][c[2]].val \in xs \/ log[c[1]][c[2]] \in xs}

\* Interleaved, the results are those of a FIFO queue whose dequeues may fail.
\* With the orders of the code they need not be (the run HWQueue_order); what is
\* left is that those about any three items are, also with what the threads
\* know of each other through calls on the other items.
ThreeExplained ==
    IF Interleaved THEN Linearizable
    ELSE Complete => \A xs \in kSubset(3, Vals) : AllOrders(CallsOn(xs)) # {}
=============================================================================
