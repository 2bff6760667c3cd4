------------------------------- MODULE HWQueue -------------------------------
(***************************************************************************)
(* wrappers/hwqueue-wrapper.h: the array queue of Herlihy and Wing.  An    *)
(* enqueuer takes the next index of AR with one fetch-and-add and stores   *)
(* its item there; a dequeuer reads back and sweeps AR from the bottom,    *)
(* exchanging every cell with null until it gets an item.  The sweep is    *)
(* made once: where the published algorithm starts over, this one returns  *)
(* false.                                                                  *)
(*                                                                         *)
(* The fetch-and-add is only a release and the accesses to AR are relaxed: *)
(* every access goes to the memory of C11 with the order it has in the     *)
(* code.  The payload that val points to is plain memory, filled by the    *)
(* enqueuer before its call.                                               *)
(***************************************************************************)
EXTENDS C11

CONSTANTS
    MAX,   \* the number of cells of AR
    Waits  \* Waits[t]: the sets of threads whose flags t may wait for, in a test

ASSUME WaitsAssumption == Waits \in [Threads -> SUBSET SUBSET Threads]

VARIABLES
    k,      \* k[t]: the local k of t
    lback   \* lback[t]: the local lback of a dequeue

arrayVars == <<ip, pc, cnt, ret, build, mem, view, scView, after, k, lback>>

Cells == 0 .. MAX - 1
ArrayLabels == {"e_faa", "e_store", "d_back", "d_xchg"}

back == <<"back", 0>>
AR(i) == <<"AR", i>>
Payload(v) == <<"payload", v>>

ArrayInit ==
    /\ ClientInit
    /\ MemInit([x \in {back} \cup {AR(i) : i \in Cells} |-> IF x = back THEN 0 ELSE Null])
    /\ k = [t \in Threads |-> 0]
    /\ lback = [t \in Threads |-> 0]

-----------------------------------------------------------------------------
\* Slips the run must notice: a cell index read without being taken, a sweep
\* that starts at the second cell, a weaker order.
TakenIndexBug == [b \in Nat |-> b]
SweepFromBug == 1
FetchAddOrderBug == "relaxed"
LoadBackOrderBug == "relaxed"

\* fetch_add(back, 1) leaves b + 1; exchange leaves null in the cell.
BackAfter == [b \in Nat |-> b + 1]
CellAfter == [v \in Payloads |-> Null]
SweepFrom == 0
FetchAddOrder == "release"
LoadBackOrder == "acquire"
MoreCells(i, limit) == i < limit

\* The flags t reads before its first call.
FlagsRead(t) == IF ip[t] = 0 /\ ~Interleaved THEN Waits[t] ELSE {{}}

EnqCall(t) ==
    /\ Invoke(t, "enq", "e_faa")
    /\ \E ts \in FlagsRead(t) : Starts(t, ts, Filled(Payload(Current(t)'.val)))
    /\ UNCHANGED <<k, lback>>

EnqFetchAdd(t) ==
    /\ pc[t] = "e_faa"
    /\ \E e \in Update(t, back, BackAfter, FetchAddOrder) :
          Does(e) /\ k' = [k EXCEPT ![t] = e.val]
    /\ Goto(t, "e_store")
    /\ UNCHANGED lback

EnqStore(t) ==
    /\ pc[t] = "e_store"
    /\ \E e \in Store(t, AR(k[t]), Current(t).val, "relaxed") : Does(e)
    /\ Return(t, Ok)
    /\ UNCHANGED <<k, lback>>

DeqCall(t) ==
    /\ Invoke(t, "deq", "d_back")
    /\ \E ts \in FlagsRead(t) : Starts(t, ts, Nothing)
    /\ UNCHANGED <<k, lback>>

DeqLoadBack(t) ==
    /\ pc[t] = "d_back"
    /\ \E e \in Load(t, back, LoadBackOrder) :
          /\ Does(e)
          /\ lback' = [lback EXCEPT ![t] = e.val]
          /\ IF MoreCells(SweepFrom, e.val) THEN Goto(t, "d_xchg") ELSE Return(t, Empty)
    /\ k' = [k EXCEPT ![t] = SweepFrom]

DeqExchange(t) ==
    /\ pc[t] = "d_xchg"
    /\ \E e \in Update(t, AR(k[t]), CellAfter, "relaxed") :
          /\ Does(e)
          /\ IF e.val # Null THEN Return(t, e.val)
             ELSE IF MoreCells(k[t] + 1, lback[t]) THEN Goto(t, "d_xchg")
             ELSE Return(t, Empty)
    /\ k' = [k EXCEPT ![t] = @ + 1]
    /\ UNCHANGED lback

-----------------------------------------------------------------------------
ArrayStep(t) ==
    \/ EnqCall(t) \/ EnqFetchAdd(t) \/ EnqStore(t)
    \/ DeqCall(t) \/ DeqLoadBack(t) \/ DeqExchange(t)

ArrayDone == Quiescent /\ UNCHANGED arrayVars

ArrayNext == (\E t \in Threads : ArrayStep(t)) \/ ArrayDone

ArraySpec == ArrayInit /\ [][ArrayNext]_arrayVars

-----------------------------------------------------------------------------
\* The program's variables stay in their types; in particular the cell a
\* thread is about to access is one of AR's, which the code never checks.
ArrayTypeOK ==
    /\ ClientTypeOK(ArrayLabels)
    /\ Newest(back) \in 0 .. MAX
    /\ \A i \in Cells : Newest(AR(i)) \in Payloads
    /\ \A t \in Threads : k[t] \in 0 .. MAX /\ lback[t] \in 0 .. Newest(back)
    /\ \A t \in Threads : pc[t] \in {"e_store", "d_xchg"} => k[t] \in Cells

\* What the wrapper takes for granted: AR has a cell for each enqueue of the test
\* (it never compares an index with MAX), and an item is not mistaken for a
\* result of another kind, as it is a pointer.
Enqueues ==
    UNION {{<<t, i>> : i \in {j \in DOMAIN Script[t] : Script[t][j].kind = "enq"}} :
              t \in Threads}
EnoughCells == MAX \in Nat /\ IsFiniteSet(Enqueues) /\ Cardinality(Enqueues) <= MAX
ItemsApart == Vals \cap {Null, Ok, Empty, NoRet} = {}

\* Two enqueuers never hold the same cell, and no item has been put in the cell
\* an enqueuer holds, however many sweeps pass over it.
ClaimedCells ==
    \A t, u \in Threads :
        pc[t] = "e_store" =>
            /\ k[t] < Newest(back)
            /\ \A i \in DOMAIN mem[AR(k[t])] : mem[AR(k[t])][i].val = Null
            /\ pc[u] = "e_store" /\ t # u => k[t] # k[u]

\* The indices the calls hold are cells of AR, and each enqueuer's its own.
ArrayInv == ArrayTypeOK /\ ClaimedCells

\* The payload of an item has been written, as far as the thread can know,
\* that gets the item from a dequeue: although the cells are relaxed, the
\* release of the index before the item is stored is enough.
PayloadsKnown == \A t \in Threads : ret[t] \in Vals => Knows(t, Payload(ret[t]))
=============================================================================
