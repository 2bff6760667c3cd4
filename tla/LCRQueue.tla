------------------------------ MODULE LCRQueue ------------------------------
(***************************************************************************)
(* wrappers/lcrq/lcrq.c: the LCRQ of Morrison and Afek,                    *)
(* a linked list of rings.  A ring hands out places by fetch-and-add on    *)
(* its head and tail.  A cell is one word: a value, the index of the place *)
(* it serves next, and a bit that says enqueues into it are unsafe.  A     *)
(* dequeuer that reaches its place before the enqueuer pushes the cell one *)
(* lap on; an enqueuer that keeps missing closes the ring and appends a    *)
(* new one that already holds its item.                                    *)
(***************************************************************************)
EXTENDS Clients

CONSTANTS
    RingSize,  \* RING_SIZE
    MaxRings,  \* bound: the number of rings the runs may allocate
    WeakCAS    \* TRUE: compare_exchange_weak may fail spuriously

ASSUME RingAssumption == RingSize \in Nat \ {0} /\ MaxRings \in Nat \ {0}

VARIABLES
    first, last,  \* the globals head and tail: the rings at both ends
    ring,         \* ring[r]: head, tail, closed bit of tail, next and array
    used,         \* the number of rings in use; a ring a thread has allocated
                  \* and not appended (nrq) is nobody else's business
    loc           \* loc[t]: the locals of the call t is in

shared == <<first, last, ring, used>>
vars == <<ip, pc, cnt, ret, first, last, ring, used, loc>>

NoRing == 0
Rings == 1 .. MaxRings
Places == 0 .. RingSize - 1

Cell(v, i, u) == [val |-> v, idx |-> i, unsafe |-> u]

\* init_ring: an empty ring; SHARED_OBJECT_INIT makes it the only one.
EmptyRing == [head |-> 0, tail |-> 0, closed |-> FALSE, next |-> NoRing,
              array |-> [s \in Places |-> Cell(Null, s, FALSE)]]

EnqLabels == {"e_last", "e_next", "e_help", "e_faa", "e_idx", "e_val", "e_head",
              "e_cas", "e_full", "e_close", "e_link", "e_swing"}
DeqLabels == {"d_first", "d_faa", "d_cell", "d_take", "d_mark", "d_skip", "d_tail",
              "f_tail", "f_head", "f_check", "f_cas", "d_next", "d_tail2", "d_move"}
Labels == EnqLabels \cup DeqLabels

\* rq, next: rings; t: the place taken (t or h); cell: the cell as read;
\* ft, fh, fixes: t, h and cnt of fixState.
NoLocals == [rq |-> NoRing, next |-> NoRing, t |-> 0, cell |-> Cell(Null, 0, FALSE),
             ft |-> [tail |-> 0, closed |-> FALSE], fh |-> 0, fixes |-> 0]

Init ==
    /\ ClientInit
    /\ first = 1
    /\ last = 1
    /\ ring = [r \in Rings |-> EmptyRing]
    /\ used = 1
    /\ loc = [t \in Threads |-> NoLocals]

-----------------------------------------------------------------------------
\* Slips the runs must notice.
UnsafeLostBug(u) == FALSE
PastTailBug(r, t) == TRUE
CasAlwaysBug(actual, expected) == {TRUE}

\* The ring an enqueuer appends: its item is in it already.
SoloRing(v) == [EmptyRing EXCEPT !.tail = 1, !.array[0] = Cell(v, 0, FALSE)]

My(t) == ring[loc[t].rq]                    \* *rq
Place(t) == loc[t].t % RingSize             \* t & (RING_SIZE-1)
MyCell(t) == My(t).array[Place(t)]
TailWord(r) == [tail |-> r.tail, closed |-> r.closed]

\* May place t be filled in a cell of index i; the bit a dequeuer hands on;
\* the index it leaves behind; is the ring full for place t; has nothing been
\* enqueued at or after place t; has head run past tail.  A closed tail is
\* above every head.
CellReady(i, t) == i <= t
Keep(u) == u
NextLap(t) == t + RingSize
RingFull(t, h) == t - h >= RingSize
NothingAfter(r, t) == r.tail <= t + 1
TailBehind(ft, fh) == ~ft.closed /\ fh > ft.tail

CasOutcomes(actual, expected) ==
    IF actual # expected THEN {FALSE}
    ELSE IF WeakCAS THEN {TRUE, FALSE} ELSE {TRUE}

SetLocal(t, l) == loc' = [loc EXCEPT ![t] = l]
Finish(t, r) == Return(t, r) /\ SetLocal(t, NoLocals)
SetCell(t, c) == ring' = [ring EXCEPT ![loc[t].rq].array[Place(t)] = c]

-----------------------------------------------------------------------------
EnqCall(t) == Invoke(t, "enq", "e_last") /\ UNCHANGED <<shared, loc>>

EnqLoadLast(t) ==
    /\ pc[t] = "e_last"
    /\ SetLocal(t, [NoLocals EXCEPT !.rq = last])
    /\ Goto(t, "e_next")
    /\ UNCHANGED shared

EnqLoadNext(t) ==
    /\ pc[t] = "e_next"
    /\ SetLocal(t, [loc[t] EXCEPT !.next = My(t).next])
    /\ Goto(t, IF My(t).next # NoRing THEN "e_help" ELSE "e_faa")
    /\ UNCHANGED shared

EnqHelp(t) ==
    /\ pc[t] = "e_help"
    /\ \E ok \in CasOutcomes(last, loc[t].rq) : last' = IF ok THEN loc[t].next ELSE last
    /\ Retry(t, "e_last")
    /\ UNCHANGED <<first, ring, used, loc>>

EnqTakePlace(t) ==
    /\ pc[t] = "e_faa"
    /\ SetLocal(t, [loc[t] EXCEPT !.t = My(t).tail])
    /\ ring' = [ring EXCEPT ![loc[t].rq].tail = @ + 1]
    /\ Goto(t, IF My(t).closed THEN "e_link" ELSE "e_idx")
    /\ UNCHANGED <<first, last, used>>

\* The index (with its bit) and the value of the cell are read by two loads.
EnqLoadIndex(t) ==
    /\ pc[t] = "e_idx"
    /\ SetLocal(t, [loc[t] EXCEPT !.cell = [MyCell(t) EXCEPT !.val = Null]])
    /\ Goto(t, "e_val")
    /\ UNCHANGED shared

EnqLoadValue(t) ==
    /\ pc[t] = "e_val"
    /\ Goto(t, IF MyCell(t).val = Null /\ CellReady(loc[t].cell.idx, loc[t].t)
               THEN IF loc[t].cell.unsafe THEN "e_head" ELSE "e_cas"
               ELSE "e_full")
    /\ UNCHANGED <<shared, loc>>

EnqLoadHead(t) ==
    /\ pc[t] = "e_head"
    /\ Goto(t, IF My(t).head < loc[t].t THEN "e_cas" ELSE "e_full")
    /\ UNCHANGED <<shared, loc>>

EnqFill(t) ==
    /\ pc[t] = "e_cas"
    /\ \E ok \in CasOutcomes(MyCell(t), loc[t].cell) :
        IF ok THEN /\ SetCell(t, Cell(Current(t).val, loc[t].t, FALSE))
                   /\ Finish(t, Ok)
        ELSE Goto(t, "e_full") /\ UNCHANGED <<ring, loc>>
    /\ UNCHANGED <<first, last, used>>

EnqTestFull(t) ==
    /\ pc[t] = "e_full"
    /\ IF RingFull(loc[t].t, My(t).head) THEN Goto(t, "e_close")
       ELSE Retry(t, "e_last")
    /\ UNCHANGED <<shared, loc>>

\* close_crq; its tenth try, which sets the bit unconditionally, is beyond
\* MAX_ITER.
EnqClose(t) ==
    /\ pc[t] = "e_close"
    /\ \E ok \in CasOutcomes(TailWord(My(t)), [tail |-> loc[t].t + 1, closed |-> FALSE]) :
        IF ok THEN /\ ring' = [ring EXCEPT ![loc[t].rq].closed = TRUE]
                   /\ Goto(t, "e_link")
        ELSE Retry(t, "e_last") /\ UNCHANGED ring
    /\ UNCHANGED <<first, last, used, loc>>

EnqLink(t) ==
    /\ pc[t] = "e_link"
    /\ used < MaxRings
    /\ \E ok \in CasOutcomes(My(t).next, NoRing) :
        IF ok THEN /\ used' = used + 1
                   /\ ring' = [ring EXCEPT ![loc[t].rq].next = used',
                                          ![used'] = SoloRing(Current(t).val)]
                   /\ SetLocal(t, [loc[t] EXCEPT !.next = used'])
                   /\ Goto(t, "e_swing")
        ELSE Retry(t, "e_last") /\ UNCHANGED <<used, ring, loc>>
    /\ UNCHANGED <<first, last>>

EnqSwing(t) ==
    /\ pc[t] = "e_swing"
    /\ \E ok \in CasOutcomes(last, loc[t].rq) : last' = IF ok THEN loc[t].next ELSE last
    /\ Finish(t, Ok)
    /\ UNCHANGED <<first, ring, used>>

-----------------------------------------------------------------------------
DeqCall(t) == Invoke(t, "deq", "d_first") /\ UNCHANGED <<shared, loc>>

DeqLoadFirst(t) ==
    /\ pc[t] = "d_first"
    /\ SetLocal(t, [NoLocals EXCEPT !.rq = first])
    /\ Goto(t, "d_faa")
    /\ UNCHANGED shared

\* t goes on to label with the next place.
TakePlace(t, label) ==
    /\ pc[t] = "d_faa"
    /\ SetLocal(t, [loc[t] EXCEPT !.t = My(t).head])
    /\ ring' = [ring EXCEPT ![loc[t].rq].head = @ + 1]
    /\ Goto(t, label)
    /\ UNCHANGED <<first, last, used>>

DeqTakePlace(t) == TakePlace(t, "d_cell")

DeqLoadCell(t) ==
    /\ pc[t] = "d_cell"
    /\ SetLocal(t, [loc[t] EXCEPT !.cell = MyCell(t)])
    /\ Goto(t, CASE MyCell(t).idx > loc[t].t -> "d_tail"
                 [] MyCell(t).idx <= loc[t].t /\ MyCell(t).val = Null -> "d_skip"
                 [] MyCell(t).idx = loc[t].t /\ MyCell(t).val # Null -> "d_take"
                 [] MyCell(t).idx < loc[t].t /\ MyCell(t).val # Null -> "d_mark")
    /\ UNCHANGED shared

\* The inner loop has an assume of its own, which allows one turn.
InnerRetry(t) == Goto(t, IF MaxIter = 0 THEN "d_cell" ELSE "blocked")

\* Place t is filled: take its value and leave the cell for the next lap.
DeqTake(t) ==
    /\ pc[t] = "d_take"
    /\ \E ok \in CasOutcomes(MyCell(t), loc[t].cell) :
        IF ok THEN /\ SetCell(t, Cell(Null, NextLap(loc[t].t), Keep(loc[t].cell.unsafe)))
                   /\ Finish(t, loc[t].cell.val)
        ELSE InnerRetry(t) /\ UNCHANGED <<ring, loc>>
    /\ UNCHANGED <<first, last, used>>

\* An older item is in the way: enqueues into the cell are unsafe from now.
DeqMarkUnsafe(t) ==
    /\ pc[t] = "d_mark"
    /\ \E ok \in CasOutcomes(MyCell(t), loc[t].cell) :
        IF ok THEN /\ SetCell(t, [loc[t].cell EXCEPT !.unsafe = TRUE])
                   /\ Goto(t, "d_tail")
        ELSE InnerRetry(t) /\ UNCHANGED ring
    /\ UNCHANGED <<first, last, used, loc>>

\* Place t is still empty: push the cell one lap on, so its enqueuer fails.
DeqSkip(t) ==
    /\ pc[t] = "d_skip"
    /\ \E ok \in CasOutcomes(MyCell(t), loc[t].cell) :
        IF ok THEN /\ SetCell(t, Cell(Null, NextLap(loc[t].t), Keep(loc[t].cell.unsafe)))
                   /\ Goto(t, "d_tail")
        ELSE InnerRetry(t) /\ UNCHANGED ring
    /\ UNCHANGED <<first, last, used, loc>>

DeqLoadTail(t) ==
    /\ pc[t] = "d_tail"
    /\ IF NothingAfter(My(t), loc[t].t) THEN Goto(t, "f_tail") ELSE Retry(t, "d_first")
    /\ UNCHANGED <<shared, loc>>

-----------------------------------------------------------------------------
\* fixState: a tail that head has run past is moved up to head.
FixLoadTail(t) ==
    /\ pc[t] = "f_tail"
    /\ SetLocal(t, [loc[t] EXCEPT !.ft = TailWord(My(t))])
    /\ Goto(t, "f_head")
    /\ UNCHANGED shared

FixLoadHead(t) ==
    /\ pc[t] = "f_head"
    /\ SetLocal(t, [loc[t] EXCEPT !.fh = My(t).head])
    /\ Goto(t, "f_check")
    /\ UNCHANGED shared

\* fixState counts its own turns.
FixRetry(t) ==
    /\ IF MaxIter = 0 THEN UNCHANGED loc
       ELSE SetLocal(t, [loc[t] EXCEPT !.fixes = @ + 1])
    /\ Goto(t, IF MaxIter = 0 \/ loc[t].fixes + 2 < MaxIter THEN "f_tail" ELSE "blocked")

FixCheck(t) ==
    /\ pc[t] = "f_check"
    /\ IF TailWord(My(t)) # loc[t].ft THEN FixRetry(t)
       ELSE /\ Goto(t, IF TailBehind(loc[t].ft, loc[t].fh) THEN "f_cas" ELSE "d_next")
            /\ UNCHANGED loc
    /\ UNCHANGED shared

FixMoveTail(t) ==
    /\ pc[t] = "f_cas"
    /\ \E ok \in CasOutcomes(TailWord(My(t)), loc[t].ft) :
        IF ok THEN /\ ring' = [ring EXCEPT ![loc[t].rq].tail = loc[t].fh,
                                           ![loc[t].rq].closed = FALSE]
                   /\ Goto(t, "d_next") /\ UNCHANGED loc
        ELSE FixRetry(t) /\ UNCHANGED ring
    /\ UNCHANGED <<first, last, used>>

-----------------------------------------------------------------------------
\* t goes on to label if there is a next ring.
LoadNext(t, label) ==
    /\ pc[t] = "d_next"
    /\ IF My(t).next = NoRing THEN Finish(t, Empty)
       ELSE SetLocal(t, [loc[t] EXCEPT !.next = My(t).next]) /\ Goto(t, label)
    /\ UNCHANGED shared

DeqLoadNext(t) == LoadNext(t, "d_tail2")

DeqRecheckTail(t) ==
    /\ pc[t] = "d_tail2"
    /\ IF NothingAfter(My(t), loc[t].t) THEN Goto(t, "d_move") ELSE Retry(t, "d_first")
    /\ UNCHANGED <<shared, loc>>

DeqMoveFirst(t) ==
    /\ pc[t] = "d_move"
    /\ \E ok \in CasOutcomes(first, loc[t].rq) : first' = IF ok THEN loc[t].next ELSE first
    /\ Retry(t, "d_first")
    /\ UNCHANGED <<last, ring, used, loc>>

-----------------------------------------------------------------------------
EnqStep(t) ==
    \/ EnqCall(t) \/ EnqLoadLast(t) \/ EnqLoadNext(t) \/ EnqHelp(t)
    \/ EnqTakePlace(t) \/ EnqLoadIndex(t) \/ EnqLoadValue(t) \/ EnqLoadHead(t)
    \/ EnqFill(t) \/ EnqTestFull(t) \/ EnqClose(t) \/ EnqLink(t) \/ EnqSwing(t)

DeqStep(t) ==
    \/ DeqCall(t) \/ DeqLoadFirst(t) \/ DeqTakePlace(t) \/ DeqLoadCell(t)
    \/ DeqTake(t) \/ DeqMarkUnsafe(t) \/ DeqSkip(t) \/ DeqLoadTail(t)
    \/ DeqLoadNext(t) \/ DeqRecheckTail(t) \/ DeqMoveFirst(t)

FixStep(t) == FixLoadTail(t) \/ FixLoadHead(t) \/ FixCheck(t) \/ FixMoveTail(t)

Step(t) == EnqStep(t) \/ DeqStep(t) \/ FixStep(t)

Terminating == Quiescent /\ UNCHANGED vars

Next == (\E t \in Threads : Step(t)) \/ Terminating

Spec == Init /\ [][Next]_vars

-----------------------------------------------------------------------------
CellType == [val : Payloads, idx : Nat, unsafe : BOOLEAN]
RingType == [head : Nat, tail : Nat, closed : BOOLEAN, next : Rings \cup {NoRing},
             array : [Places -> CellType]]

\* The program's variables stay in their types.
TypeOK ==
    /\ ClientTypeOK(Labels)
    /\ first \in Rings /\ last \in Rings /\ used \in Rings
    /\ ring \in [Rings -> RingType]
    /\ \A t \in Threads : loc[t].rq \in Rings \cup {NoRing} /\ loc[t].cell \in CellType

\* The rings form one chain in the order in which they were appended: every
\* ring but the last is closed and points to the next, last lags the end by
\* at most one ring, and no dequeuer leaves a ring that is still open.
ChainOfRings ==
    /\ \A r \in 1 .. used : ring[r].next = IF r < used THEN r + 1 ELSE NoRing
    /\ \A r \in 1 .. used - 1 : ring[r].closed
    /\ last \in {used, used - 1} /\ first \in 1 .. used

\* A cell only serves places of its own residue, in the order of its laps:
\* an item in a cell has the index of the place it was enqueued for.
CellsServeTheirPlaces ==
    \A r \in 1 .. used, s \in Places : ring[r].array[s].idx % RingSize = s

\* The rings are chained, and each hands out its places in order.
RingsInv == TypeOK /\ ChainOfRings /\ CellsServeTheirPlaces

\* An item at a place that head has passed, or in a ring that first has left,
\* is lost unless the dequeuer that took its place is still on its way to it.
Claimed(r, i) ==
    \E t \in Threads : /\ InCall(t) /\ Current(t).kind = "deq"
                      /\ loc[t].rq = r /\ loc[t].t = i
                      /\ pc[t] \in {"d_cell", "d_take", "d_mark", "d_skip", "blocked"}

NoItemLeftBehind ==
    \A r \in 1 .. used, s \in Places :
        /\ ring[r].array[s].val # Null
        /\ r < first \/ ring[r].array[s].idx < ring[r].head
        => Claimed(r, ring[r].array[s].idx)
=============================================================================
