---------------------------- MODULE ChaseLevQueue ----------------------------
(***************************************************************************)
(* wrappers/chase-lev-wrapper.h: the Chase and Lev work-stealing deque,    *)
(* used as a queue: q_enqueue pushes at the bottom, q_dequeue steals at    *)
(* the top.  Only the owner of a deque may push; thieves may be many.  A   *)
(* thief that loses the compare-and-swap on top returns false, and a push  *)
(* into a full buffer fails an assertion.                                  *)
(***************************************************************************)
EXTENDS Clients, Rings

VARIABLES
    bottom, top,   \* the next place to push, to steal
    buffer,        \* buffer[s]: the item of slot s
    loc            \* loc[t]: the local b of a push, t and *data of a steal

shared == <<bottom, top, buffer>>
vars == <<ip, pc, cnt, ret, bottom, top, buffer, loc>>

PushLabels == {"e_bottom", "e_top", "e_store", "e_publish"}
StealLabels == {"d_top", "d_bottom", "d_load", "d_cas"}
Labels == PushLabels \cup StealLabels

NoLocals == [bottom |-> 0, top |-> 0, data |-> Null]

\* A global queue_t starts out as zeros; q_init_queue is empty.
Init ==
    /\ ClientInit
    /\ bottom = 0
    /\ top = 0
    /\ buffer = [s \in Slots |-> Null]
    /\ loc = [t \in Threads |-> NoLocals]

-----------------------------------------------------------------------------
\* Slips the runs must notice: a buffer overfilled by one, a thief that takes
\* what it read although top has moved.
FullBug(b, t) == b - t > Size
TopUnchangedBug(t) == TRUE

Full(b, t) == b - t >= Size
TopUnchanged(t) == top = loc[t].top
AfterSteal(p) == p + 1

PushCall(t) == Invoke(t, "enq", "e_bottom") /\ UNCHANGED <<shared, loc>>

PushLoadBottom(t) ==
    /\ pc[t] = "e_bottom"
    /\ loc' = [loc EXCEPT ![t].bottom = bottom]
    /\ Goto(t, "e_top")
    /\ UNCHANGED shared

PushLoadTop(t) ==
    /\ pc[t] = "e_top"
    /\ IF Full(loc[t].bottom, top) THEN Goto(t, "assert") ELSE Goto(t, "e_store")
    /\ UNCHANGED <<shared, loc>>

PushStore(t) ==
    /\ pc[t] = "e_store"
    /\ buffer' = [buffer EXCEPT ![Slot(loc[t].bottom)] = Current(t).val]
    /\ Goto(t, "e_publish")
    /\ UNCHANGED <<bottom, top, loc>>

PushPublish(t) ==
    /\ pc[t] = "e_publish"
    /\ bottom' = loc[t].bottom + 1
    /\ Return(t, Ok)
    /\ UNCHANGED <<top, buffer, loc>>

StealCall(t) == Invoke(t, "deq", "d_top") /\ UNCHANGED <<shared, loc>>

StealLoadTop(t) ==
    /\ pc[t] = "d_top"
    /\ loc' = [loc EXCEPT ![t].top = top]
    /\ Goto(t, "d_bottom")
    /\ UNCHANGED shared

StealLoadBottom(t) ==
    /\ pc[t] = "d_bottom"
    /\ IF bottom <= loc[t].top THEN Return(t, Empty) ELSE Goto(t, "d_load")
    /\ UNCHANGED <<shared, loc>>

StealLoadItem(t) ==
    /\ pc[t] = "d_load"
    /\ loc' = [loc EXCEPT ![t].data = buffer[Slot(loc[t].top)]]
    /\ Goto(t, "d_cas")
    /\ UNCHANGED shared

StealAdvance(t) ==
    /\ pc[t] = "d_cas"
    /\ IF TopUnchanged(t)
       THEN top' = AfterSteal(loc[t].top) /\ Return(t, loc[t].data)
       ELSE UNCHANGED top /\ Return(t, Empty)
    /\ UNCHANGED <<bottom, buffer, loc>>

-----------------------------------------------------------------------------
Step(t) ==
    \/ PushCall(t) \/ PushLoadBottom(t) \/ PushLoadTop(t) \/ PushStore(t)
    \/ PushPublish(t)
    \/ StealCall(t) \/ StealLoadTop(t) \/ StealLoadBottom(t) \/ StealLoadItem(t)
    \/ StealAdvance(t)

Terminating == Quiescent /\ UNCHANGED vars

Next == (\E t \in Threads : Step(t)) \/ Terminating

Spec == Init /\ [][Next]_vars

-----------------------------------------------------------------------------
\* The program's variables stay in their types.
TypeOK ==
    /\ ClientTypeOK(Labels)
    /\ bottom \in Nat /\ top \in Nat
    /\ buffer \in [Slots -> Payloads]
    /\ loc \in [Threads -> [bottom : Nat, top : Nat, data : Payloads]]

\* The places stolen, the places pushed and the size of the buffer keep their
\* order.
BufferNotOverrun == top <= bottom /\ bottom <= top + Size

\* The owner's copy of bottom is bottom, and it pushes into a free place.
OwnerInPlace ==
    \A t \in Threads :
        /\ pc[t] \in {"e_top", "e_store", "e_publish"} => loc[t].bottom = bottom
        /\ pc[t] \in {"e_store", "e_publish"} => bottom < top + Size

\* Nobody overwrites the item of the owner before it is published.
ItemInPlace ==
    \A t \in Threads : pc[t] = "e_publish" => buffer[Slot(bottom)] = Current(t).val

\* What a thief has read of top and bottom is at most out of date, and its item
\* is still the one at top if top has not moved.
ThievesUpToDate ==
    \A t \in Threads :
        /\ pc[t] \in {"d_bottom", "d_load", "d_cas"} => loc[t].top <= top
        /\ pc[t] \in {"d_load", "d_cas"} => loc[t].top < bottom
        /\ pc[t] = "d_cas" /\ loc[t].top = top => loc[t].data = buffer[Slot(top)]

\* A thread is where a call of its kind can be.
InOwnCall == InCallOf(PushLabels, StealLabels)

\* The deque never holds more than its buffer, nor less than nothing: a push
\* too many ends in the assertion of q_enqueue and overwrites nothing.  With
\* one owner no step of any thread leads out of it.
DequeInv ==
    /\ TypeOK
    /\ InOwnCall
    /\ BufferNotOverrun
    /\ OwnerInPlace
    /\ ItemInPlace
    /\ ThievesUpToDate

\* What the algorithm asks of its users: one thread does all the pushes.
OneOwner ==
    \A t, u \in Threads :
        (\E i \in DOMAIN Script[t] : Script[t][i].kind = "enq")
        /\ (\E i \in DOMAIN Script[u] : Script[u][i].kind = "enq") => t = u

\* A push takes effect when it stores bottom, a steal at its compare-and-swap,
\* and one that finds the deque empty when it loads bottom.  The contract is
\* that of a queue whose dequeue may return false.
Stage == [t \in Threads |-> IF InCall(t) THEN "called" ELSE "idle"]
Queue == [i \in 1 .. bottom - top |-> buffer[Slot(top + i - 1)]]

Abs == INSTANCE AtomicQueue WITH
    Lax   <- {"deqMayFail"},
    stage <- Stage,
    res   <- ret,
    queue <- Queue

\* With one owner every execution is one of such a queue: an item is stolen
\* once, in the order of the pushes, and what a winning thief returns is what
\* it read although its slot may have been pushed to again.
ImplementsAtomicQueue == Abs!Spec
=============================================================================
