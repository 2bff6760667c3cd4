------------------------------ MODULE UniQueue ------------------------------
(***************************************************************************)
(* wrappers/uniq-wrapper.h: a ring with a flag per slot.  A caller claims  *)
(* a ticket by a compare-and-swap on in or out; an enqueuer raises the     *)
(* flag of its slot when its item is there, a dequeuer claims only a slot  *)
(* whose flag is up and lowers it when it has read the item.  An enqueue   *)
(* into a full ring returns without having added its item.                 *)
(*                                                                         *)
(* The enqueuer does not look at the flag of its slot: out has moved past  *)
(* the slot when its dequeuer has claimed it, which is before it has read  *)
(* it.  The algorithm is sound only until the ring wraps.                  *)
(***************************************************************************)
EXTENDS Clients, Rings

CONSTANT WeakExchange   \* TRUE: compare_exchange_weak may fail spuriously

VARIABLES
    in, out,   \* the next ticket to enqueue, to dequeue
    isUsed,    \* isUsed[s]: slot s holds an item
    buffer,    \* buffer[s]: its item
    local      \* local[t]: the locals in and out, and *retVal, of t

uniShared == <<in, out, isUsed, buffer>>
uniVars == <<ip, pc, cnt, ret, in, out, isUsed, buffer, local>>

mask == Size - 1

UniEnqLabels == {"e_in", "e_out", "e_cas", "e_val", "e_flag"}
UniDeqLabels == {"d_out", "d_in", "d_used", "d_cas", "d_val", "d_flag"}
UniLabels == UniEnqLabels \cup UniDeqLabels

NoLocal == [in |-> 0, out |-> 0, val |-> Null]

UniInit ==
    /\ ClientInit
    /\ in = 0
    /\ out = 0
    /\ isUsed = [s \in Slots |-> FALSE]
    /\ buffer = [s \in Slots |-> Null]
    /\ local = [t \in Threads |-> NoLocal]

-----------------------------------------------------------------------------
\* Slips the runs must notice: a dequeuer that does not look at the flag, a
\* full test off by one.
FlagUpBug(t) == TRUE
FullBug(i, o) == i - o >= mask

FlagUp(t) == isUsed[Slot(local[t].out)]
Full(i, o) == i - o > mask
FlagAfterRead == FALSE
NextTicket(p) == p + 1

UniEnqCall(t) == Invoke(t, "enq", "e_in") /\ UNCHANGED <<uniShared, local>>

EnqLoadIn(t) ==
    /\ pc[t] = "e_in"
    /\ local' = [local EXCEPT ![t].in = in]
    /\ Goto(t, "e_out")
    /\ UNCHANGED uniShared

EnqLoadOut(t) ==
    /\ pc[t] = "e_out"
    /\ IF Full(local[t].in, out) THEN Return(t, Ok) ELSE Goto(t, "e_cas")
    /\ UNCHANGED <<uniShared, local>>

EnqClaim(t) ==
    /\ pc[t] = "e_cas"
    /\ \/ /\ in = local[t].in
          /\ in' = NextTicket(in)
          /\ Goto(t, "e_val")
       \/ /\ in # local[t].in \/ WeakExchange
          /\ Retry(t, "e_in")
          /\ UNCHANGED in
    /\ UNCHANGED <<out, isUsed, buffer, local>>

EnqWriteValue(t) ==
    /\ pc[t] = "e_val"
    /\ buffer' = [buffer EXCEPT ![Slot(local[t].in)] = Current(t).val]
    /\ Goto(t, "e_flag")
    /\ UNCHANGED <<in, out, isUsed, local>>

EnqRaiseFlag(t) ==
    /\ pc[t] = "e_flag"
    /\ isUsed' = [isUsed EXCEPT ![Slot(local[t].in)] = TRUE]
    /\ Return(t, Ok)
    /\ UNCHANGED <<in, out, buffer, local>>

UniDeqCall(t) == Invoke(t, "deq", "d_out") /\ UNCHANGED <<uniShared, local>>

DeqLoadOut(t) ==
    /\ pc[t] = "d_out"
    /\ local' = [local EXCEPT ![t].out = out]
    /\ Goto(t, "d_in")
    /\ UNCHANGED uniShared

DeqLoadIn(t) ==
    /\ pc[t] = "d_in"
    /\ IF local[t].out = in THEN Return(t, Empty) ELSE Goto(t, "d_used")
    /\ UNCHANGED <<uniShared, local>>

DeqLoadUsed(t) ==
    /\ pc[t] = "d_used"
    /\ IF FlagUp(t) THEN Goto(t, "d_cas") ELSE Retry(t, "d_out")
    /\ UNCHANGED <<uniShared, local>>

DeqClaim(t) ==
    /\ pc[t] = "d_cas"
    /\ \/ /\ out = local[t].out
          /\ out' = NextTicket(out)
          /\ Goto(t, "d_val")
       \/ /\ out # local[t].out \/ WeakExchange
          /\ Retry(t, "d_out")
          /\ UNCHANGED out
    /\ UNCHANGED <<in, isUsed, buffer, local>>

DeqReadValue(t) ==
    /\ pc[t] = "d_val"
    /\ local' = [local EXCEPT ![t].val = buffer[Slot(local[t].out)]]
    /\ Goto(t, "d_flag")
    /\ UNCHANGED uniShared

DeqLowerFlag(t) ==
    /\ pc[t] = "d_flag"
    /\ isUsed' = [isUsed EXCEPT ![Slot(local[t].out)] = FlagAfterRead]
    /\ Return(t, local[t].val)
    /\ UNCHANGED <<in, out, buffer, local>>

-----------------------------------------------------------------------------
UniStep(t) ==
    \/ UniEnqCall(t) \/ EnqLoadIn(t) \/ EnqLoadOut(t) \/ EnqClaim(t)
    \/ EnqWriteValue(t) \/ EnqRaiseFlag(t)
    \/ UniDeqCall(t) \/ DeqLoadOut(t) \/ DeqLoadIn(t) \/ DeqLoadUsed(t)
    \/ DeqClaim(t) \/ DeqReadValue(t) \/ DeqLowerFlag(t)

UniDone == Quiescent /\ UNCHANGED uniVars

UniNext == (\E t \in Threads : UniStep(t)) \/ UniDone

UniSpec == UniInit /\ [][UniNext]_uniVars

-----------------------------------------------------------------------------
\* The program's variables stay in their types.
UniTypeOK ==
    /\ ClientTypeOK(UniLabels)
    /\ in \in Nat /\ out \in Nat
    /\ isUsed \in [Slots -> BOOLEAN]
    /\ buffer \in [Slots -> Payloads]
    /\ local \in [Threads -> [in : Nat, out : Nat, val : Payloads]]

\* A thread that has claimed a slot and not yet written its flag.
EnqOwns(t) == pc[t] \in {"e_val", "e_flag"}
DeqOwns(t) == pc[t] \in {"d_val", "d_flag"}
OwnSlot(t) == IF EnqOwns(t) THEN Slot(local[t].in) ELSE Slot(local[t].out)

\* The payload is a plain field: no thread may claim a slot before the one
\* that has it is done.  Does not hold once the ring has wrapped.
SlotExclusive ==
    \A t, u \in Threads :
        t # u /\ (EnqOwns(t) \/ DeqOwns(t)) /\ (EnqOwns(u) \/ DeqOwns(u)) =>
            OwnSlot(t) # OwnSlot(u)

\* Until the ring wraps it does.
Wrapped == in > Size
SlotExclusiveAtFirst == ~Wrapped => SlotExclusive

\* Once every call has returned, the flags that are up are those of the items
\* between out and in: no flag was lost, none was left behind.
FlagsMatchTickets ==
    (\A t \in Threads : ~InCall(t)) /\ ~Wrapped =>
        /\ out <= in /\ in <= out + Size
        /\ \A s \in Slots : isUsed[s] = (\E p \in out .. in - 1 : Slot(p) = s)

-----------------------------------------------------------------------------
\* Why: until the ring wraps a ticket is the number of its slot, an enqueuer
\* has the tickets between out and in that it has not raised the flag of, a
\* dequeuer those below out that it has not lowered the flag of, and the flag a
\* dequeuer has seen stays up until out moves.
OwnersHoldTickets ==
    \A t \in Threads :
        /\ EnqOwns(t) => out <= local[t].in /\ local[t].in < in
        /\ DeqOwns(t) => local[t].out < out

TicketsDistinct ==
    \A t, u \in Threads :
        t # u => /\ EnqOwns(t) /\ EnqOwns(u) => local[t].in # local[u].in
                 /\ DeqOwns(t) /\ DeqOwns(u) => local[t].out # local[u].out

FlagsTell ==
    \A s \in Slots :
        isUsed[s] = /\ s < in
                    /\ \A t \in Threads : EnqOwns(t) => local[t].in # s
                    /\ out <= s \/ \E t \in Threads : DeqOwns(t) /\ local[t].out = s

CheckedTickets ==
    \A t \in Threads :
        /\ pc[t] \in {"d_in", "d_used", "d_cas"} => local[t].out <= out
        /\ pc[t] \in {"d_used", "d_cas"} => local[t].out < in
        /\ pc[t] = "d_cas" /\ local[t].out = out => isUsed[out]

FirstLap ==
    out <= in /\ OwnersHoldTickets /\ TicketsDistinct /\ FlagsTell /\ CheckedTickets

\* An enqueuer compares an in that may be out of date, never one from ahead.
InSeen == \A t \in Threads : pc[t] \in {"e_out", "e_cas"} => local[t].in <= in

\* A thread is where a call of its kind can be.
UniInOwnCall == InCallOf(UniEnqLabels, UniDeqLabels)

TicketInv == UniInOwnCall /\ InSeen /\ (~Wrapped => FirstLap)

\* Until the ring wraps a slot has one user at a time, and the flags tell
\* which slots hold items.
RingInv == UniTypeOK /\ TicketInv /\ SlotExclusiveAtFirst /\ FlagsMatchTickets

-----------------------------------------------------------------------------
\* The item of ticket p: still with its enqueuer, or in its slot.
Unwritten(t, p) == pc[t] = "e_val" /\ local[t].in = p
ItemOf(p) ==
    IF \E t \in Threads : Unwritten(t, p)
    THEN Current(CHOOSE t \in Threads : Unwritten(t, p)).val
    ELSE buffer[Slot(p)]

\* A call takes effect at its CAS on in or out, a dequeue that returns false
\* when it loads an in equal to the out it has loaded, an enqueue that drops
\* its item when it loads the out it finds too far behind.
Stage == [t \in Threads |-> IF EnqOwns(t) \/ DeqOwns(t) THEN "done"
                            ELSE IF InCall(t) THEN "called" ELSE "idle"]
Res   == [t \in Threads |-> CASE EnqOwns(t)       -> Ok
                              [] pc[t] = "d_val"  -> buffer[Slot(local[t].out)]
                              [] pc[t] = "d_flag" -> local[t].val
                              [] OTHER            -> ret[t]]
Queue == [i \in 1 .. in - out |-> ItemOf(out + i - 1)]

Abs == INSTANCE AtomicQueue WITH
    Lax <- {"enqMayDrop"}, stage <- Stage, res <- Res, queue <- Queue

\* Until the ring wraps, every step is one of a FIFO queue whose enqueue may
\* drop its item.
ImplementsQueueAtFirst ==
    Abs!Init /\ [][~Wrapped' => Abs!Next \/ UNCHANGED Abs!vars]_uniVars

\* It drops an item only when the ring is full at that moment, although the
\* in it compares may be long out of date.
DropsOnlyWhenFull ==
    [][\A t \in Threads :
        pc[t] = "e_out" /\ pc'[t] = "idle" => in - out >= Size]_uniVars
=============================================================================
