----------------------------- MODULE RingProofs -----------------------------
(***************************************************************************)
(* The two queues that are a ring used until it is full: UniQ has one, for *)
(* LCRQ a full ring is closed and a new one linked to it.                  *)
(*                                                                         *)
(* The UniQ ring until it wraps, for every size, every set of threads and  *)
(* every script: a slot has one user at a time, the flags tell which slots *)
(* hold items, the ring is a FIFO queue whose enqueue may drop its item,   *)
(* and it drops one only when the ring is full.                            *)
(*                                                                         *)
(* LCRQ: the rings are one chain whose cells serve their places in order,  *)
(* and no item is left behind, in a ring or between two.  A dequeuer       *)
(* passes a place when it goes on without the item of the place.  The      *)
(* argument is that the cell of a place that has been passed is dead for   *)
(* it: the cell serves a later place, or is marked unsafe, and an enqueuer *)
(* that may fill an unsafe cell has seen a head that had not reached its   *)
(* place.  And when first leaves a ring the ring is drained: it is closed, *)
(* and head has gone beyond all its items and beyond all places whose      *)
(* enqueuers may still fill them.                                          *)
(***************************************************************************)
EXTENDS UniQueue, LCRQueue, QueueLemmas

-----------------------------------------------------------------------------
\* The UniQ ring.

\* The index computed from a ticket is inside the array.
LEMMA SlotBound == \A p \in Nat : Slot(p) \in Slots
  BY SizeAssumption, SMT DEF Slot, Slots

\* On the first lap a ticket is its own index.
LEMMA SlotAtFirst == \A p \in Nat : p < Size => Slot(p) = p
  BY SizeAssumption, SMT DEF Slot

\* A freshly initialised ring has its types.
LEMMA TypeInit == UniInit => UniTypeOK
<1> SUFFICES ASSUME UniInit PROVE UniTypeOK
  OBVIOUS
<1>1. ClientTypeOK(UniLabels)
  BY InitType DEF UniInit
<1>2. in \in Nat /\ out \in Nat /\ isUsed \in [Slots -> BOOLEAN]
  BY SMT DEF UniInit
<1>3. buffer \in [Slots -> Payloads] /\ local \in [Threads -> [in : Nat, out : Nat, val : Payloads]]
  BY SMT DEF UniInit, Payloads, NoLocal
<1> QED BY <1>1, <1>2, <1>3 DEF UniTypeOK

\* Every step of enqueue and dequeue keeps the types.
LEMMA TypeStep ==
    ASSUME UniTypeOK, NEW t \in Threads, UniStep(t)
    PROVE  UniTypeOK'
<1> USE DEF UniTypeOK
<1>0. /\ ClientTypeOK(UniLabels)
      /\ local[t].in \in Nat /\ local[t].out \in Nat /\ local[t].val \in Payloads
      /\ Slot(local[t].in) \in Slots /\ Slot(local[t].out) \in Slots
      /\ Payloads \subseteq Results
      /\ Ok \in Results /\ Empty \in Results
  BY SlotBound, SMT DEF Results
<1>l. /\ {"e_in", "e_out", "e_cas", "e_val", "e_flag"} \subseteq UniLabels
      /\ {"d_out", "d_in", "d_used", "d_cas", "d_val", "d_flag"} \subseteq UniLabels
  BY Zenon DEF UniLabels, UniEnqLabels, UniDeqLabels
<1>1. CASE UniEnqCall(t)
  <2>1. ClientTypeOK(UniLabels)'
    BY <1>1, <1>0, <1>l, InvokeType DEF UniEnqCall
  <2> QED BY <2>1, <1>1 DEF UniEnqCall, uniShared
<1>2. CASE EnqLoadIn(t)
  <2>1. ClientTypeOK(UniLabels)'
    BY <1>2, <1>0, <1>l, GotoType DEF EnqLoadIn, InCall
  <2> QED BY <2>1, <1>2 DEF EnqLoadIn, uniShared
<1>3. CASE EnqLoadOut(t)
  <2>1. ClientTypeOK(UniLabels)'
    BY <1>3, <1>0, <1>l, GotoType, ReturnType DEF EnqLoadOut, InCall
  <2> QED BY <2>1, <1>3 DEF EnqLoadOut, uniShared
<1>4. CASE EnqClaim(t)
  <2>1. ClientTypeOK(UniLabels)'
    BY <1>4, <1>0, <1>l, GotoType, RetryType DEF EnqClaim, InCall
  <2>2. in' \in Nat
    BY <1>4, SMT DEF EnqClaim, NextTicket
  <2> QED BY <2>1, <2>2, <1>4 DEF EnqClaim
<1>5. CASE EnqWriteValue(t)
  <2>1. ClientTypeOK(UniLabels)'
    BY <1>5, <1>0, <1>l, GotoType DEF EnqWriteValue, InCall
  <2>2. Current(t).val \in Payloads
    BY <1>5, <1>0, CurrentIsCall DEF EnqWriteValue, InCall, Calls
  <2> QED BY <2>1, <2>2, <1>0, <1>5 DEF EnqWriteValue
<1>6. CASE EnqRaiseFlag(t)
  <2>1. ClientTypeOK(UniLabels)'
    BY <1>6, <1>0, ReturnType DEF EnqRaiseFlag
  <2> QED BY <2>1, <1>0, <1>6 DEF EnqRaiseFlag
<1>7. CASE UniDeqCall(t)
  <2>1. ClientTypeOK(UniLabels)'
    BY <1>7, <1>0, <1>l, InvokeType DEF UniDeqCall
  <2> QED BY <2>1, <1>7 DEF UniDeqCall, uniShared
<1>8. CASE DeqLoadOut(t)
  <2>1. ClientTypeOK(UniLabels)'
    BY <1>8, <1>0, <1>l, GotoType DEF DeqLoadOut, InCall
  <2> QED BY <2>1, <1>8 DEF DeqLoadOut, uniShared
<1>9. CASE DeqLoadIn(t)
  <2>1. ClientTypeOK(UniLabels)'
    BY <1>9, <1>0, <1>l, GotoType, ReturnType DEF DeqLoadIn, InCall
  <2> QED BY <2>1, <1>9 DEF DeqLoadIn, uniShared
<1>10. CASE DeqLoadUsed(t)
  <2>1. ClientTypeOK(UniLabels)'
    BY <1>10, <1>0, <1>l, GotoType, RetryType DEF DeqLoadUsed, InCall
  <2> QED BY <2>1, <1>10 DEF DeqLoadUsed, uniShared
<1>11. CASE DeqClaim(t)
  <2>1. ClientTypeOK(UniLabels)'
    BY <1>11, <1>0, <1>l, GotoType, RetryType DEF DeqClaim, InCall
  <2>2. out' \in Nat
    BY <1>11, SMT DEF DeqClaim, NextTicket
  <2> QED BY <2>1, <2>2, <1>11 DEF DeqClaim
<1>12. CASE DeqReadValue(t)
  <2>1. ClientTypeOK(UniLabels)'
    BY <1>12, <1>0, <1>l, GotoType DEF DeqReadValue, InCall
  <2> QED BY <2>1, <1>0, <1>12 DEF DeqReadValue, uniShared
<1>13. CASE DeqLowerFlag(t)
  <2>1. ClientTypeOK(UniLabels)'
    BY <1>13, <1>0, ReturnType DEF DeqLowerFlag
  <2> QED BY <2>1, <1>0, <1>13 DEF DeqLowerFlag, FlagAfterRead
<1> QED BY <1>1, <1>2, <1>3, <1>4, <1>5, <1>6, <1>7, <1>8, <1>9, <1>10,
           <1>11, <1>12, <1>13 DEF UniStep

-----------------------------------------------------------------------------
\* The part of TypeOK the proofs about tickets need.
LEMMA PcType == UniTypeOK => /\ pc \in [Threads -> UniLabels \cup {"idle", "blocked", "assert"}]
                          /\ local \in [Threads -> [in : Nat, out : Nat, val : Payloads]]
                          /\ isUsed \in [Slots -> BOOLEAN]
                          /\ in \in Nat
                          /\ out \in Nat
  BY DEF UniTypeOK, ClientTypeOK

\* No thread is in a call to begin with.
LEMMA CallInit == UniInit => UniInOwnCall
  BY SMT DEF UniInit, ClientInit, UniInOwnCall, InCallOf, UniEnqLabels, UniDeqLabels

\* No step leaves a thread at an access of a call it has not made.
LEMMA CallStep ==
    ASSUME UniTypeOK, UniInOwnCall, NEW t \in Threads, UniStep(t)
    PROVE  UniInOwnCall'
<1>1. CASE UniEnqCall(t)
  <2>1. "e_in" \notin UniDeqLabels
    BY SMT DEF UniDeqLabels
  <2> QED BY <1>1, <2>1, CallBegins, Zenon DEF UniEnqCall, UniInOwnCall, UniTypeOK
<1>2. CASE UniDeqCall(t)
  <2>1. "d_out" \notin UniEnqLabels
    BY SMT DEF UniEnqLabels
  <2> QED BY <1>2, <2>1, CallBegins, Zenon DEF UniDeqCall, UniInOwnCall, UniTypeOK
<1>5. ASSUME NEW e, Retry(t, e)
      PROVE  \E l \in {e, "blocked"} : pc' = [pc EXCEPT ![t] = l] /\ ip' = ip
  BY <1>5, RetryMoves DEF Retry
<1>6. ASSUME NEW e, Goto(t, e) PROVE pc' = [pc EXCEPT ![t] = e] /\ ip' = ip
  BY <1>6 DEF Goto
<1>7. ASSUME NEW e, Return(t, e) PROVE pc' = [pc EXCEPT ![t] = "idle"] /\ ip' = ip
  BY <1>7 DEF Return
<1>8. CASE \/ EnqLoadIn(t) \/ EnqLoadOut(t) \/ EnqClaim(t)
           \/ EnqWriteValue(t) \/ EnqRaiseFlag(t)
  <2>1. pc[t] \in UniEnqLabels
    BY <1>8, Zenon DEF EnqLoadIn, EnqLoadOut, EnqClaim, EnqWriteValue,
       EnqRaiseFlag, UniEnqLabels
  <2>2. PICK l \in UniEnqLabels \cup {"idle", "blocked"} :
           pc' = [pc EXCEPT ![t] = l] /\ ip' = ip
    BY <1>5, <1>6, <1>7, <1>8, Zenon DEF EnqLoadIn, EnqLoadOut, EnqClaim,
       EnqWriteValue, EnqRaiseFlag, UniEnqLabels
  <2>3. l \notin UniDeqLabels
    BY SMT DEF UniEnqLabels, UniDeqLabels
  <2> QED BY <2>1, <2>2, <2>3, CallGoesOn, Zenon DEF UniInOwnCall, UniTypeOK
<1>9. CASE \/ DeqLoadOut(t) \/ DeqLoadIn(t) \/ DeqLoadUsed(t)
           \/ DeqClaim(t) \/ DeqReadValue(t) \/ DeqLowerFlag(t)
  <2>1. pc[t] \in UniDeqLabels
    BY <1>9, Zenon DEF DeqLoadOut, DeqLoadIn, DeqLoadUsed, DeqClaim,
       DeqReadValue, DeqLowerFlag, UniDeqLabels
  <2>2. PICK l \in UniDeqLabels \cup {"idle", "blocked"} :
           pc' = [pc EXCEPT ![t] = l] /\ ip' = ip
    BY <1>5, <1>6, <1>7, <1>9, Zenon DEF DeqLoadOut, DeqLoadIn, DeqLoadUsed,
       DeqClaim, DeqReadValue, DeqLowerFlag, UniDeqLabels
  <2>3. l \notin UniEnqLabels
    BY SMT DEF UniEnqLabels, UniDeqLabels
  <2> QED BY <2>1, <2>2, <2>3, CallGoesOn, Zenon DEF UniInOwnCall, UniTypeOK
<1> QED BY <1>1, <1>2, <1>8, <1>9 DEF UniStep
-----------------------------------------------------------------------------
\* A step that leaves in, out and the flags alone and moves one thread to an
\* access whose conditions hold keeps the relation between tickets and flags.
LEMMA LocalStep ==
    ASSUME UniTypeOK, FirstLap, NEW t \in Threads, NEW l,
           pc' = [pc EXCEPT ![t] = l], UNCHANGED <<in, out, isUsed>>,
           \A u \in Threads \ {t} : local'[u] = local[u],
           EnqOwns(t) \/ l \in {"e_val", "e_flag"} =>
               EnqOwns(t) /\ l \in {"e_val", "e_flag"} /\ local'[t].in = local[t].in,
           DeqOwns(t) \/ l \in {"d_val", "d_flag"} =>
               DeqOwns(t) /\ l \in {"d_val", "d_flag"} /\ local'[t].out = local[t].out,
           l \in {"d_in", "d_used", "d_cas"} => local'[t].out <= out,
           l \in {"d_used", "d_cas"} => local'[t].out < in,
           l = "d_cas" /\ local'[t].out = out => isUsed[out]
    PROVE  FirstLap'
<1> USE PcType DEF FirstLap
<1>0. pc'[t] = l /\ \A u \in Threads \ {t} : pc'[u] = pc[u]
  BY Zenon
<1>o. \A u \in Threads : /\ EnqOwns(u)' <=> EnqOwns(u)
                         /\ DeqOwns(u)' <=> DeqOwns(u)
                         /\ EnqOwns(u) => local'[u].in = local[u].in
                         /\ DeqOwns(u) => local'[u].out = local[u].out
  BY <1>0, Zenon DEF EnqOwns, DeqOwns
<1>1. out' <= in'
  BY Zenon
<1>2. OwnersHoldTickets'
  BY <1>o, Zenon DEF OwnersHoldTickets
<1>3. TicketsDistinct'
  BY <1>o, SMT DEF TicketsDistinct
<1>4. FlagsTell'
  <2>1. ASSUME NEW s \in Slots
        PROVE  /\ (\A u \in Threads : EnqOwns(u)' => local'[u].in # s)
                     <=> (\A u \in Threads : EnqOwns(u) => local[u].in # s)
               /\ (\E u \in Threads : DeqOwns(u)' /\ local'[u].out = s)
                     <=> (\E u \in Threads : DeqOwns(u) /\ local[u].out = s)
    BY <1>o, Zenon
  <2> QED BY <2>1, Zenon DEF FlagsTell, Slots
<1>5. CheckedTickets'
  <2> SUFFICES ASSUME NEW u \in Threads
               PROVE  /\ pc'[u] \in {"d_in", "d_used", "d_cas"} => local'[u].out <= out
                      /\ pc'[u] \in {"d_used", "d_cas"} => local'[u].out < in
                      /\ pc'[u] = "d_cas" /\ local'[u].out = out => isUsed[out]
    BY Zenon DEF CheckedTickets
  <2>1. CASE u = t
    BY <1>0, <2>1, Zenon
  <2>2. CASE u # t
    BY <1>0, <2>2, Zenon DEF CheckedTickets
  <2> QED BY <2>1, <2>2
<1> QED BY <1>1, <1>2, <1>3, <1>4, <1>5

\* An enqueuer wins in: the slot of the ticket has never been used.
LEMMA EnqWins ==
    ASSUME UniTypeOK, FirstLap, NEW t \in Threads, pc[t] = "e_cas",
           in = local[t].in, in' = in + 1, in' <= Size,
           pc' = [pc EXCEPT ![t] = "e_val"], UNCHANGED <<out, isUsed, local>>
    PROVE  FirstLap'
<1> USE PcType DEF FirstLap
<1>0. /\ pc'[t] = "e_val" /\ (\A u \in Threads \ {t} : pc'[u] = pc[u])
      /\ ~EnqOwns(t) /\ ~DeqOwns(t) /\ out <= in /\ out < in + 1
      /\ \A u \in Threads : EnqOwns(u) => local[u].in < in
  BY SMT DEF EnqOwns, DeqOwns, OwnersHoldTickets
<1>o. \A u \in Threads : /\ EnqOwns(u)' <=> EnqOwns(u) \/ u = t
                         /\ DeqOwns(u)' <=> DeqOwns(u)
  BY <1>0, Zenon DEF EnqOwns, DeqOwns
<1>1. out' <= in'
  BY <1>0, SMT
<1>2. OwnersHoldTickets'
  BY <1>0, <1>o, SMT DEF OwnersHoldTickets
<1>3. TicketsDistinct'
  BY <1>0, <1>o, SMT DEF TicketsDistinct
<1>4. FlagsTell'
  <2> SUFFICES ASSUME NEW s \in Slots
               PROVE  isUsed[s] = /\ s < in + 1
                                  /\ \A u \in Threads : EnqOwns(u)' => local[u].in # s
                                  /\ \/ out <= s
                                     \/ \E u \in Threads : DeqOwns(u)' /\ local[u].out = s
    BY Zenon DEF FlagsTell, Slots
  <2>1. s \in Nat
    BY SMT DEF Slots
  <2>2. (\A u \in Threads : EnqOwns(u)' => local[u].in # s)
          <=> s # in /\ \A u \in Threads : EnqOwns(u) => local[u].in # s
    BY <1>o, Zenon
  <2>3. (\E u \in Threads : DeqOwns(u)' /\ local[u].out = s)
          <=> \E u \in Threads : DeqOwns(u) /\ local[u].out = s
    BY <1>o, Zenon
  <2>4. s < in + 1 /\ s # in <=> s < in
    BY <2>1, SMT
  <2> QED BY <2>2, <2>3, <2>4, Zenon DEF FlagsTell
<1>5. CheckedTickets'
  BY <1>0, SMT DEF CheckedTickets
<1> QED BY <1>1, <1>2, <1>3, <1>4, <1>5

\* A dequeuer wins out: the flag of its slot is up, so no enqueuer has it.
LEMMA DeqWins ==
    ASSUME UniTypeOK, FirstLap, NEW t \in Threads, pc[t] = "d_cas",
           out = local[t].out, out' = out + 1, in <= Size,
           pc' = [pc EXCEPT ![t] = "d_val"], UNCHANGED <<in, isUsed, local>>
    PROVE  FirstLap'
<1> USE PcType DEF FirstLap
<1>0. /\ pc'[t] = "d_val" /\ (\A u \in Threads \ {t} : pc'[u] = pc[u])
      /\ ~EnqOwns(t) /\ ~DeqOwns(t) /\ out < in /\ isUsed[out] /\ out \in Slots
      /\ \A u \in Threads : DeqOwns(u) => local[u].out < out
  BY SizeAssumption, SMT DEF EnqOwns, DeqOwns, OwnersHoldTickets,
     CheckedTickets, Slots
<1>e. \A u \in Threads : EnqOwns(u) => local[u].in # out
  BY <1>0, Zenon DEF FlagsTell
<1>o. \A u \in Threads : /\ EnqOwns(u)' <=> EnqOwns(u)
                         /\ DeqOwns(u)' <=> DeqOwns(u) \/ u = t
  BY <1>0, Zenon DEF EnqOwns, DeqOwns
<1>1. out' <= in'
  BY <1>0, SMT
<1>2. OwnersHoldTickets'
  BY <1>0, <1>e, <1>o, SMT DEF OwnersHoldTickets
<1>3. TicketsDistinct'
  BY <1>0, <1>o, SMT DEF TicketsDistinct
<1>4. FlagsTell'
  <2> SUFFICES ASSUME NEW s \in Slots
               PROVE  isUsed[s] = /\ s < in
                                  /\ \A u \in Threads : EnqOwns(u)' => local[u].in # s
                                  /\ \/ out + 1 <= s
                                     \/ \E u \in Threads : DeqOwns(u)' /\ local[u].out = s
    BY Zenon DEF FlagsTell, Slots
  <2>1. s \in Nat
    BY SMT DEF Slots
  <2>2. (\A u \in Threads : EnqOwns(u)' => local[u].in # s)
          <=> \A u \in Threads : EnqOwns(u) => local[u].in # s
    BY <1>o, Zenon
  <2>3. (\E u \in Threads : DeqOwns(u)' /\ local[u].out = s)
          <=> s = out \/ \E u \in Threads : DeqOwns(u) /\ local[u].out = s
    BY <1>o, Zenon
  <2>4. out + 1 <= s \/ s = out <=> out <= s
    BY <2>1, SMT
  <2> QED BY <2>2, <2>3, <2>4, Zenon DEF FlagsTell
<1>5. CheckedTickets'
  BY <1>0, SMT DEF CheckedTickets
<1> QED BY <1>1, <1>2, <1>3, <1>4, <1>5

\* An enqueuer raises the flag of its slot and leaves.
LEMMA FlagRaised ==
    ASSUME UniTypeOK, FirstLap, NEW t \in Threads, pc[t] = "e_flag", in <= Size,
           isUsed' = [isUsed EXCEPT ![Slot(local[t].in)] = TRUE],
           pc' = [pc EXCEPT ![t] = "idle"], UNCHANGED <<in, out, local>>
    PROVE  FirstLap'
<1> USE PcType DEF FirstLap
<1> DEFINE p == local[t].in
<1>0. /\ pc'[t] = "idle" /\ (\A u \in Threads \ {t} : pc'[u] = pc[u])
      /\ EnqOwns(t) /\ ~DeqOwns(t) /\ p \in Slots /\ Slot(p) = p
      /\ out <= p /\ p < in
  BY SlotAtFirst, SizeAssumption, SMT DEF EnqOwns, DeqOwns, OwnersHoldTickets,
     Slots
<1>f. isUsed'[p] = TRUE /\ \A s \in Slots \ {p} : isUsed'[s] = isUsed[s]
  BY <1>0, Zenon
<1>o. \A u \in Threads : /\ EnqOwns(u)' <=> EnqOwns(u) /\ u # t
                         /\ DeqOwns(u)' <=> DeqOwns(u)
                         /\ EnqOwns(u) /\ u # t => local[u].in # p
  BY <1>0, Zenon DEF EnqOwns, DeqOwns, TicketsDistinct
<1>1. out' <= in'
  BY Zenon
<1>2. OwnersHoldTickets'
  BY <1>o, Zenon DEF OwnersHoldTickets
<1>3. TicketsDistinct'
  BY <1>o, Zenon DEF TicketsDistinct
<1> HIDE DEF p
<1>4. FlagsTell'
  <2> SUFFICES ASSUME NEW s \in Slots
               PROVE  isUsed'[s] = /\ s < in
                                   /\ \A u \in Threads : EnqOwns(u)' => local[u].in # s
                                   /\ \/ out <= s
                                      \/ \E u \in Threads : DeqOwns(u)' /\ local[u].out = s
    BY Zenon DEF FlagsTell, Slots
  <2>1. CASE s = p
    BY <1>0, <1>f, <1>o, <2>1, Zenon
  <2>2. CASE s # p
    <3>1. (\A u \in Threads : EnqOwns(u)' => local[u].in # s)
            <=> \A u \in Threads : EnqOwns(u) => local[u].in # s
      BY <1>o, <2>2, Zenon DEF p
    <3> QED BY <1>f, <1>o, <2>2, <3>1, ZenonT(40) DEF FlagsTell
  <2> QED BY <2>1, <2>2
<1>5. CheckedTickets'
  <2>1. isUsed[out] => isUsed'[out]
    <3>1. out \in Slots
      BY <1>0, SizeAssumption, SMT DEF Slots
    <3> QED BY <1>f, <3>1, Zenon
  <2> QED BY <1>0, <2>1, Zenon DEF CheckedTickets
<1> QED BY <1>1, <1>2, <1>3, <1>4, <1>5

\* A dequeuer lowers the flag of its slot and leaves: out has moved past the
\* slot, so nobody relies on that flag.
LEMMA FlagLowered ==
    ASSUME UniTypeOK, FirstLap, NEW t \in Threads, pc[t] = "d_flag", in <= Size,
           isUsed' = [isUsed EXCEPT ![Slot(local[t].out)] = FALSE],
           pc' = [pc EXCEPT ![t] = "idle"], UNCHANGED <<in, out, local>>
    PROVE  FirstLap'
<1> USE PcType DEF FirstLap
<1> DEFINE p == local[t].out
<1>0. /\ pc'[t] = "idle" /\ (\A u \in Threads \ {t} : pc'[u] = pc[u])
      /\ DeqOwns(t) /\ ~EnqOwns(t) /\ p \in Slots /\ Slot(p) = p
      /\ p < out /\ ~(out <= p) /\ p # out
  BY SlotAtFirst, SizeAssumption, SMT DEF EnqOwns, DeqOwns, OwnersHoldTickets,
     Slots
<1>f. isUsed'[p] = FALSE /\ \A s \in Slots \ {p} : isUsed'[s] = isUsed[s]
  BY <1>0, Zenon
<1>o. \A u \in Threads : /\ DeqOwns(u)' <=> DeqOwns(u) /\ u # t
                         /\ EnqOwns(u)' <=> EnqOwns(u)
                         /\ DeqOwns(u) /\ u # t => local[u].out # p
  BY <1>0, Zenon DEF EnqOwns, DeqOwns, TicketsDistinct
<1>1. out' <= in'
  BY Zenon
<1>2. OwnersHoldTickets'
  BY <1>o, Zenon DEF OwnersHoldTickets
<1>3. TicketsDistinct'
  BY <1>o, Zenon DEF TicketsDistinct
<1> HIDE DEF p
<1>4. FlagsTell'
  <2> SUFFICES ASSUME NEW s \in Slots
               PROVE  isUsed'[s] = /\ s < in
                                   /\ \A u \in Threads : EnqOwns(u)' => local[u].in # s
                                   /\ \/ out <= s
                                      \/ \E u \in Threads : DeqOwns(u)' /\ local[u].out = s
    BY Zenon DEF FlagsTell, Slots
  <2>1. CASE s = p
    BY <1>0, <1>f, <1>o, <2>1, Zenon
  <2>2. CASE s # p
    <3>1. (\E u \in Threads : DeqOwns(u)' /\ local[u].out = s)
            <=> \E u \in Threads : DeqOwns(u) /\ local[u].out = s
      BY <1>o, <2>2, Zenon DEF p
    <3> QED BY <1>f, <1>o, <2>2, <3>1, ZenonT(40) DEF FlagsTell
  <2> QED BY <2>1, <2>2
<1>5. CheckedTickets'
  <2>1. ASSUME NEW u \in Threads, pc[u] = "d_cas", local[u].out = out
        PROVE  isUsed'[out]
    <3>1. out \in Slots
      BY <2>1, SizeAssumption, SMT DEF Slots, CheckedTickets
    <3> QED BY <1>0, <1>f, <2>1, <3>1, Zenon DEF CheckedTickets
  <2> QED BY <1>0, <2>1, Zenon DEF CheckedTickets
<1> QED BY <1>1, <1>2, <1>3, <1>4, <1>5
-----------------------------------------------------------------------------
\* in only grows.
LEMMA InGrows ==
    ASSUME UniTypeOK, NEW t \in Threads, UniStep(t)
    PROVE  in' = in \/ in' = in + 1
  BY DEF UniStep, UniEnqCall, EnqLoadIn, EnqLoadOut, EnqClaim, EnqWriteValue,
     EnqRaiseFlag, UniDeqCall, DeqLoadOut, DeqLoadIn, DeqLoadUsed, DeqClaim,
     DeqReadValue, DeqLowerFlag, uniShared, NextTicket

\* The in an enqueuer has loaded is never ahead.
LEMMA InSeenStep ==
    ASSUME UniTypeOK, InSeen, NEW t \in Threads, UniStep(t)
    PROVE  InSeen'
<1>1. in \in Nat /\ in <= in' /\ in <= in
  BY InGrows, SMT DEF UniTypeOK
<1>2. ASSUME NEW u \in Threads, pc'[u] \in {"e_out", "e_cas"}
      PROVE  \/ pc[u] \in {"e_out", "e_cas"} /\ local'[u].in = local[u].in
             \/ local'[u].in = in
  <2>0. UniTypeOK
    OBVIOUS
  <2> USE <1>2, <2>0, PcType
  <2>r. ASSUME NEW e, Retry(t, e) PROVE \E l \in {e, "blocked"} : pc' = [pc EXCEPT ![t] = l]
    BY <2>r, RetryMoves
  <2>1. CASE EnqLoadIn(t)
    <3>1. /\ \A v \in Threads \ {t} : pc'[v] = pc[v]
          /\ \A v \in Threads \ {t} : local'[v] = local[v]
      BY <2>1, Zenon DEF EnqLoadIn, Goto
    <3>2. local'[t].in = in
      BY <2>1, SMT DEF EnqLoadIn
    <3>3. CASE u = t
      BY <3>2, <3>3
    <3>4. CASE u # t
      BY <3>1, <3>4
    <3> QED BY <3>3, <3>4
  <2>2. CASE EnqLoadOut(t)
    BY <2>2, SMT DEF EnqLoadOut, Goto, Return
  <2>3. CASE \/ UniEnqCall(t) \/ EnqClaim(t) \/ EnqWriteValue(t) \/ EnqRaiseFlag(t)
             \/ UniDeqCall(t) \/ DeqLoadIn(t) \/ DeqLoadUsed(t) \/ DeqClaim(t) \/ DeqLowerFlag(t)
    <3>1. local' = local
      BY <2>3, Zenon DEF UniEnqCall, EnqClaim, EnqWriteValue, EnqRaiseFlag,
         UniDeqCall, DeqLoadIn, DeqLoadUsed, DeqClaim, DeqLowerFlag, uniShared
    <3>2. PICK l : pc' = [pc EXCEPT ![t] = l] /\ l \notin {"e_out", "e_cas"}
      <4>1. PICK l \in {"e_in", "e_val", "e_flag", "d_out", "d_used", "d_cas", "d_val",
                      "idle", "blocked"} : pc' = [pc EXCEPT ![t] = l]
        <5>1. Retry(t, "e_in") \/ Retry(t, "d_out") =>
                  \E l \in {"e_in", "d_out", "blocked"} : pc' = [pc EXCEPT ![t] = l]
          BY <2>r, Zenon
        <5> QED BY <2>3, <5>1, Zenon DEF UniEnqCall, EnqClaim, EnqWriteValue,
               EnqRaiseFlag, UniDeqCall, DeqLoadIn, DeqLoadUsed, DeqClaim,
               DeqLowerFlag, Invoke, Goto, Return
      <4>2. l \notin {"e_out", "e_cas"}
        BY SMT
      <4> QED BY <4>1, <4>2
    <3> QED BY <3>1, <3>2, Zenon
  <2>4. CASE DeqLoadOut(t) \/ DeqReadValue(t)
    <3>1. \A v \in Threads : local'[v].in = local[v].in
      BY <2>4, SMT DEF DeqLoadOut, DeqReadValue
    <3>2. \E l \in {"d_in", "d_flag"} : pc' = [pc EXCEPT ![t] = l]
      BY <2>4, Zenon DEF DeqLoadOut, DeqReadValue, Goto
    <3> QED BY <3>1, <3>2, SMT
  <2> QED BY <2>1, <2>2, <2>3, <2>4 DEF UniStep
<1>3. \A u \in Threads : pc[u] \in {"e_out", "e_cas"} => local[u].in \in Nat
  BY SMT DEF UniTypeOK
<1> SUFFICES ASSUME NEW u \in Threads, pc'[u] \in {"e_out", "e_cas"}
             PROVE  local'[u].in <= in'
  BY DEF InSeen
<1>4. CASE pc[u] \in {"e_out", "e_cas"} /\ local'[u].in = local[u].in
  <2>1. local[u].in \in Nat /\ local[u].in <= in
    BY <1>3, <1>4 DEF InSeen
  <2> QED BY <1>1, <1>4, <2>1, InGrows, SMT
<1>5. CASE local'[u].in = in
  BY <1>1, <1>5
<1> QED BY <1>2, <1>4, <1>5

\* One step of the code per case.
LEMMA FirstLapStep ==
    ASSUME UniTypeOK, FirstLap, in <= Size, in' <= Size, NEW t \in Threads, UniStep(t)
    PROVE  FirstLap'
<1> USE PcType
<1>0. /\ local[t].in \in Nat /\ local[t].out \in Nat
      /\ pc[t] \in {"d_in", "d_used", "d_cas"} => local[t].out <= out
      /\ pc[t] \in {"d_used", "d_cas"} => local[t].out < in
      /\ out <= in
  BY SMT DEF FirstLap, CheckedTickets
<1>1. ASSUME NEW l \in {"idle", "blocked", "e_in", "e_out", "e_cas", "d_out"},
             pc' = [pc EXCEPT ![t] = l], ~EnqOwns(t), ~DeqOwns(t),
             \A u \in Threads \ {t} : local'[u] = local[u], UNCHANGED <<in, out, isUsed>>
      PROVE  FirstLap'
  <2>1. /\ l \notin {"e_val", "e_flag"} /\ l \notin {"d_val", "d_flag"}
        /\ l \notin {"d_in", "d_used", "d_cas"} /\ l \notin {"d_used", "d_cas"} /\ l # "d_cas"
    BY SMT
  <2> QED BY <1>1, <2>1, LocalStep, Zenon
<1>2. ASSUME NEW e \in {"e_in", "d_out"}, Retry(t, e), ~EnqOwns(t), ~DeqOwns(t),
             UNCHANGED <<in, out, isUsed, local>>
      PROVE  FirstLap'
  <2>1. PICK l \in {e, "blocked"} : pc' = [pc EXCEPT ![t] = l]
    BY <1>2, RetryMoves
  <2> QED BY <1>1, <1>2, <2>1
<1>3. CASE \/ UniEnqCall(t) \/ EnqLoadIn(t) \/ EnqLoadOut(t) \/ UniDeqCall(t)
  <2>1. ~EnqOwns(t) /\ ~DeqOwns(t) /\ UNCHANGED <<in, out, isUsed>>
    BY <1>3, SMT DEF UniEnqCall, EnqLoadIn, EnqLoadOut, UniDeqCall, Invoke, InCall,
       uniShared, EnqOwns, DeqOwns
  <2>2. \A u \in Threads \ {t} : local'[u] = local[u]
    BY <1>3, Zenon DEF UniEnqCall, EnqLoadIn, EnqLoadOut, UniDeqCall
  <2>3. \E l \in {"idle", "blocked", "e_in", "e_out", "e_cas", "d_out"} :
            pc' = [pc EXCEPT ![t] = l]
    BY <1>3, Zenon DEF UniEnqCall, EnqLoadIn, EnqLoadOut, UniDeqCall, Invoke, Goto, Return
  <2> QED BY <1>1, <2>1, <2>2, <2>3
<1>4. CASE EnqClaim(t)
  <2>1. CASE in = local[t].in /\ in' = NextTicket(in) /\ Goto(t, "e_val")
    BY <1>4, <2>1, EnqWins, Zenon DEF EnqClaim, Goto, NextTicket
  <2>2. CASE Retry(t, "e_in") /\ UNCHANGED in
    BY <1>2, <1>4, <2>2 DEF EnqClaim, EnqOwns, DeqOwns
  <2> QED BY <1>4, <2>1, <2>2 DEF EnqClaim
<1>5. CASE EnqWriteValue(t)
  <2>1. /\ pc' = [pc EXCEPT ![t] = "e_flag"] /\ UNCHANGED <<in, out, isUsed, local>>
        /\ EnqOwns(t) /\ ~DeqOwns(t)
    BY <1>5, SMT DEF EnqWriteValue, Goto, EnqOwns, DeqOwns
  <2> QED BY <2>1, LocalStep
<1>6. CASE EnqRaiseFlag(t)
  BY <1>6, FlagRaised, Zenon DEF EnqRaiseFlag, Return
<1>7. CASE DeqLoadOut(t)
  <2>1. /\ pc' = [pc EXCEPT ![t] = "d_in"] /\ UNCHANGED <<in, out, isUsed>>
        /\ ~EnqOwns(t) /\ ~DeqOwns(t) /\ local'[t].out <= out
        /\ \A u \in Threads \ {t} : local'[u] = local[u]
    BY <1>7, SMT DEF DeqLoadOut, Goto, EnqOwns, DeqOwns, uniShared
  <2> QED BY <2>1, LocalStep
<1>8. CASE DeqLoadIn(t)
  <2>1. ~EnqOwns(t) /\ ~DeqOwns(t) /\ UNCHANGED <<in, out, isUsed, local>>
    BY <1>8, SMT DEF DeqLoadIn, EnqOwns, DeqOwns, uniShared
  <2>2. CASE local[t].out = in
    BY <1>1, <1>8, <2>1, <2>2 DEF DeqLoadIn, Return
  <2>3. CASE local[t].out # in
    <3>1. local[t].out < in /\ local[t].out <= out
      BY <1>0, <1>8, <2>3, SMT DEF DeqLoadIn
    <3>2. pc' = [pc EXCEPT ![t] = "d_used"]
      BY <1>8, <2>3 DEF DeqLoadIn, Goto
    <3> QED BY <2>1, <3>1, <3>2, LocalStep
  <2> QED BY <2>2, <2>3
<1>9. CASE DeqLoadUsed(t)
  <2>1. /\ ~EnqOwns(t) /\ ~DeqOwns(t) /\ UNCHANGED <<in, out, isUsed, local>>
        /\ local[t].out <= out /\ local[t].out < in
    BY <1>0, <1>9, SMT DEF DeqLoadUsed, EnqOwns, DeqOwns, uniShared
  <2>2. CASE FlagUp(t)
    <3>1. isUsed[local[t].out]
      BY <1>0, <2>1, <2>2, SlotAtFirst, SizeAssumption, SMT DEF FlagUp
    <3>2. pc' = [pc EXCEPT ![t] = "d_cas"]
      BY <1>9, <2>2 DEF DeqLoadUsed, Goto
    <3> QED BY <2>1, <3>1, <3>2, LocalStep
  <2>3. CASE ~FlagUp(t)
    BY <1>2, <1>9, <2>1, <2>3 DEF DeqLoadUsed
  <2> QED BY <2>2, <2>3
<1>10. CASE DeqClaim(t)
  <2>1. CASE out = local[t].out /\ out' = NextTicket(out) /\ Goto(t, "d_val")
    BY <1>10, <2>1, DeqWins, Zenon DEF DeqClaim, Goto, NextTicket
  <2>2. CASE Retry(t, "d_out") /\ UNCHANGED out
    BY <1>2, <1>10, <2>2 DEF DeqClaim, EnqOwns, DeqOwns
  <2> QED BY <1>10, <2>1, <2>2 DEF DeqClaim
<1>11. CASE DeqReadValue(t)
  <2>1. /\ pc' = [pc EXCEPT ![t] = "d_flag"] /\ UNCHANGED <<in, out, isUsed>>
        /\ DeqOwns(t) /\ ~EnqOwns(t) /\ local'[t].out = local[t].out
        /\ \A u \in Threads \ {t} : local'[u] = local[u]
    BY <1>11, SMT DEF DeqReadValue, Goto, EnqOwns, DeqOwns, uniShared
  <2> QED BY <2>1, LocalStep
<1>12. CASE DeqLowerFlag(t)
  BY <1>12, FlagLowered, Zenon DEF DeqLowerFlag, FlagAfterRead, Return
<1> QED BY <1>3, <1>4, <1>5, <1>6, <1>7, <1>8, <1>9, <1>10, <1>11, <1>12 DEF UniStep
-----------------------------------------------------------------------------
\* On an unused ring no flag is up.
LEMMA TicketInit == UniInit => TicketInv
<1> SUFFICES ASSUME UniInit PROVE TicketInv
  OBVIOUS
<1>1. in = 0 /\ out = 0 /\ \A t \in Threads : pc[t] = "idle"
  BY SMT DEF UniInit, ClientInit
<1>2. InSeen /\ CheckedTickets /\ \A t \in Threads : ~EnqOwns(t) /\ ~DeqOwns(t)
  BY <1>1, SMT DEF InSeen, CheckedTickets, EnqOwns, DeqOwns
<1>3. OwnersHoldTickets /\ TicketsDistinct
  BY <1>2 DEF OwnersHoldTickets, TicketsDistinct
<1>4. FlagsTell
  <2> SUFFICES ASSUME NEW s \in Slots PROVE isUsed[s] = FALSE /\ ~(s < in)
    BY Zenon DEF FlagsTell
  <2> QED BY <1>1, SMT DEF UniInit, Slots
<1>5. out <= in
  BY <1>1, SMT
<1> QED BY <1>2, <1>3, <1>4, <1>5, CallInit DEF TicketInv, FirstLap

\* A ring that has wrapped stays so.
LEMMA TicketStep ==
    ASSUME UniTypeOK, TicketInv, NEW t \in Threads, UniStep(t)
    PROVE  TicketInv'
<1>1. UniInOwnCall' /\ InSeen'
  BY CallStep, InSeenStep DEF TicketInv
<1>2. ASSUME ~Wrapped'
      PROVE  FirstLap'
  <2>1. in \in Nat /\ in' <= Size /\ in <= Size
    BY <1>2, InGrows, SizeAssumption, SMT DEF UniTypeOK, Wrapped
  <2>2. FirstLap
    BY <2>1, SizeAssumption, SMT DEF TicketInv, Wrapped
  <2> QED BY <2>1, <2>2, FirstLapStep
<1> QED BY <1>1, <1>2 DEF TicketInv

\* A step that changes nothing keeps the invariant.
LEMMA StutterKeeps == ASSUME UniTypeOK, TicketInv, UNCHANGED uniVars
                      PROVE  UniTypeOK' /\ TicketInv'
<1> USE DEF uniVars
<1>1. UniTypeOK'
  BY DEF UniTypeOK, ClientTypeOK, InCall
<1>2. UniInOwnCall' /\ InSeen'
  BY DEF TicketInv, UniInOwnCall, InCallOf, InSeen, Current
<1>3. ASSUME FirstLap PROVE FirstLap'
  <2>1. OwnersHoldTickets' /\ TicketsDistinct' /\ out' <= in'
    BY <1>3 DEF FirstLap, OwnersHoldTickets, TicketsDistinct, EnqOwns, DeqOwns
  <2>2. CheckedTickets'
    BY <1>3 DEF FirstLap, CheckedTickets
  <2>3. FlagsTell'
    BY <1>3, Zenon DEF FirstLap, FlagsTell, Slots, EnqOwns, DeqOwns
  <2> QED BY <2>1, <2>2, <2>3 DEF FirstLap
<1> QED BY <1>1, <1>2, <1>3 DEF TicketInv, Wrapped

\* On the first lap two owners hold two tickets, and so two slots.
LEMMA OwnersApart == ASSUME UniTypeOK, TicketInv PROVE SlotExclusiveAtFirst
<1> SUFFICES ASSUME ~Wrapped, NEW t \in Threads, NEW u \in Threads, t # u,
                    EnqOwns(t) \/ DeqOwns(t), EnqOwns(u) \/ DeqOwns(u)
             PROVE  OwnSlot(t) # OwnSlot(u)
  BY DEF SlotExclusiveAtFirst, SlotExclusive
<1> USE PcType
<1>1. in <= Size /\ FirstLap
  BY SizeAssumption, SMT DEF TicketInv, Wrapped
<1>2. ASSUME NEW v \in Threads, EnqOwns(v)
      PROVE  OwnSlot(v) = local[v].in /\ out <= local[v].in
  <2>1. local[v].in \in Nat /\ local[v].in < Size /\ out <= local[v].in
    BY <1>1, <1>2, SizeAssumption, SMT DEF FirstLap, OwnersHoldTickets
  <2> QED BY <1>2, <2>1, SlotAtFirst DEF OwnSlot
<1>3. ASSUME NEW v \in Threads, DeqOwns(v)
      PROVE  OwnSlot(v) = local[v].out /\ local[v].out < out
  <2>1. local[v].out \in Nat /\ local[v].out < Size /\ local[v].out < out
    BY <1>1, <1>3, SizeAssumption, SMT DEF FirstLap, OwnersHoldTickets
  <2>2. ~EnqOwns(v)
    BY <1>3 DEF EnqOwns, DeqOwns
  <2> QED BY <2>1, <2>2, SlotAtFirst DEF OwnSlot
<1>4. TicketsDistinct /\ out \in Nat
  BY <1>1 DEF FirstLap
<1>5. CASE EnqOwns(t) /\ EnqOwns(u)
  BY <1>2, <1>4, <1>5 DEF TicketsDistinct
<1>6. CASE DeqOwns(t) /\ DeqOwns(u)
  BY <1>3, <1>4, <1>6 DEF TicketsDistinct
<1>7. CASE EnqOwns(t) /\ DeqOwns(u)
  BY <1>2, <1>3, <1>4, <1>7, SMT
<1>8. CASE DeqOwns(t) /\ EnqOwns(u)
  BY <1>2, <1>3, <1>4, <1>8, SMT
<1> QED BY <1>5, <1>6, <1>7, <1>8

\* Between calls the flags are those of the tickets from out to in.
LEMMA FlagsAtRest == ASSUME UniTypeOK, TicketInv PROVE FlagsMatchTickets
<1> SUFFICES ASSUME \A t \in Threads : ~InCall(t), ~Wrapped
             PROVE  /\ out <= in /\ in <= out + Size
                    /\ \A s \in Slots : isUsed[s] = (\E p \in out .. in - 1 : Slot(p) = s)
  BY DEF FlagsMatchTickets
<1> USE PcType
<1>1. in <= Size /\ FirstLap /\ out <= in
  BY SizeAssumption, SMT DEF TicketInv, Wrapped, FirstLap
<1>2. \A t \in Threads : ~EnqOwns(t) /\ ~DeqOwns(t)
  BY DEF InCall, EnqOwns, DeqOwns
<1>3. ASSUME NEW s \in Slots
      PROVE  isUsed[s] = (\E p \in out .. in - 1 : Slot(p) = s)
  <2>1. isUsed[s] = (s < in /\ out <= s)
    BY <1>1, <1>2, Zenon DEF FirstLap, FlagsTell
  <2>2. \A p \in out .. in - 1 : Slot(p) = p
    <3>1. \A p \in out .. in - 1 : p \in Nat /\ p < Size
      BY <1>1, SizeAssumption, SMT
    <3> QED BY <3>1, SlotAtFirst
  <2>3. s \in out .. in - 1 <=> s < in /\ out <= s
    BY SMT DEF Slots
  <2> QED BY <2>1, <2>2, <2>3, Zenon
<1>4. in <= out + Size
  BY <1>1, SizeAssumption, SMT
<1> QED BY <1>1, <1>3, <1>4

\* The variables of uniq-wrapper.h keep their types, and until the ring wraps
\* a slot has one user at a time and the flags tell which slots hold items, for
\* every size of the ring.
THEOREM RingCorrect == UniSpec => []RingInv
<1>1. UniInit => UniTypeOK /\ TicketInv
  BY TypeInit, TicketInit
<1>2. UniTypeOK /\ TicketInv /\ [UniNext]_uniVars => UniTypeOK' /\ TicketInv'
  BY TypeStep, TicketStep, StutterKeeps DEF UniNext, UniDone
<1>3. UniTypeOK /\ TicketInv => RingInv
  BY OwnersApart, FlagsAtRest DEF RingInv
<1> QED BY <1>1, <1>2, <1>3, PTL DEF UniSpec

\* An enqueue drops its item only when the ring is full at that moment, however
\* old the in it compares: in has only grown since, also after the ring wraps.
THEOREM DropsWhenFull == UniSpec => DropsOnlyWhenFull
<1>1. ASSUME UniTypeOK, InSeen, [UniNext]_uniVars
      PROVE  [\A t \in Threads :
                  pc[t] = "e_out" /\ pc'[t] = "idle" => in - out >= Size]_uniVars
  <2> SUFFICES ASSUME NEW u \in Threads, UniStep(u), NEW t \in Threads,
                      pc[t] = "e_out", pc'[t] = "idle"
               PROVE  in - out >= Size
    BY <1>1 DEF UniNext, UniDone
  <2> USE <1>1, PcType
  <2>1. pc'[t] # pc[t]
    OBVIOUS
  <2>2. t = u
    <3>1. \E l : pc' = [pc EXCEPT ![u] = l]
      BY RetryMoves, Zenon DEF UniStep, UniEnqCall, EnqLoadIn, EnqLoadOut, EnqClaim,
         EnqWriteValue, EnqRaiseFlag, UniDeqCall, DeqLoadOut, DeqLoadIn,
         DeqLoadUsed, DeqClaim, DeqReadValue, DeqLowerFlag, Invoke, Goto, Return
    <3> QED BY <2>1, <3>1, Zenon
  <2>3. EnqLoadOut(t)
    BY <2>2 DEF UniStep, UniEnqCall, EnqLoadIn, EnqClaim, EnqWriteValue,
       EnqRaiseFlag, UniDeqCall, DeqLoadOut, DeqLoadIn, DeqLoadUsed, DeqClaim,
       DeqReadValue, DeqLowerFlag, Invoke, InCall
  <2>4. Full(local[t].in, out)
    BY <2>3, SMT DEF EnqLoadOut, Goto
  <2>5. local[t].in <= in /\ local[t].in \in Nat
    BY SMT DEF InSeen
  <2> QED BY <2>4, <2>5, SizeAssumption, SMT DEF Full, mask
<1>2. RingInv => UniTypeOK /\ InSeen
  BY DEF RingInv, TicketInv
<1> QED BY <1>1, <1>2, RingCorrect, PTL DEF UniSpec, DropsOnlyWhenFull
-----------------------------------------------------------------------------
\* What the abstract queue sees of t, and that a step of t changes it for no
\* other thread.
LEMMA SeenOf ==
    ASSUME UniTypeOK, NEW t \in Threads, NEW l, pc' = [pc EXCEPT ![t] = l],
           \A u \in Threads \ {t} :
               /\ ret'[u] = ret[u] /\ local'[u] = local[u]
               /\ pc[u] = "d_val" =>
                      buffer'[Slot(local[u].out)] = buffer[Slot(local[u].out)]
    PROVE  /\ Stage' = [Stage EXCEPT ![t] = Stage'[t]]
           /\ Stage'[t] = Stage[t] => Stage' = Stage
           /\ Res' = [Res EXCEPT ![t] = Res'[t]]
           /\ Res'[t] = Res[t] => Res' = Res
<1>1. \A u \in Threads \ {t} : pc'[u] = pc[u]
  BY PcType, Zenon
<1>2. \A u \in Threads \ {t} : Stage'[u] = Stage[u] /\ Res'[u] = Res[u]
  <2> SUFFICES ASSUME NEW u \in Threads, u # t
               PROVE  Stage'[u] = Stage[u] /\ Res'[u] = Res[u]
    BY Zenon
  <2>1. pc'[u] = pc[u] /\ ret'[u] = ret[u] /\ local'[u] = local[u]
    BY <1>1
  <2>2. pc[u] = "d_val" => buffer'[Slot(local'[u].out)] = buffer[Slot(local[u].out)]
    BY <2>1
  <2> QED BY <2>1, <2>2 DEF Stage, Res, EnqOwns, DeqOwns, InCall, Slot
<1>3. /\ MapOn(Stage, Threads) /\ MapOn(Stage', Threads)
      /\ MapOn(Res, Threads) /\ MapOn(Res', Threads)
  <2>1. MapOn(Stage, Threads) /\ MapOn(Stage', Threads)
    BY Zenon DEF MapOn, Stage
  <2>2. MapOn(Res, Threads) /\ MapOn(Res', Threads)
    BY SMT DEF MapOn, Res
  <2> QED BY <2>1, <2>2
<1>4. Stage' = [Stage EXCEPT ![t] = Stage'[t]] /\ (Stage'[t] = Stage[t] => Stage' = Stage)
  BY <1>2, <1>3, ChangedAt
<1>5. Res' = [Res EXCEPT ![t] = Res'[t]] /\ (Res'[t] = Res[t] => Res' = Res)
  BY <1>2, <1>3, ChangedAt
<1> QED BY <1>4, <1>5

\* Where a thread is decides what the abstract queue sees of its call.
LEMMA SeenAt ==
    ASSUME NEW t \in Threads
    PROVE  /\ Stage[t] = IF pc[t] \in {"e_val", "e_flag", "d_val", "d_flag"} THEN "done"
                         ELSE IF pc[t] # "idle" THEN "called" ELSE "idle"
           /\ Stage'[t] = IF pc'[t] \in {"e_val", "e_flag", "d_val", "d_flag"} THEN "done"
                          ELSE IF pc'[t] # "idle" THEN "called" ELSE "idle"
           /\ pc[t] \in {"e_val", "e_flag"} => Res[t] = Ok
           /\ pc'[t] \in {"e_val", "e_flag"} => Res'[t] = Ok
           /\ pc[t] = "d_val" => Res[t] = buffer[Slot(local[t].out)]
           /\ pc'[t] = "d_val" => Res'[t] = buffer'[Slot(local'[t].out)]
           /\ pc[t] = "d_flag" => Res[t] = local[t].val
           /\ pc'[t] = "d_flag" => Res'[t] = local'[t].val
           /\ pc[t] \notin {"e_val", "e_flag", "d_val", "d_flag"} => Res[t] = ret[t]
           /\ pc'[t] \notin {"e_val", "e_flag", "d_val", "d_flag"} => Res'[t] = ret'[t]
  BY SMT DEF Stage, Res, EnqOwns, DeqOwns, InCall, Slot

\* The item of a ticket is with its one enqueuer until that has stored it.
LEMMA ItemIs ==
    ASSUME TicketsDistinct, TicketsDistinct', NEW p
    PROVE  /\ \A t \in Threads : Unwritten(t, p) => ItemOf(p) = Current(t).val
           /\ (\A t \in Threads : ~Unwritten(t, p)) => ItemOf(p) = buffer[Slot(p)]
           /\ \A t \in Threads : Unwritten(t, p)' => ItemOf(p)' = Current(t)'.val
           /\ (\A t \in Threads : ~Unwritten(t, p)') => ItemOf(p)' = buffer'[Slot(p)]
<1>1. ASSUME NEW t \in Threads, Unwritten(t, p)
      PROVE  ItemOf(p) = Current(t).val
  <2>1. \A u \in Threads : Unwritten(u, p) => u = t
    BY <1>1, Zenon DEF TicketsDistinct, EnqOwns, Unwritten
  <2>2. (CHOOSE u \in Threads : Unwritten(u, p)) = t
    BY <1>1, <2>1
  <2> QED BY <1>1, <2>2 DEF ItemOf
<1>2. ASSUME NEW t \in Threads, Unwritten(t, p)'
      PROVE  ItemOf(p)' = Current(t)'.val
  <2>1. \A u \in Threads : Unwritten(u, p)' => u = t
    BY <1>2, Zenon DEF TicketsDistinct, EnqOwns, Unwritten
  <2>2. (CHOOSE u \in Threads : Unwritten(u, p)') = t
    BY <1>2, <2>1
  <2> QED BY <1>2, <2>2 DEF ItemOf
<1> QED BY <1>1, <1>2 DEF ItemOf, Slot

\* A step of t that writes no slot and does not pass by the write of one leaves
\* the items of all tickets alone.
LEMMA ItemsKept ==
    ASSUME UniTypeOK, TicketsDistinct, TicketsDistinct', NEW t \in Threads,
           NEW l, pc' = [pc EXCEPT ![t] = l], pc[t] # "e_val", l # "e_val",
           buffer' = buffer,
           \A u \in Threads \ {t} : local'[u] = local[u] /\ ip'[u] = ip[u],
           NEW p
    PROVE  ItemOf(p)' = ItemOf(p)
<1>1. /\ \A u \in Threads \ {t} : pc'[u] = pc[u]
      /\ pc'[t] = l
  BY PcType, Zenon
<1>2. \A u \in Threads : Unwritten(u, p)' <=> Unwritten(u, p)
  BY <1>1, Zenon DEF Unwritten
<1>3. CASE \E u \in Threads : Unwritten(u, p)
  <2>1. PICK u \in Threads : Unwritten(u, p)
    BY <1>3
  <2>2. u # t /\ Unwritten(u, p)'
    BY <2>1, <1>2 DEF Unwritten
  <2>3. Current(u)' = Current(u)
    BY <2>2 DEF Current
  <2> QED BY <2>1, <2>2, <2>3, ItemIs
<1>4. CASE ~ \E u \in Threads : Unwritten(u, p)
  BY <1>2, <1>4, ItemIs
<1> QED BY <1>3, <1>4

\* The queue, as the items of the tickets between out and in.
LEMMA QueueItems ==
    /\ HasPlaces(Queue, in - out)
    /\ \A i \in 1 .. in - out : Queue[i] = ItemOf(out + i - 1)
    /\ HasPlaces(Queue', in' - out')
    /\ \A i \in 1 .. in' - out' : \A p : p = out' + i - 1 => Queue'[i] = ItemOf(p)'
  BY Zenon DEF Queue, HasPlaces, ItemOf, Unwritten, Current, Slot

\* The queue changes only where one of its items does.
LEMMA QueueKept ==
    ASSUME UNCHANGED <<in, out>>,
           \A i \in 1 .. in - out : \A p : p = out + i - 1 => ItemOf(p)' = ItemOf(p)
    PROVE  Queue' = Queue
<1>1. \A i \in 1 .. in - out : Queue'[i] = Queue[i]
  BY QueueItems, Zenon
<1> QED BY <1>1, QueueItems, Zenon DEF HasPlaces

\* Going on inside a call, before it takes effect, is no step of the queue.
LEMMA Stutters ==
    ASSUME UniTypeOK, TicketsDistinct, TicketsDistinct', NEW t \in Threads,
           NEW l, pc' = [pc EXCEPT ![t] = l],
           pc[t] \notin {"idle", "e_val", "e_flag", "d_val", "d_flag"},
           l \notin {"idle", "e_val", "e_flag", "d_val", "d_flag"},
           UNCHANGED <<ip, ret, in, out, buffer>>,
           \A u \in Threads \ {t} : local'[u] = local[u]
    PROVE  UNCHANGED Abs!vars
<1>1. pc'[t] = l
  BY PcType, Zenon
<1>2. Stage'[t] = Stage[t] /\ Res'[t] = Res[t]
  BY <1>1, SeenAt
<1>3. Stage' = Stage /\ Res' = Res
  BY <1>2, SeenOf
<1>4. Queue' = Queue
  BY ItemsKept, QueueKept
<1> QED BY <1>3, <1>4 DEF Abs!vars

\* An empty ring is the empty queue.
LEMMA AbsInit == ASSUME UniInit PROVE Abs!Init
<1>1. Stage = [t \in Threads |-> "idle"]
  BY SMT DEF UniInit, ClientInit, Stage, InCall, EnqOwns, DeqOwns
<1>2. Res = [t \in Threads |-> "noret"]
  BY SMT DEF UniInit, ClientInit, Res, EnqOwns, NoRet
<1>3. Queue = << >>
  BY SMT DEF UniInit, Queue
<1> QED BY <1>1, <1>2, <1>3 DEF Abs!Init, UniInit, ClientInit

\* What holds before and after a step of a ring that does not wrap by it.
AtFirst == UniTypeOK /\ UniInOwnCall /\ InSeen /\ FirstLap /\ in <= Size

\* The CAS on in appends the item of the enqueue.
LEMMA EnqTakesEffect ==
    ASSUME AtFirst, AtFirst', NEW t \in Threads, EnqClaim(t), Goto(t, "e_val"),
           in = local[t].in, in' = in + 1
    PROVE  Abs!Enqueue(t)
<1> DEFINE n == in - out
<1>0. /\ UniTypeOK /\ UniInOwnCall /\ TicketsDistinct /\ TicketsDistinct'
      /\ pc[t] = "e_cas" /\ pc' = [pc EXCEPT ![t] = "e_val"] /\ pc'[t] = "e_val"
      /\ UNCHANGED <<ip, ret, out, isUsed, buffer, local>>
  BY PcType, Zenon DEF AtFirst, FirstLap, EnqClaim, Goto
<1>1. n \in Nat /\ in' - out' = n + 1 /\ out + (n + 1) - 1 = in
  BY <1>0, SMT DEF AtFirst, UniTypeOK, FirstLap
<1>2. ASSUME NEW p, p # in
      PROVE  ItemOf(p)' = ItemOf(p)
  <2>1. \A u \in Threads : u # t => pc'[u] = pc[u]
    BY <1>0, PcType, Zenon
  <2>2. \A u \in Threads : Unwritten(u, p)' <=> Unwritten(u, p)
    BY <1>0, <1>2, <2>1, Zenon DEF Unwritten
  <2>3. \A u \in Threads : Current(u)' = Current(u)
    BY <1>0, Zenon DEF Current
  <2>4. CASE \E u \in Threads : Unwritten(u, p)
    BY <1>0, <2>2, <2>3, <2>4, ItemIs
  <2>5. CASE ~ \E u \in Threads : Unwritten(u, p)
    BY <1>0, <2>2, <2>5, ItemIs
  <2> QED BY <2>4, <2>5
<1>3. \A p : p = in => ItemOf(p)' = Current(t).val
  <2> SUFFICES ASSUME NEW p, p = in PROVE ItemOf(p)' = Current(t).val
    OBVIOUS
  <2>1. Unwritten(t, p)' /\ Current(t)' = Current(t)
    BY <1>0 DEF Unwritten, Current
  <2> QED BY <1>0, <2>1, ItemIs
<1>4. /\ HasPlaces(Queue, n) /\ HasPlaces(Queue', n + 1)
      /\ \A i \in 1 .. n : Queue'[i] = Queue[i]
      /\ Queue'[n + 1] = Current(t).val
  <2>1. /\ \A i \in 1 .. n : i \in 1 .. n + 1 /\ out + i - 1 # in
        /\ n + 1 \in 1 .. n + 1
    BY <1>0, <1>1, SMT DEF AtFirst, UniTypeOK
  <2>2. out' = out
    BY <1>0
  <2>q. \A i \in 1 .. n + 1 : \A p : p = out + i - 1 => Queue'[i] = ItemOf(p)'
    BY <1>1, <2>2, QueueItems, Zenon
  <2>p. \A i \in 1 .. n : Queue[i] = ItemOf(out + i - 1)
    BY QueueItems, Zenon
  <2>3. Queue'[n + 1] = Current(t).val
    <3>1. PICK p : p = out + (n + 1) - 1
      OBVIOUS
    <3>2. Queue'[n + 1] = ItemOf(p)'
      BY <2>q, <2>1, <3>1, Zenon
    <3>3. p = in
      BY <3>1, <1>1, Zenon
    <3> QED BY <1>3, <3>2, <3>3, Zenon
  <2>4. \A i \in 1 .. n : Queue'[i] = Queue[i]
    <3>1. SUFFICES ASSUME NEW i \in 1 .. n PROVE Queue'[i] = Queue[i]
      OBVIOUS
    <3>2. PICK p : p = out + i - 1
      OBVIOUS
    <3>3. Queue'[i] = ItemOf(p)'
      BY <2>q, <2>1, <3>2, Zenon
    <3>4. Queue[i] = ItemOf(p) /\ p # in
      BY <2>p, <2>1, <3>2, Zenon
    <3> QED BY <1>2, <3>3, <3>4, Zenon
  <2> QED BY <1>1, <2>3, <2>4, QueueItems
<1> HIDE DEF n
<1>5. Queue' = Append(Queue, Current(t).val)
  <2>1. n \in Nat
    BY <1>1
  <2>2. Queue' = Append(Queue, Queue'[n + 1])
    BY ONLY <2>1, <1>4, PushedBack
  <2> QED BY <2>2, <1>4
<1>6. /\ Stage[t] = "called" /\ Stage' = [Stage EXCEPT ![t] = "done"]
      /\ Res' = [Res EXCEPT ![t] = "ok"]
  <2>1. Stage[t] = "called" /\ Stage'[t] = "done" /\ Res'[t] = "ok"
    BY <1>0, SeenAt DEF Ok
  <2>2. /\ Stage' = [Stage EXCEPT ![t] = Stage'[t]]
        /\ Res' = [Res EXCEPT ![t] = Res'[t]]
    BY <1>0, SeenOf
  <2> QED BY <2>1, <2>2
<1>7. Script[t][ip[t]].kind = "enq"
  BY <1>0 DEF UniInOwnCall, InCallOf, UniEnqLabels, Current
<1> QED BY <1>0, <1>5, <1>6, <1>7 DEF Abs!Enqueue, Abs!Effect, Current

\* The CAS on out takes the oldest item: its flag is up, so its enqueuer has
\* stored it.
LEMMA DeqTakesEffect ==
    ASSUME AtFirst, AtFirst', NEW t \in Threads, DeqClaim(t), Goto(t, "d_val"),
           out = local[t].out, out' = out + 1
    PROVE  Abs!Dequeue(t)
<1> DEFINE n == in - out - 1
<1>0. /\ UniTypeOK /\ UniInOwnCall /\ TicketsDistinct /\ TicketsDistinct'
      /\ pc[t] = "d_cas" /\ pc' = [pc EXCEPT ![t] = "d_val"] /\ pc'[t] = "d_val"
      /\ UNCHANGED <<ip, ret, in, isUsed, buffer, local>>
  BY PcType, Zenon DEF AtFirst, FirstLap, DeqClaim, Goto
<1>1. /\ n \in Nat /\ in - out = n + 1 /\ in' - out' = n
      /\ out \in Nat /\ out \in Slots
  BY <1>0, SizeAssumption, SMTT(20) DEF AtFirst, UniTypeOK, FirstLap, CheckedTickets, Slots
<1>2. \A p : ItemOf(p)' = ItemOf(p)
  BY <1>0, ItemsKept
<1>3. ItemOf(out) = buffer[Slot(out)]
  <2>1. isUsed[out]
    <3>1. CheckedTickets
      BY DEF AtFirst, FirstLap
    <3> QED BY <1>0, <3>1, SMT DEF CheckedTickets
  <2>2. \A u \in Threads : EnqOwns(u) => local[u].in # out
    <3>1. FlagsTell
      BY DEF AtFirst, FirstLap
    <3> QED BY <1>1, <2>1, <3>1, Zenon DEF FlagsTell
  <2>3. \A u \in Threads : ~Unwritten(u, out)
    BY <2>2 DEF Unwritten, EnqOwns
  <2> QED BY <1>0, <2>3, ItemIs
<1>4. /\ HasPlaces(Queue, n + 1) /\ HasPlaces(Queue', n)
      /\ \A i \in 1 .. n : Queue'[i] = Queue[i + 1]
      /\ Queue[1] = buffer[Slot(out)]
  <2>1. /\ \A i \in 1 .. n : i + 1 \in 1 .. n + 1 /\ out' + i - 1 = out + (i + 1) - 1
        /\ 1 \in 1 .. n + 1 /\ out + 1 - 1 = out
    BY <1>1, SMT
  <2>2. Queue[1] = buffer[Slot(out)]
    BY <1>1, <1>3, <2>1, QueueItems, Zenon
  <2>3. ASSUME NEW i \in 1 .. n
        PROVE  Queue'[i] = Queue[i + 1]
    <3>1. PICK p : p = out' + i - 1
      OBVIOUS
    <3>2. Queue'[i] = ItemOf(p)'
      BY <3>1, <1>1, QueueItems, Zenon
    <3>3. Queue[i + 1] = ItemOf(p)
      BY <3>1, <2>1, <1>1, QueueItems, Zenon
    <3> QED BY <3>2, <3>3, <1>2
  <2> QED BY <1>1, <2>2, <2>3, QueueItems
<1> HIDE DEF n
<1>5. Queue # << >> /\ Head(Queue) = Queue[1] /\ Tail(Queue) = Queue'
  <2>1. n \in Nat
    BY <1>1
  <2> QED BY ONLY <2>1, <1>4, PoppedFront
<1>6. /\ Stage[t] = "called" /\ Stage' = [Stage EXCEPT ![t] = "done"]
      /\ Res' = [Res EXCEPT ![t] = buffer[Slot(out)]]
  <2>1. Stage[t] = "called" /\ Stage'[t] = "done" /\ Res'[t] = buffer[Slot(out)]
    BY <1>0, SeenAt DEF Slot
  <2>2. /\ Stage' = [Stage EXCEPT ![t] = Stage'[t]]
        /\ Res' = [Res EXCEPT ![t] = Res'[t]]
    BY <1>0, SeenOf
  <2> QED BY <2>1, <2>2
<1>7. Script[t][ip[t]].kind = "deq"
  BY <1>0 DEF UniInOwnCall, InCallOf, UniDeqLabels, Current
<1> QED BY <1>0, <1>4, <1>5, <1>6, <1>7 DEF Abs!Dequeue, Abs!Effect

\* A dequeue that finds in where out was finds the queue empty, as out cannot
\* have passed in since.
LEMMA FindsEmpty ==
    ASSUME AtFirst, AtFirst', NEW t \in Threads, DeqLoadIn(t), local[t].out = in
    PROVE  Abs!Dequeue(t)
<1>0. /\ UniTypeOK /\ UniInOwnCall /\ TicketsDistinct /\ TicketsDistinct'
      /\ pc[t] = "d_in" /\ pc' = [pc EXCEPT ![t] = "idle"] /\ pc'[t] = "idle"
      /\ ret' = [ret EXCEPT ![t] = Empty] /\ ret'[t] = Empty
      /\ \A u \in Threads \ {t} : ret'[u] = ret[u]
      /\ UNCHANGED <<ip, in, out, isUsed, buffer, local>>
  BY SMT DEF AtFirst, FirstLap, DeqLoadIn, Return, uniShared, UniTypeOK, ClientTypeOK
<1>1. in - out = 0
  BY <1>0, SMT DEF AtFirst, UniTypeOK, FirstLap, CheckedTickets
<1>2. Queue = << >>
  BY <1>1, SMT DEF Queue
<1>3. Queue' = Queue
  BY <1>0, ItemsKept, QueueKept
<1>4. /\ Stage[t] = "called" /\ Stage' = [Stage EXCEPT ![t] = "idle"]
      /\ Res' = [Res EXCEPT ![t] = "empty"]
  <2>1. Stage[t] = "called" /\ Stage'[t] = "idle" /\ Res'[t] = "empty"
    BY <1>0, SeenAt DEF Empty
  <2>2. /\ Stage' = [Stage EXCEPT ![t] = Stage'[t]]
        /\ Res' = [Res EXCEPT ![t] = Res'[t]]
    BY <1>0, SeenOf
  <2> QED BY <2>1, <2>2
<1>5. Script[t][ip[t]].kind = "deq"
  BY <1>0 DEF UniInOwnCall, InCallOf, UniDeqLabels, Current
<1> QED BY <1>0, <1>2, <1>3, <1>4, <1>5 DEF Abs!Dequeue, Abs!Effect

\* An enqueue that finds the ring full drops its item, as the contract lets it.
LEMMA FindsFull ==
    ASSUME AtFirst, AtFirst', NEW t \in Threads, EnqLoadOut(t), Full(local[t].in, out)
    PROVE  Abs!Enqueue(t)
<1>0. /\ UniTypeOK /\ UniInOwnCall /\ TicketsDistinct /\ TicketsDistinct'
      /\ pc[t] = "e_out" /\ pc' = [pc EXCEPT ![t] = "idle"] /\ pc'[t] = "idle"
      /\ ret' = [ret EXCEPT ![t] = Ok] /\ ret'[t] = Ok
      /\ \A u \in Threads \ {t} : ret'[u] = ret[u]
      /\ UNCHANGED <<ip, in, out, isUsed, buffer, local>>
  BY SMT DEF AtFirst, FirstLap, EnqLoadOut, Return, uniShared, UniTypeOK, ClientTypeOK
<1>1. Queue' = Queue
  BY <1>0, ItemsKept, QueueKept
<1>2. /\ Stage[t] = "called" /\ Stage' = [Stage EXCEPT ![t] = "idle"]
      /\ Res' = [Res EXCEPT ![t] = "ok"]
  <2>1. Stage[t] = "called" /\ Stage'[t] = "idle" /\ Res'[t] = "ok"
    BY <1>0, SeenAt DEF Ok
  <2>2. /\ Stage' = [Stage EXCEPT ![t] = Stage'[t]]
        /\ Res' = [Res EXCEPT ![t] = Res'[t]]
    BY <1>0, SeenOf
  <2> QED BY <2>1, <2>2
<1>3. Script[t][ip[t]].kind = "enq"
  BY <1>0 DEF UniInOwnCall, InCallOf, UniEnqLabels, Current
<1> QED BY <1>0, <1>1, <1>2, <1>3 DEF Abs!Enqueue, Abs!Effect

\* The payload the enqueuer of a ticket stores is the item the ticket had.
LEMMA WriteKeepsItems ==
    ASSUME AtFirst, AtFirst', NEW t \in Threads, EnqWriteValue(t)
    PROVE  UNCHANGED Abs!vars
<1>0. /\ UniTypeOK /\ TicketsDistinct /\ TicketsDistinct' /\ local[t].in \in Nat
      /\ pc[t] = "e_val" /\ pc' = [pc EXCEPT ![t] = "e_flag"] /\ pc'[t] = "e_flag"
      /\ buffer' = [buffer EXCEPT ![Slot(local[t].in)] = Current(t).val]
      /\ UNCHANGED <<ip, ret, in, out, isUsed, local>>
  BY PcType, SMT DEF AtFirst, FirstLap, EnqWriteValue, Goto
<1>1. /\ buffer'[Slot(local[t].in)] = Current(t).val
      /\ \A s \in Slots : s # Slot(local[t].in) => buffer'[s] = buffer[s]
  BY <1>0, SlotBound, Zenon DEF UniTypeOK
<1>s. ASSUME NEW p \in Nat, p < in, p # local[t].in
      PROVE  buffer'[Slot(p)] = buffer[Slot(p)]
  <2>1. /\ Slot(p) = p /\ Slot(local[t].in) = local[t].in
    <3>1. p < Size /\ local[t].in < Size
      BY <1>0, <1>s, SizeAssumption, SMT
         DEF AtFirst, UniTypeOK, FirstLap, OwnersHoldTickets, EnqOwns
    <3> QED BY <1>0, <3>1, SlotAtFirst
  <2> QED BY <1>1, <1>s, <2>1, SlotBound
<1>2. ASSUME NEW u \in Threads \ {t}, pc[u] = "d_val"
      PROVE  buffer'[Slot(local[u].out)] = buffer[Slot(local[u].out)]
  <2>1. local[u].out \in Nat /\ local[u].out < in /\ local[u].out # local[t].in
    BY <1>0, <1>2, SMT
       DEF AtFirst, UniTypeOK, FirstLap, OwnersHoldTickets, EnqOwns, DeqOwns
  <2> QED BY <1>s, <2>1
<1>3. Stage' = Stage /\ Res' = Res
  <2>1. Stage'[t] = Stage[t] /\ Res'[t] = Res[t]
    BY <1>0, SeenAt
  <2> QED BY <1>0, <1>2, <2>1, SeenOf
<1>4. ASSUME NEW p \in Nat, p < in
      PROVE  ItemOf(p)' = ItemOf(p)
  <2>1. \A u \in Threads : u # t => pc'[u] = pc[u]
    BY <1>0, PcType, Zenon
  <2>2. \A u \in Threads : Current(u)' = Current(u)
    BY <1>0, Zenon DEF Current
  <2>3. CASE p = local[t].in
    <3>1. Unwritten(t, p) /\ \A u \in Threads : ~Unwritten(u, p)'
      BY <1>0, <2>1, <2>3, Zenon DEF Unwritten, TicketsDistinct, EnqOwns
    <3> QED BY <1>0, <1>1, <2>3, <3>1, ItemIs
  <2>4. CASE p # local[t].in
    <3>1. \A u \in Threads : Unwritten(u, p)' <=> Unwritten(u, p)
      BY <1>0, <2>1, <2>4, Zenon DEF Unwritten
    <3>2. buffer'[Slot(p)] = buffer[Slot(p)]
      BY <1>s, <1>4, <2>4
    <3>3. CASE \E u \in Threads : Unwritten(u, p)
      BY <1>0, <2>2, <3>1, <3>3, ItemIs
    <3>4. CASE ~ \E u \in Threads : Unwritten(u, p)
      BY <1>0, <3>1, <3>2, <3>4, ItemIs
    <3> QED BY <3>3, <3>4
  <2> QED BY <2>3, <2>4
<1>5. Queue' = Queue
  <2>1. ASSUME NEW i \in 1 .. in - out, NEW p, p = out + i - 1
        PROVE  p \in Nat /\ p < in
    BY <1>0, <2>1, SMT DEF UniTypeOK
  <2> QED BY <1>0, <1>4, <2>1, QueueKept
<1> QED BY <1>0, <1>3, <1>5 DEF Abs!vars

\* Each step of the ring that does not wrap it is a step of the queue, or none.
LEMMA AbsStep ==
    ASSUME AtFirst, AtFirst', NEW t \in Threads, UniStep(t)
    PROVE  Abs!Next \/ UNCHANGED Abs!vars
<1>0. UniTypeOK /\ TicketsDistinct /\ TicketsDistinct'
  BY DEF AtFirst, FirstLap
<1>1. CASE UniEnqCall(t) \/ UniDeqCall(t)
  <2>1. PICK l \in {"e_in", "d_out"} :
            /\ pc[t] = "idle" /\ pc' = [pc EXCEPT ![t] = l] /\ pc'[t] = l
            /\ ip' = [ip EXCEPT ![t] = @ + 1] /\ ip[t] < Len(Script[t])
            /\ \A u \in Threads \ {t} : ip'[u] = ip[u]
            /\ UNCHANGED <<ret, in, out, isUsed, buffer, local>>
    BY <1>0, <1>1, SMT DEF UniEnqCall, UniDeqCall, Invoke, InCall, uniShared,
       UniTypeOK, ClientTypeOK
  <2>2. Queue' = Queue
    BY <1>0, <2>1, ItemsKept, QueueKept
  <2>3. Stage[t] = "idle" /\ Stage'[t] = "called" /\ Res'[t] = Res[t]
    BY <2>1, SeenAt
  <2>4. Stage' = [Stage EXCEPT ![t] = "called"] /\ Res' = Res
    BY <1>0, <2>1, <2>3, SeenOf
  <2>5. Abs!Call(t)
    BY <2>1, <2>2, <2>3, <2>4 DEF Abs!Call
  <2> QED BY <2>5 DEF Abs!Next, Abs!Step
<1>2. ASSUME pc[t] \in {"e_in", "e_out", "e_cas", "d_out", "d_in", "d_used", "d_cas"},
             NEW l \in {"e_in", "e_out", "e_cas", "d_out", "d_in", "d_used", "d_cas", "blocked"},
             pc' = [pc EXCEPT ![t] = l], \A u \in Threads \ {t} : local'[u] = local[u],
             UNCHANGED <<ip, ret, in, out, buffer>>
      PROVE  UNCHANGED Abs!vars
  <2>1. /\ pc[t] \notin {"idle", "e_val", "e_flag", "d_val", "d_flag"}
        /\ l \notin {"idle", "e_val", "e_flag", "d_val", "d_flag"}
    BY <1>2
  <2> QED BY <1>0, <1>2, <2>1, Stutters
<1>3. ASSUME NEW e \in {"e_in", "d_out"}, Retry(t, e),
             pc[t] \in {"e_cas", "d_used", "d_cas"}, UNCHANGED <<in, out, buffer, local>>
      PROVE  UNCHANGED Abs!vars
  <2>1. PICK l \in {e, "blocked"} : pc' = [pc EXCEPT ![t] = l]
    BY <1>3, RetryMoves
  <2> QED BY <1>2, <1>3, <2>1 DEF Retry
<1>4. CASE EnqLoadIn(t)
  <2>1. \A u \in Threads \ {t} : local'[u] = local[u]
    BY <1>0, <1>4, PcType, Zenon DEF EnqLoadIn
  <2> QED BY <1>2, <1>4, <2>1 DEF EnqLoadIn, Goto, uniShared
<1>5. CASE EnqLoadOut(t)
  <2>1. CASE Full(local[t].in, out)
    BY <1>5, <2>1, FindsFull DEF Abs!Next, Abs!Step
  <2>2. CASE ~Full(local[t].in, out)
    BY <1>2, <1>5, <2>2 DEF EnqLoadOut, Goto, uniShared
  <2> QED BY <2>1, <2>2
<1>6. CASE EnqClaim(t)
  <2>1. CASE Goto(t, "e_val") /\ in = local[t].in /\ in' = in + 1
    BY <1>6, <2>1, EnqTakesEffect DEF Abs!Next, Abs!Step
  <2>2. CASE Retry(t, "e_in") /\ UNCHANGED in
    BY <1>3, <1>6, <2>2 DEF EnqClaim
  <2> QED BY <1>6, <2>1, <2>2 DEF EnqClaim, NextTicket
<1>7. CASE EnqWriteValue(t)
  BY <1>7, WriteKeepsItems
<1>8. ASSUME pc[t] \in {"e_flag", "d_flag"}, Return(t, Res[t]),
             UNCHANGED <<in, out, buffer, local>>
      PROVE  Abs!Return(t)
  <2>1. /\ pc' = [pc EXCEPT ![t] = "idle"] /\ pc'[t] = "idle"
        /\ ret'[t] = Res[t] /\ ip' = ip
        /\ \A u \in Threads \ {t} : ret'[u] = ret[u]
    BY <1>0, <1>8, SMT DEF Return, UniTypeOK, ClientTypeOK
  <2>2. Stage[t] = "done" /\ Stage'[t] = "idle" /\ Res'[t] = Res[t]
    BY <1>8, <2>1, SeenAt
  <2>3. Stage' = [Stage EXCEPT ![t] = "idle"] /\ Res' = Res
    BY <1>0, <1>8, <2>1, <2>2, SeenOf
  <2>4. Queue' = Queue
    BY <1>0, <1>8, <2>1, ItemsKept, QueueKept
  <2> QED BY <2>1, <2>2, <2>3, <2>4 DEF Abs!Return
<1>9. CASE EnqRaiseFlag(t)
  <2>1. Res[t] = Ok /\ pc[t] = "e_flag"
    BY <1>9, SeenAt DEF EnqRaiseFlag
  <2>2. Abs!Return(t)
    BY <1>8, <1>9, <2>1 DEF EnqRaiseFlag
  <2> QED BY <2>2 DEF Abs!Next, Abs!Step
<1>10. CASE DeqLoadOut(t)
  <2>1. \A u \in Threads \ {t} : local'[u] = local[u]
    BY <1>0, <1>10, PcType, Zenon DEF DeqLoadOut
  <2> QED BY <1>2, <1>10, <2>1 DEF DeqLoadOut, Goto, uniShared
<1>11. CASE DeqLoadIn(t)
  <2>1. CASE local[t].out = in
    BY <1>11, <2>1, FindsEmpty DEF Abs!Next, Abs!Step
  <2>2. CASE local[t].out # in
    BY <1>2, <1>11, <2>2 DEF DeqLoadIn, Goto, uniShared
  <2> QED BY <2>1, <2>2
<1>12. CASE DeqLoadUsed(t)
  BY <1>2, <1>3, <1>12 DEF DeqLoadUsed, Goto, uniShared
<1>13. CASE DeqClaim(t)
  <2>1. CASE Goto(t, "d_val") /\ out = local[t].out /\ out' = out + 1
    BY <1>13, <2>1, DeqTakesEffect DEF Abs!Next, Abs!Step
  <2>2. CASE Retry(t, "d_out") /\ UNCHANGED out
    BY <1>3, <1>13, <2>2 DEF DeqClaim
  <2> QED BY <1>13, <2>1, <2>2 DEF DeqClaim, NextTicket
<1>14. CASE DeqReadValue(t)
  <2>1. /\ pc[t] = "d_val" /\ pc' = [pc EXCEPT ![t] = "d_flag"] /\ pc'[t] = "d_flag"
        /\ local'[t].val = buffer[Slot(local[t].out)]
        /\ \A u \in Threads \ {t} : local'[u] = local[u]
        /\ UNCHANGED <<ip, ret, in, out, isUsed, buffer>>
    BY <1>0, <1>14, SMT DEF DeqReadValue, Goto, uniShared, UniTypeOK, ClientTypeOK
  <2>2. Stage'[t] = Stage[t] /\ Res'[t] = Res[t]
    BY <2>1, SeenAt
  <2>3. Stage' = Stage /\ Res' = Res
    BY <1>0, <2>1, <2>2, SeenOf
  <2>4. Queue' = Queue
    BY <1>0, <2>1, ItemsKept, QueueKept
  <2> QED BY <2>1, <2>3, <2>4 DEF Abs!vars
<1>15. CASE DeqLowerFlag(t)
  <2>1. Res[t] = local[t].val /\ pc[t] = "d_flag"
    BY <1>15, SeenAt DEF DeqLowerFlag
  <2>2. Abs!Return(t)
    BY <1>8, <1>15, <2>1 DEF DeqLowerFlag
  <2> QED BY <2>2 DEF Abs!Next, Abs!Step
<1> QED BY <1>1, <1>4, <1>5, <1>6, <1>7, <1>9, <1>10, <1>11, <1>12, <1>13,
           <1>14, <1>15 DEF UniStep

\* Until the ring wraps every step is one of a FIFO queue with the same calls
\* and results whose enqueue may drop its item: whatever the threads do, the
\* first Size items that are added come out once each and in order.
THEOREM QueueAtFirst == UniSpec => ImplementsQueueAtFirst
<1>1. UniInit => Abs!Init
  BY AbsInit
<1>2. UniTypeOK /\ TicketInv /\ ~Wrapped => AtFirst
  BY SizeAssumption, SMT DEF TicketInv, Wrapped, AtFirst, UniTypeOK
<1>3. ASSUME UniTypeOK, TicketInv, (UniTypeOK /\ TicketInv /\ ~Wrapped => AtFirst)',
             [UniNext]_uniVars
      PROVE  [~Wrapped' => Abs!Next \/ UNCHANGED Abs!vars]_uniVars
  <2> SUFFICES ASSUME ~Wrapped', UniNext, ~ UNCHANGED uniVars
               PROVE  Abs!Next \/ UNCHANGED Abs!vars
    BY <1>3
  <2>1. PICK t \in Threads : UniStep(t)
    BY DEF UniNext, UniDone
  <2>2. AtFirst'
    BY <1>3, <2>1, TypeStep, TicketStep
  <2>3. AtFirst
    <3>1. ~Wrapped
      BY <1>3, <2>1, InGrows, SizeAssumption, SMT DEF Wrapped, UniTypeOK
    <3> QED BY <1>2, <1>3, <3>1
  <2> QED BY <2>1, <2>2, <2>3, AbsStep
<1>4. RingInv => UniTypeOK /\ TicketInv
  BY DEF RingInv
<1> QED BY <1>1, <1>2, <1>3, <1>4, RingCorrect, PTL DEF UniSpec, ImplementsQueueAtFirst

-----------------------------------------------------------------------------
\* LCRQ.

\* The invariant.

\* The accesses of an enqueuer that has taken a place of an open ring, and
\* those of a dequeuer on its way to its place, and beyond it.
FillLabels == {"e_idx", "e_val", "e_head", "e_cas"}
TakeLabels == {"d_cell", "d_take", "d_mark", "d_skip"}
PastLabels == {"d_tail", "f_tail", "f_head", "f_check", "f_cas", "d_next", "d_tail2", "d_move"}

\* A thread at an access of a call is in a call of that kind.
InOwnCall == InCallOf(EnqLabels, DeqLabels)

\* The locals keep their types.
RingOrNone == Rings \cup {NoRing}
LocalType == [rq : RingOrNone, next : RingOrNone, t : Nat, cell : CellType,
              ft : [tail : Nat, closed : BOOLEAN], fh : Nat, fixes : Nat]
LocalsOK == loc \in [Threads -> LocalType]

\* What the threads know of the chain.
OnChain ==
    \A t \in Threads :
        /\ pc[t] \in EnqLabels \ {"e_last"} => loc[t].rq \in 1 .. last
        /\ pc[t] \in DeqLabels \ {"d_first"} => loc[t].rq \in 1 .. used
        /\ pc[t] \in {"e_help", "e_swing", "d_tail2", "d_move"} =>
              loc[t].next = My(t).next /\ loc[t].next # NoRing
        /\ pc[t] = "e_link" => My(t).closed
        /\ pc[t] = "f_cas" => ~loc[t].ft.closed /\ loc[t].ft.tail < loc[t].fh

\* Items and enqueuers have places tail has handed out, dequeuers have places
\* head has.
PlacesTaken ==
    /\ \A r \in 1 .. used, s \in Places :
          ring[r].array[s].val # Null => ring[r].array[s].idx < ring[r].tail
    /\ \A t \in Threads :
          /\ pc[t] \in FillLabels => loc[t].t < My(t).tail
          /\ pc[t] \in TakeLabels \cup PastLabels => loc[t].t < My(t).head

\* What the threads know of the cells they have read.
CellsRead ==
    \A t \in Threads :
        /\ pc[t] \in {"e_val", "e_head", "e_cas"} =>
              loc[t].cell.val = Null /\ loc[t].cell.idx <= MyCell(t).idx
        /\ pc[t] \in {"e_head", "e_cas"} => loc[t].cell.idx <= loc[t].t
        /\ pc[t] = "d_take" => loc[t].cell.idx = loc[t].t
        /\ pc[t] = "d_mark" => loc[t].cell.val # Null /\ loc[t].cell.idx < loc[t].t
        /\ pc[t] = "d_skip" => loc[t].cell.idx <= loc[t].t

\* An item can no more be put in the cell c for the place p.
Dead(c, p) == c.idx > p \/ (c.unsafe /\ (c.val # Null => c.idx # p))

CellOf(r, p) == ring[r].array[p % RingSize]
PassedAreDead ==
    \A r \in 1 .. used, p \in Nat :
        p < ring[r].head => Claimed(r, p) \/ Dead(CellOf(r, p), p)

\* An enqueuer that is to fill an unsafe cell has nobody beyond it: were a
\* dequeuer of its place or a later one there, it would have changed the cell.
UnsafeTested ==
    \A t \in Threads :
        pc[t] = "e_cas" /\ loc[t].cell.unsafe /\ MyCell(t) = loc[t].cell =>
            \A p \in Nat : loc[t].t <= p /\ p % RingSize = Place(t) /\ p < My(t).head =>
                Claimed(loc[t].rq, p)

\* A closed ring with head beyond all that is or will be in it.
Drained(r) ==
    /\ ring[r].closed
    /\ \A s \in Places : ring[r].array[s].val # Null => ring[r].array[s].idx < ring[r].head
    /\ \A t \in Threads : pc[t] \in FillLabels /\ loc[t].rq = r => loc[t].t < ring[r].head
LeftAreDrained ==
    /\ \A r \in 1 .. first - 1 : Drained(r)
    /\ \A t \in Threads : pc[t] = "d_move" => Drained(loc[t].rq)

IInv == /\ RingsInv /\ InOwnCall /\ LocalsOK /\ OnChain /\ PlacesTaken /\ CellsRead
        /\ PassedAreDead /\ UnsafeTested /\ LeftAreDrained

-----------------------------------------------------------------------------
\* How a thread moves, and types.

LEMMA Typed == TypeOK => /\ pc \in [Threads -> Labels \cup {"idle", "blocked", "assert"}]
                         /\ ip \in [Threads -> Nat] /\ ring \in [Rings -> RingType]
                         /\ first \in Rings /\ last \in Rings /\ used \in Rings
BY DEF TypeOK, ClientTypeOK

\* A thread inside a call that has read its ring has a ring of the chain, and its
\* place is one of the ring's.
RingLabels == (EnqLabels \ {"e_last"}) \cup (DeqLabels \ {"d_first"})

LEMMA OwnRing ==
    ASSUME TypeOK, ChainOfRings, LocalsOK, OnChain, NEW t \in Threads
    PROVE  /\ loc[t] \in LocalType
           /\ Place(t) \in Places
           /\ pc[t] \in RingLabels =>
                 /\ loc[t].rq \in 1 .. used /\ loc[t].rq \in Rings
                 /\ My(t) \in RingType /\ MyCell(t) \in CellType
<1>1. loc[t] \in LocalType /\ loc[t].t \in Nat
  BY DEF LocalsOK, LocalType
<1>2. Place(t) \in Places
  BY <1>1, RingAssumption, DivMod DEF Place, Places
<1>3. ASSUME pc[t] \in RingLabels
      PROVE  loc[t].rq \in 1 .. used /\ loc[t].rq \in Rings
  <2>1. first \in Rings /\ last \in Rings /\ used \in Rings /\ last <= used
    BY Typed, SMT DEF ChainOfRings, Rings
  <2>2. loc[t].rq \in 1 .. last \/ loc[t].rq \in 1 .. used
    BY <1>3, Zenon DEF OnChain, RingLabels
  <2> QED BY <2>1, <2>2, RingAssumption, SMT DEF Rings
<1>4. ASSUME pc[t] \in RingLabels
      PROVE  My(t) \in RingType /\ MyCell(t) \in CellType
  <2>1. My(t) \in RingType
    BY <1>3, <1>4, Typed DEF My
  <2>2. My(t).array \in [Places -> CellType]
    BY <2>1 DEF RingType
  <2> QED BY <2>1, <2>2, <1>2 DEF MyCell
<1> QED BY <1>1, <1>2, <1>3, <1>4

\* t begins a call, goes on in it, stops in it or returns.
LEMMA Moves ==
    ASSUME TypeOK, ChainOfRings, LocalsOK, OnChain, NEW t \in Threads, Step(t)
    PROVE  \/ Invoke(t, "enq", "e_last") \/ Invoke(t, "deq", "d_first")
           \/ /\ InCall(t)
              /\ \/ \E r \in Results : Return(t, r)
                 \/ Goto(t, "blocked")
                 \/ /\ pc[t] \in EnqLabels
                    /\ Retry(t, "e_last") \/ \E l \in EnqLabels : Goto(t, l)
                 \/ /\ pc[t] \in DeqLabels
                    /\ Retry(t, "d_first") \/ \E l \in DeqLabels : Goto(t, l)
<1>0. /\ Ok \in Results /\ Empty \in Results /\ loc[t].cell.val \in Results
  BY SMT DEF Results, LocalsOK, LocalType, CellType
<1>1. CASE EnqStep(t)
  <2> USE DEF EnqLabels, InCall
  <2>1. CASE EnqCall(t) \/ EnqLoadLast(t) \/ EnqLoadNext(t) \/ EnqHelp(t) \/ EnqTakePlace(t)
             \/ EnqLoadIndex(t) \/ EnqLoadValue(t) \/ EnqLoadHead(t)
    BY <2>1 DEF EnqCall, EnqLoadLast, EnqLoadNext, EnqHelp, EnqTakePlace, EnqLoadIndex,
                EnqLoadValue, EnqLoadHead
  <2>2. CASE EnqFill(t) \/ EnqTestFull(t) \/ EnqClose(t) \/ EnqLink(t) \/ EnqSwing(t)
    BY <1>0, <2>2 DEF EnqFill, EnqTestFull, EnqClose, EnqLink, EnqSwing, Finish
  <2> QED BY <1>1, <2>1, <2>2 DEF EnqStep
<1>2. CASE DeqStep(t)
  <2> USE DEF DeqLabels, InCall
  <2>1. CASE DeqCall(t) \/ DeqLoadFirst(t) \/ DeqTakePlace(t) \/ DeqLoadTail(t)
             \/ DeqLoadNext(t) \/ DeqRecheckTail(t) \/ DeqMoveFirst(t)
    BY <1>0, <2>1 DEF DeqCall, DeqLoadFirst, DeqTakePlace, TakePlace, DeqLoadTail,
                DeqLoadNext, LoadNext, DeqRecheckTail, DeqMoveFirst, Finish
  <2>2. CASE DeqTake(t) \/ DeqMarkUnsafe(t) \/ DeqSkip(t)
    BY <1>0, <2>2 DEF DeqTake, DeqMarkUnsafe, DeqSkip, Finish, InnerRetry
  <2>3. CASE DeqLoadCell(t)
    <3>1. PICK c : c = MyCell(t)
      OBVIOUS
    <3>2. /\ pc[t] = "d_cell"
          /\ Goto(t, CASE c.idx > loc[t].t -> "d_tail"
                       [] c.idx <= loc[t].t /\ c.val = Null -> "d_skip"
                       [] c.idx = loc[t].t /\ c.val # Null -> "d_take"
                       [] c.idx < loc[t].t /\ c.val # Null -> "d_mark")
      BY <2>3, <3>1, Zenon DEF DeqLoadCell
    <3>3. c.idx \in Nat /\ loc[t].t \in Nat
      BY <3>1, <3>2, OwnRing DEF RingLabels, CellType, LocalType
    <3>4. \E l \in {"d_tail", "d_skip", "d_take", "d_mark"} : Goto(t, l)
      BY <3>2, <3>3, SMT
    <3> QED BY <3>2, <3>4
  <2> QED BY <1>2, <2>1, <2>2, <2>3 DEF DeqStep
<1>3. CASE FixStep(t)
  <2> USE DEF DeqLabels, InCall
  <2> QED BY <1>3 DEF FixStep, FixLoadTail, FixLoadHead, FixCheck, FixMoveTail, FixRetry
<1> QED BY <1>1, <1>2, <1>3 DEF Step

-----------------------------------------------------------------------------
\* What a step of t leaves alone: the other threads.
LEMMA OthersStay ==
    ASSUME TypeOK, ChainOfRings, LocalsOK, OnChain, NEW t \in Threads, Step(t)
    PROVE  \A u \in Threads \ {t} : pc'[u] = pc[u] /\ ip'[u] = ip[u] /\ loc'[u] = loc[u]
<1>1. \E l, i : pc' = [pc EXCEPT ![t] = l] /\ ip' = [ip EXCEPT ![t] = i]
  <2>1. CASE ip' = ip /\ \E l : pc' = [pc EXCEPT ![t] = l]
    <3>1. ip' = [ip EXCEPT ![t] = ip[t]]
      BY <2>1, Typed, Zenon
    <3> QED BY <3>1, <2>1
  <2>2. CASE Invoke(t, "enq", "e_last") \/ Invoke(t, "deq", "d_first")
    BY <2>2, Zenon DEF Invoke
  <2>3. CASE \E r \in Results : Return(t, r)
    BY <2>3, <2>1, Zenon DEF Return
  <2>4. CASE \E l : Goto(t, l)
    BY <2>4, <2>1, Zenon DEF Goto
  <2>5. ASSUME NEW l, Retry(t, l)
        PROVE  ip' = ip /\ \E k : pc' = [pc EXCEPT ![t] = k]
    <3>1. ip' = ip
      BY <2>5, Zenon DEF Retry
    <3> QED BY <3>1, <2>5, RetryMoves, Zenon
  <2> QED BY <2>1, <2>2, <2>3, <2>4, <2>5, Moves, Zenon
<1>2. \E l : loc' = [loc EXCEPT ![t] = l]
  <2>1. CASE loc' = loc
    <3>1. loc' = [loc EXCEPT ![t] = loc[t]]
      BY <2>1, Zenon DEF LocalsOK
    <3> QED BY <3>1
  <2>2. CASE \E l : SetLocal(t, l)
    BY <2>2 DEF SetLocal
  <2>3. loc' = loc \/ \E l : SetLocal(t, l)
    <3>1. CASE EnqStep(t)
      BY <3>1, Zenon DEF EnqStep, EnqCall, EnqLoadLast, EnqLoadNext, EnqHelp, EnqTakePlace,
         EnqLoadIndex, EnqLoadValue, EnqLoadHead, EnqFill, EnqTestFull, EnqClose, EnqLink,
         EnqSwing, Finish
    <3>2. CASE DeqStep(t)
      BY <3>2, Zenon DEF DeqStep, DeqCall, DeqLoadFirst, DeqTakePlace, TakePlace, DeqLoadCell,
         DeqTake, DeqMarkUnsafe, DeqSkip, DeqLoadTail, DeqLoadNext, LoadNext, DeqRecheckTail,
         DeqMoveFirst, Finish
    <3>3. CASE FixStep(t)
      BY <3>3, Zenon DEF FixStep, FixLoadTail, FixLoadHead, FixCheck, FixMoveTail, FixRetry
    <3> QED BY <3>1, <3>2, <3>3 DEF Step
  <2> QED BY <2>1, <2>2, <2>3
<1> QED BY <1>1, <1>2, Typed, Zenon DEF LocalsOK

\* The calls keep their types and kinds.
LEMMA CallsGoOn ==
    ASSUME TypeOK, ChainOfRings, LocalsOK, OnChain, InOwnCall, NEW t \in Threads, Step(t)
    PROVE  ClientTypeOK(Labels)' /\ InOwnCall'
<1>0. ClientTypeOK(Labels) /\ InCallOf(EnqLabels, DeqLabels)
  BY DEF TypeOK, InOwnCall
<1>l. /\ EnqLabels \cap DeqLabels = {} /\ EnqLabels \subseteq Labels /\ DeqLabels \subseteq Labels
      /\ "e_last" \in EnqLabels /\ "d_first" \in DeqLabels
      /\ \A l \in {"idle", "blocked"} : ~(l \in Labels)
  BY DEF EnqLabels, DeqLabels, Labels
<1>s. ASSUME NEW l, pc' = [pc EXCEPT ![t] = l], ip' = ip, ~(l \in Labels)
      PROVE  InOwnCall'
  BY <1>0, <1>l, <1>s, CallGoesOn DEF InOwnCall
<1>1. CASE Invoke(t, "enq", "e_last")
  BY <1>0, <1>1, <1>l, InvokeType, CallBegins DEF InOwnCall
<1>2. CASE Invoke(t, "deq", "d_first")
  BY <1>0, <1>2, <1>l, InvokeType, CallBegins DEF InOwnCall
<1>3. ASSUME NEW r \in Results, Return(t, r) PROVE ClientTypeOK(Labels)' /\ InOwnCall'
  <2>1. InOwnCall'
    BY <1>3, <1>s, <1>l DEF Return
  <2> QED BY <2>1, <1>0, <1>3, ReturnType
<1>4. ASSUME InCall(t), Goto(t, "blocked") PROVE ClientTypeOK(Labels)' /\ InOwnCall'
  <2>1. InOwnCall'
    BY <1>4, <1>s, <1>l DEF Goto
  <2> QED BY <2>1, <1>0, <1>4, StopType
<1>5. ASSUME NEW L \in {EnqLabels, DeqLabels}, pc[t] \in L, InCall(t), NEW l \in L,
             Goto(t, l) \/ Retry(t, l)
      PROVE  ClientTypeOK(Labels)' /\ InOwnCall'
  <2>1. l \in Labels
    BY <1>5, <1>l
  <2>2. ClientTypeOK(Labels)'
    BY <2>1, <1>0, <1>5, GotoType, RetryType
  <2>3. ip' = ip /\ \E k \in {l, "blocked"} : pc' = [pc EXCEPT ![t] = k]
    <3>1. CASE Goto(t, l)
      BY <3>1 DEF Goto
    <3>2. CASE Retry(t, l)
      BY <3>2, RetryMoves DEF Retry
    <3> QED BY <3>1, <3>2, <1>5
  <2>4. PICK k \in {l, "blocked"} : pc' = [pc EXCEPT ![t] = k]
    BY <2>3
  <2>5. k \in EnqLabels => pc[t] \in EnqLabels
    BY <1>5, <1>l
  <2>6. k \in DeqLabels => pc[t] \in DeqLabels
    BY <1>5, <1>l
  <2>7. InOwnCall'
    BY <2>3, <2>4, <2>5, <2>6, <1>0, CallGoesOn DEF InOwnCall
  <2> QED BY <2>2, <2>7
<1> QED BY <1>1, <1>2, <1>3, <1>4, <1>5, <1>l, Moves, Zenon

-----------------------------------------------------------------------------
\* What a step does to the rings: it changes one ring of the chain or none, or
\* appends one.

\* What t writes to its cell, and what it may make of its ring.
CellChange(t, d) ==
    \/ pc[t] = "e_cas" /\ d = Cell(Current(t).val, loc[t].t, FALSE)
    \/ /\ pc[t] \in {"d_take", "d_skip"}
       /\ d = Cell(Null, loc[t].t + RingSize, loc[t].cell.unsafe)
    \/ pc[t] = "d_mark" /\ d = [loc[t].cell EXCEPT !.unsafe = TRUE]

RingChange(t, R) ==
    /\ R \in RingType
    /\ R.head = My(t).head \/ (pc[t] = "d_faa" /\ R.head = My(t).head + 1)
    /\ R.tail >= My(t).tail
    /\ My(t).closed => R.closed
    /\ R.next = My(t).next
    /\ \A s \in Places :
          \/ R.array[s] = My(t).array[s]
          \/ s = Place(t) /\ MyCell(t) = loc[t].cell /\ CellChange(t, R.array[s])

RingChanges(t) ==
    /\ pc[t] \in RingLabels /\ used' = used
    /\ \E R : ring' = [ring EXCEPT ![loc[t].rq] = R] /\ RingChange(t, R)

RingAppended(t) ==
    /\ pc[t] = "e_link" /\ My(t).next = NoRing /\ used < MaxRings /\ used' = used + 1
    /\ \E R, S : /\ ring' = [ring EXCEPT ![loc[t].rq] = R, ![used + 1] = S]
                 /\ R = [My(t) EXCEPT !.next = used + 1]
                 /\ S = SoloRing(Current(t).val)

LEMMA CasMeans ==
    ASSUME NEW a, NEW b, TRUE \in CasOutcomes(a, b)
    PROVE  a = b
BY DEF CasOutcomes

LEMMA RingEffect ==
    ASSUME TypeOK, ChainOfRings, LocalsOK, OnChain, InOwnCall, NEW t \in Threads, Step(t)
    PROVE  (ring' = ring /\ used' = used) \/ RingChanges(t) \/ RingAppended(t)
<1> DEFINE Q == My(t)
<1>0. pc[t] \in RingLabels =>
         /\ loc[t].rq \in Rings /\ Q \in RingType /\ loc[t] \in LocalType
         /\ Place(t) \in Places /\ ring \in [Rings -> RingType] /\ Q = ring[loc[t].rq]
  BY OwnRing, Typed DEF My
<1>l. pc[t] \in {"e_faa", "d_faa", "e_close", "f_cas", "e_cas", "d_take", "d_skip", "d_mark"}
      => pc[t] \in RingLabels
  BY DEF RingLabels, EnqLabels, DeqLabels
<1>c. ASSUME NEW c \in CellType, TRUE \in CasOutcomes(MyCell(t), loc[t].cell),
             SetCell(t, c), CellChange(t, c), used' = used
      PROVE  RingChanges(t)
  <2> DEFINE R == [Q EXCEPT !.array[Place(t)] = c]
  <2>0. pc[t] \in RingLabels
    BY <1>c, <1>l, Zenon DEF CellChange
  <2>1. MyCell(t) = loc[t].cell
    BY <1>c, CasMeans
  <2>2. ring' = [ring EXCEPT ![loc[t].rq] = R]
    BY <1>c, <1>0, <2>0 DEF SetCell
  <2>3. /\ R \in RingType /\ R.head = Q.head /\ R.tail = Q.tail /\ R.closed = Q.closed
        /\ R.next = Q.next /\ R.array = [Q.array EXCEPT ![Place(t)] = c]
        /\ Q.tail \in Nat /\ Q.array \in [Places -> CellType]
    BY <1>0, <2>0 DEF RingType
  <2> HIDE DEF R
  <2>4. \A s \in Places : R.array[s] = Q.array[s] \/ (s = Place(t) /\ R.array[s] = c)
    BY <2>3, Zenon
  <2>5. R.tail >= Q.tail
    BY <2>3, SMT
  <2>6. RingChange(t, R)
    BY <1>c, <2>1, <2>3, <2>4, <2>5, Zenon DEF RingChange
  <2> QED BY <1>c, <2>0, <2>2, <2>6 DEF RingChanges
<1>1. CASE EnqFill(t)
  <2>1. /\ pc[t] = "e_cas" /\ used' = used
        /\ \E ok \in CasOutcomes(MyCell(t), loc[t].cell) :
              IF ok THEN SetCell(t, Cell(Current(t).val, loc[t].t, FALSE)) ELSE ring' = ring
    BY <1>1, Zenon DEF EnqFill
  <2>2. Cell(Current(t).val, loc[t].t, FALSE) \in CellType
    <3>1. Current(t) \in Calls
      BY <2>1, CurrentIsCall DEF TypeOK, InCall
    <3> QED BY <3>1, <1>0, <1>l, <2>1 DEF Calls, Cell, CellType, LocalType
  <2> QED BY <2>1, <2>2, <1>c, Zenon DEF CasOutcomes, CellChange
<1>2. CASE DeqTake(t) \/ DeqSkip(t)
  <2>1. /\ pc[t] \in {"d_take", "d_skip"} /\ used' = used
        /\ \E ok \in CasOutcomes(MyCell(t), loc[t].cell) :
              IF ok THEN SetCell(t, Cell(Null, loc[t].t + RingSize, loc[t].cell.unsafe))
              ELSE ring' = ring
    BY <1>2, Zenon DEF DeqTake, DeqSkip, NextLap, Keep
  <2>2. Cell(Null, loc[t].t + RingSize, loc[t].cell.unsafe) \in CellType
    BY <1>0, <1>l, <2>1, RingAssumption DEF Cell, CellType, LocalType, Payloads
  <2> QED BY <2>1, <2>2, <1>c, Zenon DEF CasOutcomes, CellChange
<1>3. CASE DeqMarkUnsafe(t)
  <2>1. /\ pc[t] = "d_mark" /\ used' = used
        /\ \E ok \in CasOutcomes(MyCell(t), loc[t].cell) :
              IF ok THEN SetCell(t, [loc[t].cell EXCEPT !.unsafe = TRUE])
              ELSE ring' = ring
    BY <1>3, Zenon DEF DeqMarkUnsafe
  <2>2. [loc[t].cell EXCEPT !.unsafe = TRUE] \in CellType
    BY <1>0, <1>l, <2>1 DEF CellType, LocalType
  <2> QED BY <2>1, <2>2, <1>c, Zenon DEF CasOutcomes, CellChange
<1>r. ASSUME NEW R, pc[t] \in RingLabels, ring' = [ring EXCEPT ![loc[t].rq] = R],
             R \in RingType, used' = used,
             R.head = Q.head \/ (pc[t] = "d_faa" /\ R.head = Q.head + 1),
             R.tail >= Q.tail, Q.closed => R.closed, R.next = Q.next, R.array = Q.array
      PROVE  RingChanges(t)
  BY <1>r, Zenon DEF RingChanges, RingChange
<1>4. CASE EnqTakePlace(t)
  <2> DEFINE R == [Q EXCEPT !.tail = @ + 1]
  <2>1. /\ pc[t] \in RingLabels /\ used' = used /\ ring' = [ring EXCEPT ![loc[t].rq].tail = @ + 1]
    BY <1>4, <1>l DEF EnqTakePlace
  <2>2. ring' = [ring EXCEPT ![loc[t].rq] = R]
    BY <2>1, <1>0
  <2>3. /\ R \in RingType /\ R.head = Q.head /\ R.tail >= Q.tail /\ R.closed = Q.closed
        /\ R.next = Q.next /\ R.array = Q.array
    BY <1>0, <2>1 DEF RingType
  <2> QED BY <2>1, <2>2, <2>3, <1>r
<1>5. CASE DeqTakePlace(t)
  <2> DEFINE R == [Q EXCEPT !.head = @ + 1]
  <2>1. /\ pc[t] = "d_faa" /\ used' = used /\ ring' = [ring EXCEPT ![loc[t].rq].head = @ + 1]
    BY <1>5 DEF DeqTakePlace, TakePlace
  <2>2. ring' = [ring EXCEPT ![loc[t].rq] = R]
    BY <2>1, <1>0, <1>l
  <2>3. /\ R \in RingType /\ R.head = Q.head + 1 /\ R.tail >= Q.tail /\ R.closed = Q.closed
        /\ R.next = Q.next /\ R.array = Q.array
    BY <1>0, <1>l, <2>1 DEF RingType
  <2> QED BY <2>1, <2>2, <2>3, <1>r, <1>l
<1>6. CASE EnqClose(t)
  <2> DEFINE R == [Q EXCEPT !.closed = TRUE]
  <2>1. /\ pc[t] = "e_close" /\ used' = used
        /\ ring' = ring \/ ring' = [ring EXCEPT ![loc[t].rq].closed = TRUE]
    BY <1>6, Zenon DEF EnqClose
  <2>2. CASE ring' = [ring EXCEPT ![loc[t].rq].closed = TRUE]
    <3>1. ring' = [ring EXCEPT ![loc[t].rq] = R]
      BY <2>1, <2>2, <1>0, <1>l
    <3>2. /\ R.head = Q.head /\ R.tail = Q.tail /\ R.next = Q.next /\ R.array = Q.array
          /\ Q.tail \in Nat
      BY <1>0, <1>l, <2>1 DEF RingType
    <3>3. R.closed = TRUE
      BY <1>0, <1>l, <2>1, Zenon DEF RingType
    <3>4. R \in RingType
      BY <1>0, <1>l, <2>1, Zenon DEF RingType
    <3>5. R.tail >= Q.tail
      BY <3>2, SMT
    <3> HIDE DEF R
    <3> QED BY <2>1, <3>1, <3>2, <3>3, <3>4, <3>5, <1>r, <1>l
  <2> QED BY <2>1, <2>2
<1>7. CASE FixMoveTail(t)
  <2> DEFINE R == [Q EXCEPT !.tail = loc[t].fh, !.closed = FALSE]
  <2>1. /\ pc[t] = "f_cas" /\ used' = used
        /\ \/ ring' = ring
           \/ /\ TailWord(Q) = loc[t].ft
              /\ ring' = [ring EXCEPT ![loc[t].rq].tail = loc[t].fh, ![loc[t].rq].closed = FALSE]
    <3>1. /\ pc[t] = "f_cas" /\ used' = used
          /\ \E ok \in CasOutcomes(TailWord(Q), loc[t].ft) :
                IF ok THEN ring' = [ring EXCEPT ![loc[t].rq].tail = loc[t].fh,
                                                ![loc[t].rq].closed = FALSE]
                ELSE ring' = ring
      BY <1>7 DEF FixMoveTail
    <3>2. PICK ok \in CasOutcomes(TailWord(Q), loc[t].ft) :
             IF ok THEN ring' = [ring EXCEPT ![loc[t].rq].tail = loc[t].fh,
                                             ![loc[t].rq].closed = FALSE]
             ELSE ring' = ring
      BY <3>1
    <3>3. ok \in {FALSE} \/ TailWord(Q) = loc[t].ft
      BY Zenon DEF CasOutcomes
    <3> QED BY <3>1, <3>2, <3>3, Zenon
  <2>2. CASE /\ TailWord(Q) = loc[t].ft
             /\ ring' = [ring EXCEPT ![loc[t].rq].tail = loc[t].fh, ![loc[t].rq].closed = FALSE]
    <3>1. ring' = [ring EXCEPT ![loc[t].rq] = R]
      BY <2>1, <2>2, <1>0, <1>l
    <3>2. ~loc[t].ft.closed /\ loc[t].ft.tail < loc[t].fh /\ loc[t].fh \in Nat
      BY <2>1, <1>0, <1>l DEF OnChain, LocalType
    <3>3. ~Q.closed /\ Q.tail < loc[t].fh
      BY <2>2, <3>2 DEF TailWord
    <3>4. /\ R.head = Q.head /\ R.tail = loc[t].fh /\ R.next = Q.next /\ R.array = Q.array
          /\ Q.tail \in Nat
      BY <1>0, <1>l, <2>1 DEF RingType
    <3>5. R.tail >= Q.tail
      BY <3>2, <3>3, <3>4, SMT
    <3>6. R \in RingType
      BY <1>0, <1>l, <2>1, <3>2, Zenon DEF RingType
    <3> HIDE DEF R
    <3> QED BY <2>1, <3>1, <3>3, <3>4, <3>5, <3>6, <1>r, <1>l
  <2> QED BY <2>1, <2>2
<1>8. CASE EnqLink(t)
  <2>1. /\ pc[t] = "e_link" /\ used < MaxRings
        /\ \E ok \in CasOutcomes(My(t).next, NoRing) :
             IF ok THEN /\ used' = used + 1
                        /\ ring' = [ring EXCEPT ![loc[t].rq].next = used',
                                                ![used'] = SoloRing(Current(t).val)]
             ELSE used' = used /\ ring' = ring
    BY <1>8, Zenon DEF EnqLink
  <2>2. CASE /\ My(t).next = NoRing /\ used' = used + 1
             /\ ring' = [ring EXCEPT ![loc[t].rq].next = used + 1,
                                     ![used + 1] = SoloRing(Current(t).val)]
    <3>1. ring' = [ring EXCEPT ![loc[t].rq] = [My(t) EXCEPT !.next = used + 1],
                               ![used + 1] = SoloRing(Current(t).val)]
      BY <2>1, <2>2, <1>0 DEF RingLabels, EnqLabels
    <3> QED BY <2>1, <2>2, <3>1 DEF RingAppended
  <2> QED BY <2>1, <2>2, CasMeans, Zenon
<1>9. CASE UNCHANGED <<ring, used>>
  BY <1>9
<1>10. \/ UNCHANGED <<ring, used>>
       \/ EnqFill(t) \/ DeqTake(t) \/ DeqSkip(t) \/ DeqMarkUnsafe(t) \/ EnqTakePlace(t)
       \/ DeqTakePlace(t) \/ EnqClose(t) \/ FixMoveTail(t) \/ EnqLink(t)
  <2>1. CASE EnqStep(t)
    BY <2>1, Zenon DEF EnqStep, EnqCall, EnqLoadLast, EnqLoadNext, EnqHelp, EnqLoadIndex,
         EnqLoadValue, EnqLoadHead, EnqTestFull, EnqSwing, shared
  <2>2. CASE DeqStep(t)
    BY <2>2, Zenon DEF DeqStep, DeqCall, DeqLoadFirst, DeqLoadCell, DeqLoadTail, DeqLoadNext,
         LoadNext, DeqRecheckTail, DeqMoveFirst, shared
  <2>3. CASE FixStep(t)
    BY <2>3, Zenon DEF FixStep, FixLoadTail, FixLoadHead, FixCheck, shared
  <2> QED BY <2>1, <2>2, <2>3 DEF Step
<1> QED BY <1>1, <1>2, <1>3, <1>4, <1>5, <1>6, <1>7, <1>8, <1>9, <1>10

\* The cell s of ring r after a step of t.
CellStep(t, r, s) ==
    LET c == ring[r].array[s]
        d == ring'[r].array[s]
    IN  d = c \/ (r = loc[t].rq /\ s = Place(t) /\ c = loc[t].cell /\ CellChange(t, d))

\* The rings of the chain only grow, and a new one holds one item.
RingStep(t, r) ==
    /\ ring'[r].head = ring[r].head
       \/ (pc[t] = "d_faa" /\ r = loc[t].rq /\ ring'[r].head = ring[r].head + 1)
    /\ ring'[r].tail >= ring[r].tail
    /\ ring[r].closed => ring'[r].closed
    /\ ring'[r].next = ring[r].next \/ (RingAppended(t) /\ r = loc[t].rq /\ ring'[r].next = used')
    /\ \A s \in Places : CellStep(t, r, s)

LEMMA RingsGrow ==
    ASSUME TypeOK, ChainOfRings, LocalsOK, OnChain, InOwnCall, NEW t \in Threads, Step(t)
    PROVE  /\ ring' \in [Rings -> RingType] /\ used' \in Rings
           /\ \A r \in 1 .. used : RingStep(t, r)
           /\ used' = used \/ (/\ RingAppended(t) /\ used' = used + 1
                              /\ ring'[used'] = SoloRing(Current(t).val)
                              /\ Current(t).val \in Payloads)
<1>0. /\ ring \in [Rings -> RingType] /\ used \in Rings /\ 1 .. used \subseteq Rings
      /\ MaxRings \in Nat \ {0}
  BY Typed, RingAssumption, SMT DEF Rings
<1>h. \A r \in 1 .. used : ring[r].head \in Nat /\ ring[r].tail \in Nat
  BY <1>0 DEF RingType
<1>1. CASE ring' = ring /\ used' = used
  <2>1. ASSUME NEW r \in 1 .. used PROVE RingStep(t, r)
    <3>1. ring[r].tail >= ring[r].tail
      BY <1>h, SMT
    <3> QED BY <1>1, <3>1, Zenon DEF RingStep, CellStep
  <2> QED BY <1>0, <1>1, <2>1
<1>2. CASE RingChanges(t)
  <2>1. PICK R : ring' = [ring EXCEPT ![loc[t].rq] = R] /\ RingChange(t, R)
    BY <1>2 DEF RingChanges
  <2>2. used' = used /\ R \in RingType /\ loc[t].rq \in Rings
    BY <1>2, <2>1, OwnRing DEF RingChanges, RingChange
  <2>3. ring' \in [Rings -> RingType]
    BY <1>0, <2>1, <2>2, Zenon
  <2>4. ASSUME NEW r \in 1 .. used PROVE RingStep(t, r)
    <3>1. CASE r = loc[t].rq
      <4>1. ring'[r] = R /\ ring[r] = My(t)
        BY <3>1, <1>0, <2>1, <2>2, Zenon DEF My
      <4> QED BY <4>1, <3>1, <2>1, Zenon DEF RingStep, CellStep, RingChange, MyCell
    <3>2. CASE r # loc[t].rq
      <4>1. ring'[r] = ring[r]
        BY <3>2, <1>0, <2>1, <2>2, Zenon
      <4>2. ring[r].tail >= ring[r].tail
        BY <1>h, SMT
      <4> QED BY <4>1, <4>2, Zenon DEF RingStep, CellStep
    <3> QED BY <3>1, <3>2
  <2> QED BY <2>2, <2>3, <2>4, <1>0
<1>3. CASE RingAppended(t)
  <2>1. PICK R, S : /\ ring' = [ring EXCEPT ![loc[t].rq] = R, ![used + 1] = S]
                    /\ R = [My(t) EXCEPT !.next = used + 1]
                    /\ S = SoloRing(Current(t).val)
    BY <1>3 DEF RingAppended
  <2>2. /\ pc[t] = "e_link" /\ used < MaxRings /\ used' = used + 1
        /\ loc[t].rq \in 1 .. used /\ My(t) \in RingType
    BY <1>3, OwnRing DEF RingAppended, RingLabels, EnqLabels
  <2>3. used' \in Rings /\ ~(used + 1 \in 1 .. used)
    BY <1>0, <2>2, SMT DEF Rings
  <2>4. Current(t).val \in Payloads
    <3>1. Current(t) \in Calls
      BY <2>2, CurrentIsCall DEF TypeOK, InCall
    <3> QED BY <3>1 DEF Calls
  <2>5. S \in RingType
    <3>1. \A s \in Places : s \in Nat
      BY RingAssumption, SMT DEF Places
    <3>2. [s \in Places |-> Cell(Null, s, FALSE)] \in [Places -> CellType]
      BY <3>1 DEF Cell, CellType, Payloads
    <3>3. Cell(Current(t).val, 0, FALSE) \in CellType
      BY <2>4 DEF Cell, CellType
    <3>4. EmptyRing \in RingType
      BY <3>2 DEF EmptyRing, RingType
    <3> QED BY <3>3, <3>4, <2>1 DEF SoloRing, RingType
  <2>6. R \in RingType
    BY <2>1, <2>2, <2>3 DEF RingType
  <2>7. ring' \in [Rings -> RingType]
    BY <1>0, <2>1, <2>5, <2>6, Zenon
  <2>8. ASSUME NEW r \in 1 .. used PROVE RingStep(t, r)
    <3>1. r # used + 1 /\ ring[r].tail >= ring[r].tail
      BY <2>3, <1>h, SMT
    <3>2. CASE r = loc[t].rq
      <4>1. ring'[r] = R /\ ring[r] = My(t)
        BY <3>1, <3>2, <1>0, <2>1, Zenon DEF My
      <4>2. /\ R.head = My(t).head /\ R.tail = My(t).tail /\ R.closed = My(t).closed
            /\ R.array = My(t).array /\ R.next = used + 1
        BY <2>1, <2>2, Zenon DEF RingType
      <4> QED BY <3>1, <3>2, <4>1, <4>2, <1>3, <2>2, Zenon DEF RingStep, CellStep
    <3>3. CASE r # loc[t].rq
      <4>1. ring'[r] = ring[r]
        BY <3>1, <3>3, <1>0, <2>1, Zenon
      <4> QED BY <3>1, <4>1, Zenon DEF RingStep, CellStep
    <3> QED BY <3>2, <3>3
  <2>9. ring'[used'] = S
    BY <1>0, <2>1, <2>2, <2>3, Zenon
  <2> QED BY <1>3, <2>1, <2>2, <2>3, <2>4, <2>7, <2>8, <2>9
<1> QED BY <1>1, <1>2, <1>3, RingEffect

LEMMA LocalsStay ==
    ASSUME TypeOK, ChainOfRings, LocalsOK, OnChain, NEW t \in Threads, Step(t)
    PROVE  LocalsOK'
<1>0. /\ loc \in [Threads -> LocalType] /\ loc[t] \in LocalType
      /\ first \in Rings /\ last \in Rings /\ used \in Rings /\ ring \in [Rings -> RingType]
  BY Typed DEF LocalsOK
<1>1. NoLocals \in LocalType
  BY DEF NoLocals, LocalType, RingOrNone, Cell, CellType, Payloads
<1>2. pc[t] \in RingLabels =>
         /\ My(t).head \in Nat /\ My(t).tail \in Nat /\ My(t).next \in RingOrNone
         /\ MyCell(t) \in CellType /\ TailWord(My(t)) \in [tail : Nat, closed : BOOLEAN]
  BY OwnRing DEF RingType, TailWord, RingOrNone
<1>3. ASSUME NEW l, SetLocal(t, l), l \in LocalType PROVE LocalsOK'
  BY <1>0, <1>3, Zenon DEF SetLocal, LocalsOK
<1>4. CASE EnqStep(t)
  <2>l. pc[t] \in {"e_next", "e_faa", "e_idx", "e_link"} => pc[t] \in RingLabels
    BY DEF RingLabels, EnqLabels
  <2>1. CASE UNCHANGED loc
    BY <1>0, <2>1 DEF LocalsOK
  <2>2. CASE EnqLoadLast(t)
    <3>1. [NoLocals EXCEPT !.rq = last] \in LocalType
      BY <1>0, <1>1 DEF LocalType, RingOrNone
    <3> QED BY <2>2, <3>1, <1>3 DEF EnqLoadLast
  <2>3. CASE EnqLoadNext(t)
    <3>1. pc[t] = "e_next" /\ SetLocal(t, [loc[t] EXCEPT !.next = My(t).next])
      BY <2>3 DEF EnqLoadNext
    <3>2. [loc[t] EXCEPT !.next = My(t).next] \in LocalType
      BY <1>0, <1>2, <2>l, <3>1 DEF LocalType
    <3> QED BY <3>1, <3>2, <1>3
  <2>4. CASE EnqTakePlace(t)
    <3>1. pc[t] = "e_faa" /\ SetLocal(t, [loc[t] EXCEPT !.t = My(t).tail])
      BY <2>4 DEF EnqTakePlace
    <3>2. [loc[t] EXCEPT !.t = My(t).tail] \in LocalType
      BY <1>0, <1>2, <2>l, <3>1 DEF LocalType
    <3> QED BY <3>1, <3>2, <1>3
  <2>5. CASE EnqLoadIndex(t)
    <3>1. pc[t] = "e_idx" /\ SetLocal(t, [loc[t] EXCEPT !.cell = [MyCell(t) EXCEPT !.val = Null]])
      BY <2>5 DEF EnqLoadIndex
    <3>2. [MyCell(t) EXCEPT !.val = Null] \in CellType
      BY <1>2, <2>l, <3>1 DEF CellType, Payloads
    <3>3. [loc[t] EXCEPT !.cell = [MyCell(t) EXCEPT !.val = Null]] \in LocalType
      BY <1>0, <3>2 DEF LocalType
    <3> QED BY <3>1, <3>3, <1>3
  <2>6. CASE EnqFill(t) \/ EnqSwing(t)
    <3>1. loc' = loc \/ SetLocal(t, NoLocals)
      BY <2>6 DEF EnqFill, EnqSwing, Finish
    <3> QED BY <3>1, <2>1, <1>1, <1>3
  <2>7. CASE EnqLink(t)
    <3>1. loc' = loc \/ (SetLocal(t, [loc[t] EXCEPT !.next = used + 1]) /\ used < MaxRings)
      BY <2>7 DEF EnqLink
    <3>2. used < MaxRings => used + 1 \in RingOrNone
      BY <1>0, RingAssumption, SMT DEF Rings, RingOrNone
    <3>3. used < MaxRings => [loc[t] EXCEPT !.next = used + 1] \in LocalType
      BY <1>0, <3>2 DEF LocalType
    <3> QED BY <3>1, <3>3, <2>1, <1>3
  <2>8. UNCHANGED loc \/ EnqLoadLast(t) \/ EnqLoadNext(t) \/ EnqTakePlace(t) \/ EnqLoadIndex(t)
        \/ EnqFill(t) \/ EnqSwing(t) \/ EnqLink(t)
    BY <1>4, Zenon DEF EnqStep, EnqCall, EnqHelp, EnqLoadValue, EnqLoadHead, EnqTestFull, EnqClose
  <2> QED BY <2>1, <2>2, <2>3, <2>4, <2>5, <2>6, <2>7, <2>8
<1>5. CASE DeqStep(t)
  <2>l. pc[t] \in {"d_faa", "d_cell", "d_next"} => pc[t] \in RingLabels
    BY DEF RingLabels, DeqLabels
  <2>1. CASE UNCHANGED loc
    BY <1>0, <2>1 DEF LocalsOK
  <2>2. CASE DeqLoadFirst(t)
    <3>1. [NoLocals EXCEPT !.rq = first] \in LocalType
      BY <1>0, <1>1 DEF LocalType, RingOrNone
    <3> QED BY <2>2, <3>1, <1>3 DEF DeqLoadFirst
  <2>3. CASE DeqTakePlace(t)
    <3>1. pc[t] = "d_faa" /\ SetLocal(t, [loc[t] EXCEPT !.t = My(t).head])
      BY <2>3 DEF DeqTakePlace, TakePlace
    <3>2. [loc[t] EXCEPT !.t = My(t).head] \in LocalType
      BY <1>0, <1>2, <2>l, <3>1 DEF LocalType
    <3> QED BY <3>1, <3>2, <1>3
  <2>4. CASE DeqLoadCell(t)
    <3>1. pc[t] = "d_cell" /\ SetLocal(t, [loc[t] EXCEPT !.cell = MyCell(t)])
      BY <2>4, Zenon DEF DeqLoadCell
    <3>2. [loc[t] EXCEPT !.cell = MyCell(t)] \in LocalType
      BY <1>0, <1>2, <2>l, <3>1 DEF LocalType
    <3> QED BY <3>1, <3>2, <1>3
  <2>5. CASE DeqTake(t) \/ DeqLoadNext(t)
    <3>1. \/ loc' = loc \/ SetLocal(t, NoLocals)
          \/ pc[t] = "d_next" /\ SetLocal(t, [loc[t] EXCEPT !.next = My(t).next])
      BY <2>5 DEF DeqTake, DeqLoadNext, LoadNext, Finish
    <3>2. pc[t] = "d_next" => [loc[t] EXCEPT !.next = My(t).next] \in LocalType
      BY <1>0, <1>2, <2>l DEF LocalType
    <3> QED BY <3>1, <3>2, <2>1, <1>1, <1>3
  <2>6. UNCHANGED loc \/ DeqLoadFirst(t) \/ DeqTakePlace(t) \/ DeqLoadCell(t) \/ DeqTake(t)
        \/ DeqLoadNext(t)
    BY <1>5, Zenon DEF DeqStep, DeqCall, DeqMarkUnsafe, DeqSkip, DeqLoadTail, DeqRecheckTail,
       DeqMoveFirst
  <2> QED BY <2>1, <2>2, <2>3, <2>4, <2>5, <2>6
<1>6. CASE FixStep(t)
  <2>l. pc[t] \in {"f_tail", "f_head"} => pc[t] \in RingLabels
    BY DEF RingLabels, DeqLabels
  <2>1. \/ loc' = loc
        \/ pc[t] = "f_tail" /\ SetLocal(t, [loc[t] EXCEPT !.ft = TailWord(My(t))])
        \/ pc[t] = "f_head" /\ SetLocal(t, [loc[t] EXCEPT !.fh = My(t).head])
        \/ SetLocal(t, [loc[t] EXCEPT !.fixes = @ + 1])
    BY <1>6 DEF FixStep, FixLoadTail, FixLoadHead, FixCheck, FixMoveTail, FixRetry
  <2>2. pc[t] = "f_tail" => [loc[t] EXCEPT !.ft = TailWord(My(t))] \in LocalType
    BY <1>0, <1>2, <2>l DEF LocalType
  <2>3. pc[t] = "f_head" => [loc[t] EXCEPT !.fh = My(t).head] \in LocalType
    BY <1>0, <1>2, <2>l DEF LocalType
  <2>4. [loc[t] EXCEPT !.fixes = @ + 1] \in LocalType
    BY <1>0 DEF LocalType
  <2> QED BY <2>1, <2>2, <2>3, <2>4, <1>0, <1>3 DEF LocalsOK
<1> QED BY <1>4, <1>5, <1>6 DEF Step

-----------------------------------------------------------------------------
\* Where a step leads and what the thread that takes it knows then.
LEMMA Lands ==
    ASSUME TypeOK, LocalsOK, NEW t \in Threads
    PROVE  /\ \A l : Goto(t, l) => pc'[t] = l
           /\ \A l : Retry(t, l) => pc'[t] \in {l, "blocked"}
           /\ \A r : Return(t, r) => pc'[t] = "idle"
           /\ \A k, l : Invoke(t, k, l) => pc'[t] = l
           /\ \A l : SetLocal(t, l) => loc'[t] = l
<1>1. \A l : pc' = [pc EXCEPT ![t] = l] => pc'[t] = l
  BY Typed, Zenon
<1>2. \A l : Retry(t, l) => pc'[t] \in {l, "blocked"}
  <2> SUFFICES ASSUME NEW l, Retry(t, l) PROVE pc'[t] \in {l, "blocked"}
    OBVIOUS
  <2> QED BY <1>1, RetryMoves, Zenon
<1>3. \A l : SetLocal(t, l) => loc'[t] = l
  BY Zenon DEF SetLocal, LocalsOK
<1> QED BY <1>1, <1>2, <1>3, Zenon DEF Goto, Return, Invoke

\* The steps of an enqueuer that leave it in its ring.
EnqMove(t) ==
    LET a == pc[t]
        b == pc'[t]
        l == loc[t]
        m == loc'[t]
    IN  /\ m.rq = l.rq
        /\ \/ a = "e_next" /\ b = "e_help" /\ m.next = My(t).next /\ m.next # NoRing
           \/ a = "e_next" /\ b = "e_faa"
           \/ a = "e_faa" /\ b = "e_link" /\ My(t).closed
           \/ /\ a = "e_faa" /\ b = "e_idx" /\ ~My(t).closed
              /\ m.t = My(t).tail /\ ring' = [ring EXCEPT ![l.rq].tail = @ + 1]
           \/ a = "e_idx" /\ b = "e_val" /\ m.t = l.t /\ m.cell = [MyCell(t) EXCEPT !.val = Null]
           \/ a = "e_val" /\ b = "e_head" /\ m = l /\ l.cell.idx <= l.t
           \/ a = "e_val" /\ b = "e_cas" /\ m = l /\ l.cell.idx <= l.t /\ ~l.cell.unsafe
           \/ a = "e_head" /\ b = "e_cas" /\ m = l /\ My(t).head < l.t /\ ring' = ring
           \/ b \in {"e_full", "e_close"}
           \/ a = "e_close" /\ b = "e_link" /\ ring' = [ring EXCEPT ![l.rq].closed = TRUE]
           \/ a = "e_link" /\ b = "e_swing" /\ m.next = used' /\ RingAppended(t)

LEMMA EnqMoves ==
    ASSUME TypeOK, ChainOfRings, LocalsOK, OnChain, NEW t \in Threads, EnqStep(t),
           pc'[t] \in RingLabels
    PROVE  \/ pc'[t] = "e_next" /\ loc'[t].rq = last
           \/ pc[t] \in EnqLabels \ {"e_last"} /\ EnqMove(t)
<1>0. loc[t] \in LocalType /\ ring \in [Rings -> RingType]
  BY Typed DEF LocalsOK
<1> USE <1>0
<1>l. ~("idle" \in RingLabels) /\ ~("blocked" \in RingLabels) /\ ~("e_last" \in RingLabels)
  BY DEF RingLabels, EnqLabels, DeqLabels
<1> DEFINE E == EnqLabels \ {"e_last"}
<1>k. pc[t] \in {"e_next", "e_faa", "e_idx", "e_val", "e_head", "e_cas", "e_full", "e_close",
                 "e_link"} => pc[t] \in E
  BY DEF EnqLabels
<1> HIDE DEF E
<1>1. CASE EnqLoadLast(t)
  <2>1. pc'[t] = "e_next" /\ loc'[t] = [NoLocals EXCEPT !.rq = last]
    BY <1>1, Lands, Zenon DEF EnqLoadLast
  <2> QED BY <2>1 DEF NoLocals
<1>2. CASE EnqLoadNext(t)
  <2>1. /\ pc[t] = "e_next" /\ loc'[t] = [loc[t] EXCEPT !.next = My(t).next]
        /\ pc'[t] = IF My(t).next # NoRing THEN "e_help" ELSE "e_faa"
    BY <1>2, Lands, Zenon DEF EnqLoadNext
  <2>2. loc'[t].rq = loc[t].rq /\ loc'[t].next = My(t).next
    BY <2>1 DEF LocalType
  <2> QED BY <2>1, <2>2, <1>k, Zenon DEF EnqMove, E
<1>3. CASE EnqTakePlace(t)
  <2>1. /\ pc[t] = "e_faa" /\ loc'[t] = [loc[t] EXCEPT !.t = My(t).tail]
        /\ pc'[t] = IF My(t).closed THEN "e_link" ELSE "e_idx"
        /\ ring' = [ring EXCEPT ![loc[t].rq].tail = @ + 1]
    BY <1>3, Lands, Zenon DEF EnqTakePlace
  <2>2. loc'[t].rq = loc[t].rq /\ loc'[t].t = My(t).tail
    BY <2>1 DEF LocalType
  <2> QED BY <2>1, <2>2, <1>k, Zenon DEF EnqMove, E
<1>4. CASE EnqLoadIndex(t)
  <2>1. /\ pc[t] = "e_idx" /\ loc'[t] = [loc[t] EXCEPT !.cell = [MyCell(t) EXCEPT !.val = Null]]
        /\ pc'[t] = "e_val"
    BY <1>4, Lands, Zenon DEF EnqLoadIndex
  <2>2. /\ loc'[t].rq = loc[t].rq /\ loc'[t].t = loc[t].t
        /\ loc'[t].cell = [MyCell(t) EXCEPT !.val = Null]
    BY <2>1 DEF LocalType
  <2> QED BY <2>1, <2>2, <1>k, Zenon DEF EnqMove, E
<1>5. CASE EnqLoadValue(t)
  <2>1. /\ pc[t] = "e_val" /\ loc'[t] = loc[t]
        /\ \/ /\ loc[t].cell.idx <= loc[t].t
              /\ pc'[t] = IF loc[t].cell.unsafe THEN "e_head" ELSE "e_cas"
           \/ pc'[t] = "e_full"
    BY <1>5, Lands, Zenon DEF EnqLoadValue, CellReady
  <2> QED BY <2>1, <1>k, Zenon DEF EnqMove, E
<1>6. CASE EnqLoadHead(t)
  <2>1. /\ pc[t] = "e_head" /\ loc'[t] = loc[t] /\ ring' = ring
        /\ pc'[t] = IF My(t).head < loc[t].t THEN "e_cas" ELSE "e_full"
    BY <1>6, Lands, Zenon DEF EnqLoadHead, shared
  <2> QED BY <2>1, <1>k, Zenon DEF EnqMove, E
<1>7. CASE EnqFill(t) \/ EnqTestFull(t)
  <2>1. /\ pc[t] \in {"e_cas", "e_full"}
        /\ pc'[t] \in {"e_full", "e_close"} /\ loc'[t] = loc[t]
    BY <1>7, <1>l, Lands, Zenon DEF EnqFill, EnqTestFull, Finish
  <2> QED BY <2>1, <1>k, Zenon DEF EnqMove, E
<1>8. CASE EnqClose(t)
  <2>1. /\ pc[t] = "e_close" /\ loc'[t] = loc[t]
        /\ pc'[t] = "e_link" /\ ring' = [ring EXCEPT ![loc[t].rq].closed = TRUE]
    BY <1>8, <1>l, Lands, Zenon DEF EnqClose
  <2> QED BY <2>1, <1>k, Zenon DEF EnqMove, E
<1>9. CASE EnqLink(t)
  <2>1. /\ pc[t] = "e_link" /\ used < MaxRings
        /\ \E ok \in CasOutcomes(My(t).next, NoRing) :
             IF ok THEN /\ used' = used + 1
                        /\ ring' = [ring EXCEPT ![loc[t].rq].next = used',
                                                ![used'] = SoloRing(Current(t).val)]
                        /\ SetLocal(t, [loc[t] EXCEPT !.next = used'])
                        /\ Goto(t, "e_swing")
             ELSE Retry(t, "e_last")
    BY <1>9, Zenon DEF EnqLink
  <2>2. ~Retry(t, "e_last")
    BY <1>l, Lands, Zenon
  <2>3. /\ My(t).next = NoRing /\ used' = used + 1
        /\ ring' = [ring EXCEPT ![loc[t].rq].next = used',
                                ![used'] = SoloRing(Current(t).val)]
        /\ loc'[t] = [loc[t] EXCEPT !.next = used']
        /\ pc'[t] = "e_swing"
    <3>1. \E ok \in CasOutcomes(My(t).next, NoRing) :
             /\ ok /\ used' = used + 1
             /\ ring' = [ring EXCEPT ![loc[t].rq].next = used',
                                     ![used'] = SoloRing(Current(t).val)]
             /\ SetLocal(t, [loc[t] EXCEPT !.next = used'])
             /\ Goto(t, "e_swing")
      BY <2>1, <2>2, Zenon
    <3>2. My(t).next = NoRing
      BY <3>1, Zenon DEF CasOutcomes
    <3> QED BY <3>1, <3>2, Lands, Zenon
  <2>4. loc'[t].rq = loc[t].rq /\ loc'[t].next = used'
    BY <2>3 DEF LocalType
  <2>5. loc[t].rq \in Rings /\ My(t) = ring[loc[t].rq]
    BY <2>1, <1>k, OwnRing DEF RingLabels, E, My
  <2>6. ring' = [ring EXCEPT ![loc[t].rq] = [My(t) EXCEPT !.next = used + 1],
                             ![used + 1] = SoloRing(Current(t).val)]
    BY <2>3, <2>5
  <2>7. RingAppended(t)
    BY <2>1, <2>3, <2>6 DEF RingAppended
  <2> QED BY <2>1, <2>3, <2>4, <2>7, <1>k, Zenon DEF EnqMove, E
<1>10. ~EnqCall(t) /\ ~EnqHelp(t) /\ ~EnqSwing(t)
  BY <1>l, Lands, Zenon DEF EnqCall, EnqHelp, EnqSwing, Finish
<1> QED BY <1>1, <1>2, <1>3, <1>4, <1>5, <1>6, <1>7, <1>8, <1>9, <1>10 DEF EnqStep, E

\* The steps of a dequeuer that leave it in its ring.
DeqMove(t) ==
    LET a == pc[t]
        b == pc'[t]
        l == loc[t]
        m == loc'[t]
        c == MyCell(t)
    IN  /\ m.rq = l.rq
        /\ \/ /\ a = "d_faa" /\ b = "d_cell" /\ m.t = My(t).head
              /\ ring' = [ring EXCEPT ![l.rq].head = @ + 1]
           \/ /\ a = "d_cell" /\ m.t = l.t /\ m.cell = c /\ ring' = ring
              /\ \/ b = "d_tail" /\ c.idx > l.t
                 \/ b = "d_skip" /\ c.idx <= l.t
                 \/ b = "d_take" /\ c.idx = l.t
                 \/ b = "d_mark" /\ c.idx < l.t /\ c.val # Null
           \/ /\ m.t = l.t
              /\ \/ a \in {"d_take", "d_skip", "d_mark"} /\ b = "d_cell"
                 \/ /\ a \in {"d_skip", "d_mark"} /\ b = "d_tail"
                    /\ CellChange(t, ring'[l.rq].array[Place(t)])
                 \/ a \in PastLabels /\ b \in {"f_tail", "f_head", "f_check", "d_next"}
                 \/ a = "f_check" /\ b = "f_cas" /\ ~m.ft.closed /\ m.ft.tail < m.fh
                 \/ a = "d_next" /\ b = "d_tail2" /\ m.next = My(t).next /\ m.next # NoRing
                 \/ a = "d_tail2" /\ b = "d_move" /\ m = l /\ ring' = ring /\ My(t).tail <= l.t + 1

LEMMA DeqMoves ==
    ASSUME TypeOK, ChainOfRings, LocalsOK, OnChain, NEW t \in Threads,
           DeqStep(t) \/ FixStep(t), pc'[t] \in RingLabels
    PROVE  \/ pc[t] = "d_first" /\ pc'[t] = "d_faa" /\ loc'[t].rq = first
           \/ pc[t] \in DeqLabels \ {"d_first"} /\ DeqMove(t)
<1>0. loc[t] \in LocalType /\ ring \in [Rings -> RingType]
  BY Typed DEF LocalsOK
<1> USE <1>0
<1>l. ~("idle" \in RingLabels) /\ ~("blocked" \in RingLabels) /\ ~("d_first" \in RingLabels)
  BY DEF RingLabels, EnqLabels, DeqLabels
<1> DEFINE D == DeqLabels \ {"d_first"}
<1>k. /\ pc[t] \in {"d_faa", "d_cell", "d_take", "d_mark", "d_skip"} \cup PastLabels => pc[t] \in D
      /\ pc[t] \in D => pc[t] \in RingLabels
      /\ \A x \in {"d_tail", "f_tail", "f_head", "f_check", "f_cas", "d_next", "d_tail2"} :
            x \in PastLabels
  BY DEF DeqLabels, PastLabels, RingLabels
<1>r. pc[t] \in D => loc[t].rq \in Rings /\ Place(t) \in Places /\ MyCell(t) \in CellType
                     /\ ring[loc[t].rq].array \in [Places -> CellType]
  <2>1. pc[t] \in D => loc[t].rq \in Rings /\ Place(t) \in Places /\ MyCell(t) \in CellType
    BY <1>k, OwnRing, Zenon
  <2> HIDE DEF D
  <2> QED BY <2>1 DEF RingType
<1> HIDE DEF D
<1>1. CASE DeqLoadFirst(t)
  <2>1. pc[t] = "d_first" /\ pc'[t] = "d_faa" /\ loc'[t] = [NoLocals EXCEPT !.rq = first]
    BY <1>1, Lands, Zenon DEF DeqLoadFirst
  <2> QED BY <2>1 DEF NoLocals
<1>2. CASE DeqTakePlace(t)
  <2>1. /\ pc[t] = "d_faa" /\ loc'[t] = [loc[t] EXCEPT !.t = My(t).head] /\ pc'[t] = "d_cell"
        /\ ring' = [ring EXCEPT ![loc[t].rq].head = @ + 1]
    BY <1>2, Lands, Zenon DEF DeqTakePlace, TakePlace
  <2>2. loc'[t].rq = loc[t].rq /\ loc'[t].t = My(t).head
    BY <2>1 DEF LocalType
  <2> QED BY <2>1, <2>2, <1>k, Zenon DEF DeqMove, D
<1>3. CASE DeqLoadCell(t)
  <2>1. /\ pc[t] = "d_cell" /\ loc'[t] = [loc[t] EXCEPT !.cell = MyCell(t)] /\ ring' = ring
        /\ pc'[t] = CASE MyCell(t).idx > loc[t].t -> "d_tail"
                 [] MyCell(t).idx <= loc[t].t /\ MyCell(t).val = Null -> "d_skip"
                 [] MyCell(t).idx = loc[t].t /\ MyCell(t).val # Null -> "d_take"
                 [] MyCell(t).idx < loc[t].t /\ MyCell(t).val # Null -> "d_mark"
    BY <1>3, Lands, Zenon DEF DeqLoadCell, shared
  <2>2. loc'[t].rq = loc[t].rq /\ loc'[t].t = loc[t].t /\ loc'[t].cell = MyCell(t)
    BY <2>1 DEF LocalType
  <2>3. MyCell(t).idx \in Nat /\ loc[t].t \in Nat
    BY <2>1, <1>k, <1>r DEF CellType, LocalType
  <2>4. \/ pc'[t] = "d_tail" /\ MyCell(t).idx > loc[t].t
        \/ pc'[t] = "d_skip" /\ MyCell(t).idx <= loc[t].t
        \/ pc'[t] = "d_take" /\ MyCell(t).idx = loc[t].t
        \/ pc'[t] = "d_mark" /\ MyCell(t).idx < loc[t].t /\ MyCell(t).val # Null
    <3>1. PICK c : c = MyCell(t)
      OBVIOUS
    <3>2. pc'[t] = CASE c.idx > loc[t].t -> "d_tail"
                     [] c.idx <= loc[t].t /\ c.val = Null -> "d_skip"
                     [] c.idx = loc[t].t /\ c.val # Null -> "d_take"
                     [] c.idx < loc[t].t /\ c.val # Null -> "d_mark"
      BY <2>1, <3>1, Zenon
    <3> QED BY <3>1, <3>2, <2>3, SMT
  <2> QED BY <2>1, <2>2, <2>4, <1>k, Zenon DEF DeqMove, D
<1>c. ASSUME NEW c, SetCell(t, c), pc[t] \in D
      PROVE  ring'[loc[t].rq].array[Place(t)] = c
  BY <1>c, <1>r DEF SetCell
<1>4. CASE DeqTake(t)
  <2>1. pc[t] = "d_take" /\ pc'[t] = "d_cell" /\ loc'[t] = loc[t]
    BY <1>4, <1>l, Lands, Zenon DEF DeqTake, Finish, InnerRetry
  <2> QED BY <2>1, <1>k, Zenon DEF DeqMove, D
<1>5. CASE DeqMarkUnsafe(t)
  <2>1. /\ pc[t] = "d_mark" /\ loc'[t] = loc[t]
        /\ pc'[t] = "d_cell" \/ (/\ pc'[t] = "d_tail"
                                /\ SetCell(t, [loc[t].cell EXCEPT !.unsafe = TRUE]))
    BY <1>5, <1>l, Lands, Zenon DEF DeqMarkUnsafe, InnerRetry
  <2>2. pc'[t] = "d_cell" \/ (/\ pc'[t] = "d_tail"
                             /\ CellChange(t, ring'[loc[t].rq].array[Place(t)]))
    BY <2>1, <1>c, <1>k, Zenon DEF CellChange
  <2> QED BY <2>1, <2>2, <1>k, Zenon DEF DeqMove, D
<1>6. CASE DeqSkip(t)
  <2>1. /\ pc[t] = "d_skip" /\ loc'[t] = loc[t]
        /\ pc'[t] = "d_cell"
           \/ (/\ pc'[t] = "d_tail"
               /\ SetCell(t, Cell(Null, loc[t].t + RingSize, loc[t].cell.unsafe)))
    BY <1>6, <1>l, Lands, Zenon DEF DeqSkip, InnerRetry, NextLap, Keep
  <2>2. pc'[t] = "d_cell" \/ (/\ pc'[t] = "d_tail"
                             /\ CellChange(t, ring'[loc[t].rq].array[Place(t)]))
    BY <2>1, <1>c, <1>k, Zenon DEF CellChange
  <2> QED BY <2>1, <2>2, <1>k, Zenon DEF DeqMove, D
<1>7. CASE DeqLoadTail(t)
  <2>1. pc[t] = "d_tail" /\ loc'[t] = loc[t] /\ pc'[t] = "f_tail"
    BY <1>7, <1>l, Lands, Zenon DEF DeqLoadTail
  <2> QED BY <2>1, <1>k, Zenon DEF DeqMove, D
<1>8. CASE DeqLoadNext(t)
  <2>1. /\ pc[t] = "d_next" /\ loc'[t] = [loc[t] EXCEPT !.next = My(t).next]
        /\ pc'[t] = "d_tail2" /\ My(t).next # NoRing
    BY <1>8, <1>l, Lands, Zenon DEF DeqLoadNext, LoadNext, Finish
  <2>2. loc'[t].rq = loc[t].rq /\ loc'[t].t = loc[t].t /\ loc'[t].next = My(t).next
    BY <2>1 DEF LocalType
  <2> QED BY <2>1, <2>2, <1>k, Zenon DEF DeqMove, D
<1>9. CASE DeqRecheckTail(t)
  <2>1. /\ pc[t] = "d_tail2" /\ loc'[t] = loc[t] /\ pc'[t] = "d_move" /\ ring' = ring
        /\ My(t).tail <= loc[t].t + 1
    BY <1>9, <1>l, Lands, Zenon DEF DeqRecheckTail, NothingAfter, shared
  <2> QED BY <2>1, <1>k, Zenon DEF DeqMove, D
<1>10. CASE FixLoadTail(t)
  <2>1. /\ pc[t] = "f_tail" /\ pc'[t] = "f_head"
        /\ loc'[t] = [loc[t] EXCEPT !.ft = TailWord(My(t))]
    BY <1>10, Lands, Zenon DEF FixLoadTail
  <2>2. loc'[t].rq = loc[t].rq /\ loc'[t].t = loc[t].t
    BY <2>1 DEF LocalType
  <2> QED BY <2>1, <2>2, <1>k, Zenon DEF DeqMove, D
<1>11. CASE FixLoadHead(t)
  <2>1. /\ pc[t] = "f_head" /\ pc'[t] = "f_check"
        /\ loc'[t] = [loc[t] EXCEPT !.fh = My(t).head]
    BY <1>11, Lands, Zenon DEF FixLoadHead
  <2>2. loc'[t].rq = loc[t].rq /\ loc'[t].t = loc[t].t
    BY <2>1 DEF LocalType
  <2> QED BY <2>1, <2>2, <1>k, Zenon DEF DeqMove, D
<1>f. ASSUME FixRetry(t)
      PROVE  pc'[t] = "f_tail" /\ loc'[t].rq = loc[t].rq /\ loc'[t].t = loc[t].t
  <2>1. pc'[t] = "f_tail" /\ (loc'[t] = loc[t] \/ loc'[t] = [loc[t] EXCEPT !.fixes = @ + 1])
    BY <1>f, <1>l, Lands, Zenon DEF FixRetry
  <2> QED BY <2>1 DEF LocalType
<1>12. CASE FixCheck(t)
  <2>1. /\ pc[t] = "f_check"
        /\ \/ FixRetry(t)
           \/ /\ loc'[t] = loc[t]
              /\ pc'[t] = IF TailBehind(loc[t].ft, loc[t].fh) THEN "f_cas" ELSE "d_next"
    BY <1>12, Lands, Zenon DEF FixCheck
  <2>2. CASE FixRetry(t)
    BY <2>1, <2>2, <1>f, <1>k, Zenon DEF DeqMove, D
  <2>3. CASE pc'[t] = "f_cas" /\ TailBehind(loc[t].ft, loc[t].fh) /\ loc'[t] = loc[t]
    <3>1. ~loc[t].ft.closed /\ loc[t].ft.tail < loc[t].fh
      BY <2>3, SMT DEF TailBehind, LocalType
    <3> QED BY <2>1, <2>3, <3>1, <1>k, Zenon DEF DeqMove, D
  <2>4. CASE pc'[t] = "d_next" /\ loc'[t] = loc[t]
    BY <2>1, <2>4, <1>k, Zenon DEF DeqMove, D
  <2> QED BY <2>1, <2>2, <2>3, <2>4
<1>13. CASE FixMoveTail(t)
  <2>1. pc[t] = "f_cas" /\ (FixRetry(t) \/ (pc'[t] = "d_next" /\ loc'[t] = loc[t]))
    BY <1>13, Lands, Zenon DEF FixMoveTail
  <2> QED BY <2>1, <1>f, <1>k, Zenon DEF DeqMove, D
<1>14. ~DeqCall(t) /\ ~DeqMoveFirst(t)
  BY <1>l, Lands, Zenon DEF DeqCall, DeqMoveFirst
<1> QED BY <1>1, <1>2, <1>3, <1>4, <1>5, <1>6, <1>7, <1>8, <1>9, <1>10, <1>11, <1>12, <1>13,
           <1>14, Zenon DEF DeqStep, FixStep, D

-----------------------------------------------------------------------------
\* The chain of the rings.

\* A thread that has seen a next ring knows the one that follows its own.
LEMMA NextRing ==
    ASSUME TypeOK, ChainOfRings, LocalsOK, OnChain, NEW t \in Threads,
           pc[t] \in {"e_help", "e_swing", "d_tail2", "d_move"}
    PROVE  /\ loc[t].rq \in 1 .. used /\ loc[t].rq < used /\ loc[t].next = loc[t].rq + 1
           /\ My(t).closed
<1>1. loc[t].rq \in 1 .. used /\ loc[t].next = ring[loc[t].rq].next /\ loc[t].next # NoRing
  BY OwnRing DEF RingLabels, EnqLabels, DeqLabels, OnChain, My
<1>2. loc[t].next = IF loc[t].rq < used THEN loc[t].rq + 1 ELSE NoRing
  BY <1>1 DEF ChainOfRings
<1>3. loc[t].rq < used /\ loc[t].next = loc[t].rq + 1
  BY <1>1, <1>2, Zenon
<1>4. loc[t].rq \in 1 .. used - 1
  BY <1>1, <1>3, Typed, SMT DEF Rings
<1> QED BY <1>1, <1>3, <1>4 DEF ChainOfRings, My

LEMMA EndsMove ==
    ASSUME NEW t \in Threads, Step(t)
    PROVE  /\ last' = last \/ (/\ pc[t] \in {"e_help", "e_swing"}
                              /\ last = loc[t].rq /\ last' = loc[t].next)
           /\ first' = first \/ (pc[t] = "d_move" /\ first = loc[t].rq /\ first' = loc[t].next)
<1>1. CASE EnqHelp(t) \/ EnqSwing(t)
  <2>1. /\ pc[t] \in {"e_help", "e_swing"} /\ first' = first
        /\ \E ok \in CasOutcomes(last, loc[t].rq) : last' = IF ok THEN loc[t].next ELSE last
    BY <1>1, Zenon DEF EnqHelp, EnqSwing
  <2> QED BY <2>1, Zenon DEF CasOutcomes
<1>2. CASE DeqMoveFirst(t)
  <2>1. /\ pc[t] = "d_move" /\ last' = last
        /\ \E ok \in CasOutcomes(first, loc[t].rq) : first' = IF ok THEN loc[t].next ELSE first
    BY <1>2, Zenon DEF DeqMoveFirst
  <2> QED BY <2>1, Zenon DEF CasOutcomes
<1>3. UNCHANGED <<first, last>> \/ EnqHelp(t) \/ EnqSwing(t) \/ DeqMoveFirst(t)
  <2>1. CASE EnqStep(t)
    BY <2>1, Zenon DEF EnqStep, EnqCall, EnqLoadLast, EnqLoadNext, EnqTakePlace, EnqLoadIndex,
       EnqLoadValue, EnqLoadHead, EnqFill, EnqTestFull, EnqClose, EnqLink, shared
  <2>2. CASE DeqStep(t)
    BY <2>2, Zenon DEF DeqStep, DeqCall, DeqLoadFirst, DeqTakePlace, TakePlace, DeqLoadCell,
       DeqTake, DeqMarkUnsafe, DeqSkip, DeqLoadTail, DeqLoadNext, LoadNext, DeqRecheckTail,
       shared
  <2>3. CASE FixStep(t)
    BY <2>3, Zenon DEF FixStep, FixLoadTail, FixLoadHead, FixCheck, FixMoveTail, shared
  <2> QED BY <2>1, <2>2, <2>3 DEF Step
<1> QED BY <1>1, <1>2, <1>3

LEMMA ChainStays ==
    ASSUME TypeOK, ChainOfRings, LocalsOK, OnChain, InOwnCall, NEW t \in Threads, Step(t)
    PROVE  TypeOK' /\ ChainOfRings' /\ last' >= last /\ first' >= first /\ used' >= used
<1>0. /\ first \in Nat /\ last \in Nat /\ used \in Nat /\ used >= 1 /\ MaxRings \in Nat
      /\ last \in {used, used - 1} /\ last >= 1 /\ first \in 1 .. used /\ used <= MaxRings
  BY Typed, RingAssumption, SMT DEF ChainOfRings, Rings
<1>1. /\ ring' \in [Rings -> RingType] /\ used' \in Rings
      /\ \A r \in 1 .. used : RingStep(t, r)
      /\ used' = used \/ (/\ RingAppended(t) /\ used' = used + 1
                         /\ ring'[used'] = SoloRing(Current(t).val))
  BY RingsGrow
<1>2. ClientTypeOK(Labels)' /\ LocalsOK'
  BY CallsGoOn, LocalsStay
<1>3. RingAppended(t) =>
         loc[t].rq = used /\ last = used /\ ring[used].closed /\ pc[t] = "e_link"
  <2>1. SUFFICES ASSUME RingAppended(t)
                 PROVE  loc[t].rq = used /\ last = used /\ ring[used].closed /\ pc[t] = "e_link"
    OBVIOUS
  <2>2. pc[t] = "e_link" /\ ring[loc[t].rq].next = NoRing
    BY <2>1 DEF RingAppended, My
  <2>3. loc[t].rq \in 1 .. last /\ ring[loc[t].rq].closed
    BY <2>2 DEF OnChain, EnqLabels, My
  <2>4. loc[t].rq \in 1 .. used
    BY <2>3, <1>0, SMT
  <2>5. ~(loc[t].rq < used)
    <3>1. ring[loc[t].rq].next = IF loc[t].rq < used THEN loc[t].rq + 1 ELSE NoRing
      BY <2>4, Zenon DEF ChainOfRings
    <3> QED BY <3>1, <2>2, <2>4, SMT DEF NoRing
  <2>6. loc[t].rq = used /\ last = used
    BY <2>3, <2>4, <2>5, <1>0, SMT
  <2> QED BY <2>2, <2>3, <2>6
<1>4. last' = last \/ (last = used - 1 /\ last' = used /\ ~RingAppended(t))
  <2>1. CASE /\ pc[t] \in {"e_help", "e_swing"}
             /\ last = loc[t].rq /\ last' = loc[t].next
    <3>1. loc[t].rq < used /\ loc[t].next = loc[t].rq + 1 /\ loc[t].rq \in 1 .. used
      BY <2>1, NextRing
    <3>2. last = used - 1 /\ last' = used
      BY <2>1, <3>1, <1>0, SMT
    <3> QED BY <2>1, <3>2 DEF RingAppended
  <2> QED BY <2>1, EndsMove
<1>5. first' = first \/ (first < used /\ first' = first + 1)
  <2>1. CASE pc[t] = "d_move" /\ first = loc[t].rq /\ first' = loc[t].next
    BY <2>1, NextRing
  <2> QED BY <2>1, EndsMove
<1>6. used' >= used /\ last' >= last /\ first' >= first
  BY <1>0, <1>1, <1>4, <1>5, SMT
<1>7. last' \in {used', used' - 1} /\ first' \in 1 .. used' /\ last' >= 1
  BY <1>0, <1>1, <1>3, <1>4, <1>5, SMT
<1>8. TypeOK'
  <2>1. first' \in Rings /\ last' \in Rings
    <3>1. used' \in 1 .. MaxRings
      BY <1>1, Zenon DEF Rings
    <3>2. first' \in 1 .. MaxRings /\ last' \in 1 .. MaxRings
      <4>1. \A m, u \in Nat : \A f, l : /\ u \in 1 .. m /\ f \in 1 .. u
                                       /\ l \in {u, u - 1} /\ l >= 1
                                       => f \in 1 .. m /\ l \in 1 .. m
        BY SMT
      <4>2. used' \in Nat
        BY <3>1, <1>0, SMT
      <4> QED BY <4>1, <4>2, <3>1, <1>7, <1>0, Zenon
    <3> QED BY <3>2 DEF Rings
  <2>2. \A u \in Threads : loc'[u].rq \in Rings \cup {NoRing} /\ loc'[u].cell \in CellType
    BY <1>2 DEF LocalsOK, LocalType, RingOrNone
  <2> QED BY <1>1, <1>2, <2>1, <2>2 DEF TypeOK
<1>9. CASE used' = used
  <2>1. \A r \in 1 .. used : ring'[r].next = ring[r].next
    <3>1. ~RingAppended(t)
      BY <1>9, <1>0, SMT DEF RingAppended
    <3> QED BY <3>1, <1>1, Zenon DEF RingStep
  <2>2. \A r \in 1 .. used - 1 : r \in 1 .. used
    BY <1>0, SMT
  <2>3. \A r \in 1 .. used - 1 : ring'[r].closed
    BY <2>2, <1>1, Zenon DEF RingStep, ChainOfRings
  <2>4. \A r \in 1 .. used : ring'[r].next = IF r < used THEN r + 1 ELSE NoRing
    BY <2>1, Zenon DEF ChainOfRings
  <2>5. ChainOfRings'
    BY <1>9, <1>7, <2>3, <2>4, Zenon DEF ChainOfRings
  <2> QED BY <1>6, <1>8, <2>5
<1>10. CASE RingAppended(t) /\ used' = used + 1 /\ ring'[used'] = SoloRing(Current(t).val)
  <2>1. loc[t].rq = used /\ ring[used].closed
    BY <1>10, <1>3
  <2>2. \A r \in 1 .. used' : r \in 1 .. used \/ r = used'
    BY <1>10, <1>0, SMT
  <2>3. ring'[used'].next = NoRing
    <3>1. SoloRing(Current(t).val).next = NoRing
      BY DEF SoloRing, EmptyRing
    <3> QED BY <3>1, <1>10
  <2>4. ASSUME NEW r \in 1 .. used
        PROVE  ring'[r].next = (IF r < used' THEN r + 1 ELSE NoRing) /\ ring'[r].closed
    <3>1. RingStep(t, r) /\ r < used' /\ (r < used => r \in 1 .. used - 1)
      BY <1>1, <1>10, <1>0, SMT
    <3>2. CASE r = used
      <4>1. ring'[r].next = used' /\ ring'[r].closed
        <5>1. ring[r].next = NoRing
          BY <1>10, <2>1, <3>2 DEF RingAppended, My
        <5>2. PICK R, S : /\ ring' = [ring EXCEPT ![loc[t].rq] = R, ![used + 1] = S]
                          /\ R = [My(t) EXCEPT !.next = used + 1]
          BY <1>10, Zenon DEF RingAppended
        <5>3. ring'[r] = R
          <6>1. r # used + 1 /\ r \in Rings
            BY <3>2, <1>0, SMT DEF Rings
          <6> QED BY <6>1, <5>2, <2>1, <3>2, Typed, Zenon
        <5>4. My(t) = ring[r] /\ ring[r] \in RingType
          BY <2>1, <3>2, Typed DEF My
        <5>5. R.next = used + 1
          BY <5>2, <5>4 DEF RingType
        <5> QED BY <5>3, <5>5, <3>1, <3>2, <2>1, <1>10 DEF RingStep
      <4> QED BY <4>1, <3>1, <3>2, <1>10, Zenon
    <3>3. CASE r # used
      <4>1. r < used
        BY <3>3, <1>0, SMT
      <4>2. ring[r].next = r + 1 /\ ring[r].closed
        BY <4>1, <3>1, Zenon DEF ChainOfRings
      <4>3. ring'[r].next = ring[r].next
        BY <3>1, <3>3, <2>1, Zenon DEF RingStep
      <4> QED BY <4>1, <4>2, <4>3, <3>1, Zenon DEF RingStep
    <3> QED BY <3>2, <3>3
  <2>5. \A r \in 1 .. used' : ring'[r].next = IF r < used' THEN r + 1 ELSE NoRing
    <3>1. ~(used' < used')
      BY <1>10, <1>0, SMT
    <3> QED BY <3>1, <2>2, <2>3, <2>4, Zenon
  <2>6. \A r \in 1 .. used' - 1 : ring'[r].closed
    <3>1. \A r \in 1 .. used' - 1 : r \in 1 .. used
      BY <1>10, <1>0, SMT
    <3> QED BY <3>1, <2>4, Zenon
  <2>7. ChainOfRings'
    BY <1>7, <2>5, <2>6, Zenon DEF ChainOfRings
  <2> QED BY <1>6, <1>8, <2>7
<1> QED BY <1>1, <1>9, <1>10

\* What the thread that takes a step knows of the chain.
LEMMA MoverOnChain ==
    ASSUME TypeOK, ChainOfRings, LocalsOK, OnChain, InOwnCall, NEW t \in Threads, Step(t),
           pc'[t] \in RingLabels
    PROVE  /\ pc'[t] \in EnqLabels => loc'[t].rq \in 1 .. last'
           /\ pc'[t] \in DeqLabels => loc'[t].rq \in 1 .. used'
           /\ pc'[t] \in {"e_help", "e_swing", "d_tail2", "d_move"} =>
                 loc'[t].next = ring'[loc'[t].rq].next /\ loc'[t].next # NoRing
           /\ pc'[t] = "e_link" => ring'[loc'[t].rq].closed
           /\ pc'[t] = "f_cas" => ~loc'[t].ft.closed /\ loc'[t].ft.tail < loc'[t].fh
<1>0. /\ last' >= last /\ used' >= used /\ ChainOfRings' /\ TypeOK'
      /\ \A r \in 1 .. used : RingStep(t, r)
      /\ first \in Nat /\ last \in Nat /\ used \in Nat /\ last' \in Nat /\ used' \in Nat
      /\ last \in 1 .. used /\ first \in 1 .. used
  <2>1. /\ last' >= last /\ used' >= used /\ ChainOfRings' /\ TypeOK'
        /\ \A r \in 1 .. used : RingStep(t, r)
    BY ChainStays, RingsGrow, Zenon
  <2>2. first \in Rings /\ last \in Rings /\ used \in Rings /\ last' \in Rings /\ used' \in Rings
    BY <2>1, Typed DEF TypeOK
  <2>3. \A r \in Rings : r \in Nat /\ r >= 1
    BY RingAssumption, SMT DEF Rings
  <2>4. last \in {used, used - 1} /\ first \in 1 .. used
    BY DEF ChainOfRings
  <2> QED BY <2>1, <2>2, <2>3, <2>4, SMT
<1>l. EnqLabels \cap DeqLabels = {} /\ "e_next" \in EnqLabels /\ "d_faa" \in DeqLabels
  BY DEF EnqLabels, DeqLabels
<1>1. CASE EnqStep(t)
  <2>1. CASE pc'[t] = "e_next" /\ loc'[t].rq = last
    <3>1. last \in 1 .. last'
      BY <1>0, SMT
    <3> QED BY <2>1, <1>l, <3>1, Zenon
  <2>2. CASE pc[t] \in EnqLabels \ {"e_last"} /\ EnqMove(t)
    <3>1. /\ loc[t].rq \in 1 .. last /\ loc'[t].rq = loc[t].rq /\ pc[t] \in RingLabels
          /\ loc[t].rq \in 1 .. used /\ loc[t].rq \in Rings
      BY <2>2, OwnRing DEF OnChain, EnqMove, RingLabels
    <3>2. loc'[t].rq \in 1 .. last' /\ loc'[t].rq \in 1 .. used' /\ RingStep(t, loc[t].rq)
      BY <3>1, <1>0, SMT
    <3>3. CASE pc'[t] \in {"e_help", "e_swing"}
      <4>1. CASE loc'[t].next = My(t).next /\ loc'[t].next # NoRing
        <5>1. ring'[loc[t].rq].next = My(t).next
          BY <3>2, <4>1, Zenon DEF RingStep, RingAppended, My
        <5> QED BY <3>1, <3>2, <3>3, <4>1, <5>1, <1>l, Zenon
      <4>2. CASE loc'[t].next = used' /\ RingAppended(t)
        <5>1. PICK R, S : /\ ring' = [ring EXCEPT ![loc[t].rq] = R, ![used + 1] = S]
                          /\ R = [My(t) EXCEPT !.next = used + 1]
          BY <4>2, Zenon DEF RingAppended
        <5>2. ring'[loc[t].rq] = R
          <6>1. loc[t].rq # used + 1
            BY <3>1, <1>0, SMT
          <6> QED BY <6>1, <3>1, <5>1, Typed, Zenon
        <5>3. R.next = used + 1
          BY <5>1, <3>1, OwnRing DEF RingType
        <5>4. used' = used + 1 /\ used' # NoRing
          BY <4>2, <1>0, SMT DEF RingAppended, NoRing
        <5> QED BY <3>1, <3>2, <3>3, <4>2, <5>2, <5>3, <5>4, <1>l, Zenon
      <4> QED BY <2>2, <3>3, <4>1, <4>2, Zenon DEF EnqMove
    <3>4. CASE pc'[t] = "e_link"
      <4>1. My(t).closed \/ ring' = [ring EXCEPT ![loc[t].rq].closed = TRUE]
        BY <2>2, <3>4, Zenon DEF EnqMove
      <4>2. ring'[loc[t].rq].closed
        <5>1. CASE My(t).closed
          BY <5>1, <3>2, Zenon DEF RingStep, My
        <5>2. CASE ring' = [ring EXCEPT ![loc[t].rq].closed = TRUE]
          <6>1. ring'[loc[t].rq] = [ring[loc[t].rq] EXCEPT !.closed = TRUE]
            BY <5>2, <3>1, Typed, Zenon
          <6>2. ring[loc[t].rq] \in RingType
            BY <3>1, Typed
          <6>3. ring'[loc[t].rq].closed = TRUE
            BY <6>1, <6>2 DEF RingType
          <6> QED BY <6>3
        <5> QED BY <4>1, <5>1, <5>2
      <4> QED BY <3>1, <3>2, <3>4, <4>2, <1>l, Zenon
    <3>5. pc'[t] # "d_tail2" /\ pc'[t] # "d_move" /\ pc'[t] # "f_cas" /\ ~(pc'[t] \in DeqLabels)
      BY <2>2, Zenon DEF EnqMove, DeqLabels
    <3> QED BY <3>1, <3>2, <3>3, <3>4, <3>5
  <2> QED BY <1>1, <2>1, <2>2, EnqMoves
<1>2. CASE DeqStep(t) \/ FixStep(t)
  <2>1. CASE pc'[t] = "d_faa" /\ loc'[t].rq = first
    <3>1. first \in 1 .. used'
      BY <1>0, SMT
    <3> QED BY <2>1, <1>l, <3>1, Zenon
  <2>2. CASE pc[t] \in DeqLabels \ {"d_first"} /\ DeqMove(t)
    <3>1. /\ loc[t].rq \in 1 .. used /\ loc'[t].rq = loc[t].rq /\ pc[t] \in RingLabels
      BY <2>2, OwnRing DEF OnChain, DeqMove, RingLabels
    <3>2. loc'[t].rq \in 1 .. used' /\ RingStep(t, loc[t].rq)
      BY <3>1, <1>0, SMT
    <3>e. ~(pc'[t] \in EnqLabels) /\ pc'[t] # "e_help" /\ pc'[t] # "e_swing" /\ pc'[t] # "e_link"
      BY <2>2, Zenon DEF DeqMove, EnqLabels
    <3>3. CASE pc'[t] = "d_tail2"
      <4>1. pc[t] = "d_next" /\ loc'[t].next = My(t).next /\ loc'[t].next # NoRing
        BY <2>2, <3>3, Zenon DEF DeqMove
      <4>2. ring'[loc[t].rq].next = My(t).next
        BY <3>2, <4>1, Zenon DEF RingStep, RingAppended, My
      <4> QED BY <3>1, <3>2, <3>3, <4>1, <4>2, <3>e, Zenon
    <3>4. CASE pc'[t] = "d_move"
      <4>1. pc[t] = "d_tail2" /\ loc'[t] = loc[t] /\ ring' = ring
        BY <2>2, <3>4, Zenon DEF DeqMove
      <4>2. loc[t].next = ring[loc[t].rq].next /\ loc[t].next # NoRing
        BY <4>1 DEF OnChain, My
      <4> QED BY <3>1, <3>2, <3>4, <4>1, <4>2, <3>e, Zenon
    <3>5. CASE pc'[t] = "f_cas"
      <4>1. ~loc'[t].ft.closed /\ loc'[t].ft.tail < loc'[t].fh
        BY <2>2, <3>5, Zenon DEF DeqMove
      <4> QED BY <3>1, <3>2, <3>5, <4>1, <3>e, Zenon
    <3> QED BY <3>1, <3>2, <3>3, <3>4, <3>5, <3>e
  <2> QED BY <1>2, <2>1, <2>2, DeqMoves
<1> QED BY <1>1, <1>2 DEF Step

LEMMA OnChainStays ==
    ASSUME TypeOK, ChainOfRings, LocalsOK, OnChain, InOwnCall, NEW t \in Threads, Step(t)
    PROVE  OnChain'
<1>0. /\ last' >= last /\ used' >= used /\ TypeOK'
      /\ \A r \in 1 .. used : RingStep(t, r)
  BY ChainStays, RingsGrow, Zenon
<1>i. last \in Rings /\ used \in Rings /\ last' \in Rings /\ used' \in Rings
  BY <1>0, Typed DEF TypeOK
<1>j. \A r : (r \in 1 .. last => r \in 1 .. last') /\ (r \in 1 .. used => r \in 1 .. used')
  BY <1>0, <1>i, SMT DEF Rings
<1> SUFFICES ASSUME NEW u \in Threads
             PROVE  /\ pc'[u] \in EnqLabels \ {"e_last"} => loc'[u].rq \in 1 .. last'
                    /\ pc'[u] \in DeqLabels \ {"d_first"} => loc'[u].rq \in 1 .. used'
                    /\ pc'[u] \in {"e_help", "e_swing", "d_tail2", "d_move"} =>
                          loc'[u].next = ring'[loc'[u].rq].next /\ loc'[u].next # NoRing
                    /\ pc'[u] = "e_link" => ring'[loc'[u].rq].closed
                    /\ pc'[u] = "f_cas" => ~loc'[u].ft.closed /\ loc'[u].ft.tail < loc'[u].fh
  BY DEF OnChain, My
<1>1. CASE u = t
  <2>1. CASE pc'[t] \in RingLabels
    BY <1>1, <2>1, MoverOnChain, Zenon
  <2>2. CASE ~(pc'[t] \in RingLabels)
    BY <1>1, <2>2 DEF RingLabels, EnqLabels, DeqLabels
  <2> QED BY <2>1, <2>2
<1>2. CASE u # t
  <2>1. pc'[u] = pc[u] /\ loc'[u] = loc[u]
    BY <1>2, OthersStay
  <2>2. pc[u] \in RingLabels => loc[u].rq \in 1 .. used /\ RingStep(t, loc[u].rq)
    BY OwnRing, <1>0
  <2>3. /\ pc[u] \in EnqLabels \ {"e_last"} => loc[u].rq \in 1 .. last
        /\ pc[u] \in DeqLabels \ {"d_first"} => loc[u].rq \in 1 .. used
        /\ pc[u] \in {"e_help", "e_swing", "d_tail2", "d_move"} =>
              loc[u].next = ring[loc[u].rq].next /\ loc[u].next # NoRing
        /\ pc[u] = "e_link" => ring[loc[u].rq].closed
        /\ pc[u] = "f_cas" => ~loc[u].ft.closed /\ loc[u].ft.tail < loc[u].fh
    BY Zenon DEF OnChain, My
  <2>4. pc[u] \in {"e_help", "e_swing", "d_tail2", "d_move", "e_link"} => pc[u] \in RingLabels
    BY DEF RingLabels, EnqLabels, DeqLabels
  <2>5. pc[u] \in {"e_help", "e_swing", "d_tail2", "d_move"} =>
           ring'[loc[u].rq].next = ring[loc[u].rq].next
    BY <2>2, <2>3, <2>4, Zenon DEF RingStep, RingAppended, My
  <2>6. pc[u] = "e_link" => ring'[loc[u].rq].closed
    BY <2>2, <2>3, <2>4, Zenon DEF RingStep
  <2> QED BY <2>1, <2>3, <2>5, <2>6, <1>j, Zenon
<1> QED BY <1>1, <1>2

-----------------------------------------------------------------------------
\* Places and cells.

\* The fields of a ring of the chain and of its cells.
LEMMA Fields ==
    ASSUME TypeOK, NEW r \in 1 .. used
    PROVE  /\ ring[r].head \in Nat /\ ring[r].tail \in Nat /\ ring[r].closed \in BOOLEAN
           /\ \A s \in Places : ring[r].array[s] \in CellType /\ ring[r].array[s].idx \in Nat
           /\ r \in Rings
<1>1. r \in Rings /\ ring[r] \in RingType
  <2>1. used \in 1 .. MaxRings
    BY Typed, Zenon DEF Rings
  <2>2. r \in Rings
    BY <2>1, RingAssumption, SMT DEF Rings
  <2> QED BY <2>2, Typed
<1>2. ring[r].array \in [Places -> CellType]
  BY <1>1 DEF RingType
<1> QED BY <1>1, <1>2 DEF RingType, CellType

\* The same after a step, for a ring that was there before it.
LEMMA NewFields ==
    ASSUME TypeOK, TypeOK', NEW r \in 1 .. used
    PROVE  /\ ring'[r].head \in Nat /\ ring'[r].tail \in Nat /\ ring'[r].closed \in BOOLEAN
           /\ \A s \in Places : ring'[r].array[s] \in CellType /\ ring'[r].array[s].idx \in Nat
<1>1. ring'[r] \in RingType
  <2>1. ring' \in [Rings -> RingType]
    BY DEF TypeOK
  <2> QED BY <2>1, Fields
<1>2. ring'[r].array \in [Places -> CellType]
  BY <1>1 DEF RingType
<1> QED BY <1>1, <1>2 DEF RingType, CellType

\* A step fills a cell, empties it for a later place, or marks its item.
LEMMA CellSteps ==
    ASSUME TypeOK, LocalsOK, CellsRead, NEW t \in Threads, NEW r \in 1 .. used, NEW s \in Places,
           RingStep(t, r)
    PROVE  LET c == ring[r].array[s]
               d == ring'[r].array[s]
           IN  \/ d = c
               \/ /\ r = loc[t].rq /\ s = Place(t) /\ c = loc[t].cell
                  /\ \/ /\ pc[t] = "e_cas" /\ c.val = Null /\ c.idx <= loc[t].t
                        /\ d.idx = loc[t].t /\ ~d.unsafe
                     \/ /\ pc[t] \in {"d_take", "d_skip"} /\ c.idx <= loc[t].t
                        /\ d.val = Null /\ d.idx = loc[t].t + RingSize /\ d.unsafe = c.unsafe
                     \/ /\ pc[t] = "d_mark" /\ c.val # Null /\ c.idx < loc[t].t
                        /\ d.val = c.val /\ d.idx = c.idx /\ d.unsafe
<1> DEFINE c == ring[r].array[s]
           d == ring'[r].array[s]
<1>0. loc[t] \in LocalType /\ loc[t].cell \in CellType /\ loc[t].t \in Nat /\ c.idx \in Nat
  BY Fields DEF LocalsOK, LocalType
<1>1. d = c \/ (r = loc[t].rq /\ s = Place(t) /\ c = loc[t].cell /\ CellChange(t, d))
  BY Zenon DEF RingStep, CellStep
<1> HIDE DEF c, d
<1>2. CASE pc[t] = "e_cas" /\ d = Cell(Current(t).val, loc[t].t, FALSE) /\ c = loc[t].cell
  <2>1. c.val = Null /\ c.idx <= loc[t].t
    BY <1>2, Zenon DEF CellsRead
  <2>2. d.idx = loc[t].t /\ d.unsafe = FALSE
    BY <1>2 DEF Cell
  <2> QED BY <1>1, <1>2, <2>1, <2>2, Zenon DEF c, d
<1>3. CASE /\ pc[t] \in {"d_take", "d_skip"} /\ c = loc[t].cell
           /\ d = Cell(Null, loc[t].t + RingSize, loc[t].cell.unsafe)
  <2>1. c.idx = loc[t].t \/ c.idx <= loc[t].t
    BY <1>3, Zenon DEF CellsRead
  <2>2. c.idx <= loc[t].t
    BY <2>1, <1>0, SMT
  <2>3. d.idx = loc[t].t + RingSize /\ d.unsafe = c.unsafe /\ d.val = Null
    BY <1>3 DEF Cell
  <2> QED BY <1>1, <1>3, <2>2, <2>3, Zenon DEF c, d
<1>4. CASE pc[t] = "d_mark" /\ c = loc[t].cell /\ d = [loc[t].cell EXCEPT !.unsafe = TRUE]
  <2>1. c.val # Null /\ c.idx < loc[t].t
    BY <1>4, Zenon DEF CellsRead
  <2>2. d.val = c.val /\ d.idx = c.idx
    BY <1>4, <1>0 DEF CellType
  <2>3. d.unsafe = TRUE
    BY <1>4, <1>0, Zenon DEF CellType
  <2> QED BY <1>1, <1>4, <2>1, <2>2, <2>3, Zenon DEF c, d
<1>5. d = c \/ ( /\ r = loc[t].rq /\ s = Place(t) /\ c = loc[t].cell
                /\ \/ pc[t] = "e_cas" /\ d = Cell(Current(t).val, loc[t].t, FALSE)
                   \/ /\ pc[t] \in {"d_take", "d_skip"}
                      /\ d = Cell(Null, loc[t].t + RingSize, loc[t].cell.unsafe)
                   \/ pc[t] = "d_mark" /\ d = [loc[t].cell EXCEPT !.unsafe = TRUE])
  BY <1>1, Zenon DEF CellChange
<1> QED BY <1>2, <1>3, <1>4, <1>5, Zenon DEF c, d

\* So the index of a cell never gets smaller.
LEMMA IndexGrows ==
    ASSUME TypeOK, LocalsOK, CellsRead, NEW t \in Threads, NEW r \in 1 .. used, NEW s \in Places,
           RingStep(t, r)
    PROVE  ring[r].array[s].idx <= ring'[r].array[s].idx
<1> DEFINE c == ring[r].array[s]
           d == ring'[r].array[s]
<1>0. c.idx \in Nat /\ loc[t].t \in Nat /\ RingSize \in Nat \ {0}
  BY Fields, RingAssumption DEF LocalsOK, LocalType
<1>1. \/ d = c
      \/ c.idx <= loc[t].t /\ d.idx \in {loc[t].t, loc[t].t + RingSize}
      \/ d.idx = c.idx
  BY CellSteps
<1> QED BY <1>0, <1>1, SMT

\* The chain's new ring holds one item, at place 0, and its other cells are as
\* they were made.
LEMMA NewRing ==
    ASSUME TypeOK, ChainOfRings, LocalsOK, OnChain, InOwnCall, NEW t \in Threads, Step(t),
           NEW r \in 1 .. used', ~(r \in 1 .. used)
    PROVE  /\ RingAppended(t) /\ ring'[r].head = 0 /\ ring'[r].tail = 1 /\ ~ring'[r].closed
           /\ \A s \in Places : /\ ring'[r].array[s].idx = s
                                /\ ring'[r].array[s].val # Null => s = 0
<1>1. used' = used \/ (/\ RingAppended(t) /\ used' = used + 1
                      /\ ring'[used'] = SoloRing(Current(t).val))
  BY RingsGrow
<1>2. used \in Nat
  <2>1. used \in Rings
    BY Typed
  <2> QED BY <2>1, RingAssumption, SMT DEF Rings
<1>3. RingAppended(t) /\ ring'[r] = SoloRing(Current(t).val)
  BY <1>1, <1>2, SMT
<1> DEFINE A == [s \in Places |-> Cell(Null, s, FALSE)]
           B == [A EXCEPT ![0] = Cell(Current(t).val, 0, FALSE)]
<1>4. 0 \in Places
  BY RingAssumption, SMT DEF Places
<1>5. \A Q : Q = SoloRing(Current(t).val) =>
         Q.head = 0 /\ Q.tail = 1 /\ Q.closed = FALSE /\ Q.array = B
  <2>1. PICK Z : Z = A
    OBVIOUS
  <2>2. EmptyRing = [head |-> 0, tail |-> 0, closed |-> FALSE, next |-> NoRing, array |-> Z]
    BY <2>1 DEF EmptyRing
  <2>3. PICK w : w = Cell(Current(t).val, 0, FALSE)
    OBVIOUS
  <2>4. SoloRing(Current(t).val) = [[head |-> 0, tail |-> 0, closed |-> FALSE, next |-> NoRing,
                                    array |-> Z] EXCEPT !.tail = 1, !.array[0] = w]
    BY <2>2, <2>3, Zenon DEF SoloRing
  <2>5. B = [Z EXCEPT ![0] = w]
    BY <2>1, <2>3
  <2> HIDE DEF A, B
  <2> QED BY <2>4, <2>5
<1>6. /\ B[0] = Cell(Current(t).val, 0, FALSE)
      /\ \A s \in Places : s # 0 => B[s] = Cell(Null, s, FALSE)
  <2>1. A \in [Places -> {A[s] : s \in Places}] /\ \A s \in Places : A[s] = Cell(Null, s, FALSE)
    BY Zenon
  <2> HIDE DEF A
  <2> QED BY <2>1, <1>4, Zenon
<1> HIDE DEF B
<1>7. \A s \in Places : B[s].idx = s /\ (B[s].val # Null => s = 0)
  <2>1. \A v, i : Cell(v, i, FALSE).idx = i /\ Cell(v, i, FALSE).val = v
    BY DEF Cell
  <2> SUFFICES ASSUME NEW s \in Places
               PROVE  B[s].idx = s /\ (B[s].val # Null => s = 0)
    OBVIOUS
  <2>2. CASE s = 0
    <3>1. B[s] = Cell(Current(t).val, s, FALSE)
      BY <1>6, <2>2
    <3> QED BY <3>1, <2>1, <2>2
  <2>3. CASE s # 0
    <3>1. B[s] = Cell(Null, s, FALSE)
      BY <1>6, <2>3
    <3> QED BY <3>1, <2>1
  <2> QED BY <2>2, <2>3
<1>8. ring'[r].head = 0 /\ ring'[r].tail = 1 /\ ring'[r].closed = FALSE /\ ring'[r].array = B
  BY <1>3, <1>5
<1> QED BY <1>3, <1>7, <1>8

LEMMA CellsServe ==
    ASSUME TypeOK, ChainOfRings, LocalsOK, OnChain, InOwnCall, CellsRead, CellsServeTheirPlaces,
           NEW t \in Threads, Step(t)
    PROVE  CellsServeTheirPlaces'
<1> SUFFICES ASSUME NEW r \in 1 .. used', NEW s \in Places
             PROVE  ring'[r].array[s].idx % RingSize = s
  BY DEF CellsServeTheirPlaces
<1>1. CASE r \in 1 .. used
  <2>1. RingStep(t, r) /\ ring[r].array[s].idx % RingSize = s /\ loc[t].t \in Nat
    BY <1>1, RingsGrow DEF CellsServeTheirPlaces, LocalsOK, LocalType
  <2>2. \/ ring'[r].array[s] = ring[r].array[s]
        \/ ring'[r].array[s].idx = ring[r].array[s].idx
        \/ s = Place(t) /\ ring'[r].array[s].idx \in {loc[t].t, loc[t].t + RingSize}
    BY <1>1, <2>1, CellSteps
  <2>3. loc[t].t % RingSize = Place(t) /\ (loc[t].t + RingSize) % RingSize = Place(t)
    BY <2>1, RingAssumption, ModLap DEF Place
  <2> QED BY <2>1, <2>2, <2>3, Zenon
<1>2. CASE ~(r \in 1 .. used)
  <2>1. ring'[r].array[s].idx = s
    BY <1>2, NewRing
  <2>2. s \in 0 .. RingSize - 1 /\ s \in Nat
    BY RingAssumption, SMT DEF Places
  <2>3. s % RingSize \in 0 .. RingSize - 1 /\ s \div RingSize \in Nat
        /\ RingSize * 0 + s = RingSize * (s \div RingSize) + (s % RingSize)
    <3>1. /\ s % RingSize \in 0 .. RingSize - 1 /\ s \div RingSize \in Nat
          /\ s = RingSize * (s \div RingSize) + (s % RingSize)
      BY <2>2, RingAssumption, DivMod
    <3>2. RingSize * 0 + s = s
      BY <2>2, RingAssumption, SMT
    <3> QED BY <3>1, <3>2
  <2>4. 0 \in Nat
    OBVIOUS
  <2>5. s % RingSize = s
    BY <2>2, <2>3, <2>4, RingAssumption, ModUnique
  <2> QED BY <2>1, <2>5
<1> QED BY <1>1, <1>2

\* The mover's place after a step.
LEMMA MoverPlace ==
    ASSUME TypeOK, ChainOfRings, LocalsOK, OnChain, InOwnCall, NEW t \in Threads, Step(t)
    PROVE  /\ pc'[t] \in FillLabels =>
                 /\ pc[t] \in RingLabels /\ loc'[t].rq = loc[t].rq
                 /\ \/ pc[t] \in FillLabels /\ loc'[t].t = loc[t].t
                    \/ /\ pc'[t] = "e_idx" /\ ~My(t).closed /\ loc'[t].t = My(t).tail
                       /\ ring'[loc[t].rq].tail = My(t).tail + 1
           /\ pc'[t] \in TakeLabels \cup PastLabels =>
                 /\ pc[t] \in RingLabels /\ loc'[t].rq = loc[t].rq
                 /\ \/ pc[t] \in TakeLabels \cup PastLabels /\ loc'[t].t = loc[t].t
                    \/ /\ pc'[t] = "d_cell" /\ pc[t] = "d_faa" /\ loc'[t].t = My(t).head
                       /\ ring'[loc[t].rq].head = My(t).head + 1
<1>l. /\ FillLabels \subseteq RingLabels /\ TakeLabels \cup PastLabels \subseteq RingLabels
      /\ EnqLabels \ {"e_last"} \subseteq RingLabels /\ DeqLabels \ {"d_first"} \subseteq RingLabels
      /\ FillLabels \cap (TakeLabels \cup PastLabels) = {}
      /\ ~("e_next" \in FillLabels \cup TakeLabels \cup PastLabels)
      /\ ~("d_faa" \in FillLabels \cup TakeLabels \cup PastLabels)
  BY DEF FillLabels, TakeLabels, PastLabels, RingLabels, EnqLabels, DeqLabels
<1>r. pc[t] \in RingLabels => loc[t].rq \in Rings /\ My(t) = ring[loc[t].rq] /\ My(t) \in RingType
  BY OwnRing DEF My
<1>1. CASE EnqStep(t) /\ pc'[t] \in RingLabels
  <2>1. CASE pc'[t] = "e_next"
    BY <1>l, <2>1, Zenon
  <2>2. CASE pc[t] \in EnqLabels \ {"e_last"} /\ EnqMove(t)
    <3>1. loc'[t].rq = loc[t].rq /\ pc[t] \in RingLabels
      BY <2>2, <1>l, Zenon DEF EnqMove
    <3>2. ~(pc'[t] \in TakeLabels \cup PastLabels)
      BY <2>2, Zenon DEF EnqMove, TakeLabels, PastLabels
    <3>3. ASSUME pc'[t] \in FillLabels
          PROVE  \/ pc[t] \in FillLabels /\ loc'[t].t = loc[t].t
                 \/ /\ pc'[t] = "e_idx" /\ ~My(t).closed /\ loc'[t].t = My(t).tail
                    /\ ring' = [ring EXCEPT ![loc[t].rq].tail = @ + 1]
      BY <2>2, <3>3, Zenon DEF EnqMove, FillLabels
    <3>4. ring' = [ring EXCEPT ![loc[t].rq].tail = @ + 1] =>
             ring'[loc[t].rq].tail = My(t).tail + 1
      <4> SUFFICES ASSUME ring' = [ring EXCEPT ![loc[t].rq].tail = @ + 1]
                   PROVE  ring'[loc[t].rq].tail = My(t).tail + 1
        OBVIOUS
      <4>1. ring'[loc[t].rq] = [My(t) EXCEPT !.tail = My(t).tail + 1]
        BY <3>1, <1>r, Typed, Zenon
      <4> QED BY <4>1, <3>1, <1>r DEF RingType
    <3> QED BY <3>1, <3>2, <3>3, <3>4, Zenon
  <2> QED BY <1>1, <2>1, <2>2, EnqMoves
<1>2. CASE (DeqStep(t) \/ FixStep(t)) /\ pc'[t] \in RingLabels
  <2>1. CASE pc'[t] = "d_faa"
    BY <1>l, <2>1, Zenon
  <2>2. CASE pc[t] \in DeqLabels \ {"d_first"} /\ DeqMove(t)
    <3>1. loc'[t].rq = loc[t].rq /\ pc[t] \in RingLabels
      BY <2>2, <1>l, Zenon DEF DeqMove
    <3>2. ~(pc'[t] \in FillLabels)
      BY <2>2, Zenon DEF DeqMove, FillLabels
    <3>3. \/ pc[t] \in TakeLabels \cup PastLabels /\ loc'[t].t = loc[t].t
          \/ /\ pc'[t] = "d_cell" /\ pc[t] = "d_faa" /\ loc'[t].t = My(t).head
             /\ ring' = [ring EXCEPT ![loc[t].rq].head = @ + 1]
      BY <2>2, Zenon DEF DeqMove, TakeLabels, PastLabels
    <3>4. ring' = [ring EXCEPT ![loc[t].rq].head = @ + 1] =>
             ring'[loc[t].rq].head = My(t).head + 1
      <4> SUFFICES ASSUME ring' = [ring EXCEPT ![loc[t].rq].head = @ + 1]
                   PROVE  ring'[loc[t].rq].head = My(t).head + 1
        OBVIOUS
      <4>1. ring'[loc[t].rq] = [My(t) EXCEPT !.head = My(t).head + 1]
        BY <3>1, <1>r, Typed, Zenon
      <4> QED BY <4>1, <3>1, <1>r DEF RingType
    <3> QED BY <3>1, <3>2, <3>3, <3>4, Zenon
  <2> QED BY <1>2, <2>1, <2>2, DeqMoves
<1>3. CASE ~(pc'[t] \in RingLabels)
  BY <1>l, <1>3, Zenon
<1> QED BY <1>1, <1>2, <1>3 DEF Step

LEMMA PlacesStay ==
    ASSUME TypeOK, ChainOfRings, LocalsOK, OnChain, InOwnCall, CellsRead, PlacesTaken,
           NEW t \in Threads, Step(t)
    PROVE  PlacesTaken'
<1>0. TypeOK' /\ LocalsOK' /\ \A r \in 1 .. used : RingStep(t, r)
  BY ChainStays, LocalsStay, RingsGrow, Zenon
<1>1. ASSUME NEW r \in 1 .. used', NEW s \in Places, ring'[r].array[s].val # Null
      PROVE  ring'[r].array[s].idx < ring'[r].tail
  <2>1. CASE r \in 1 .. used
    <3>1. /\ ring[r].tail \in Nat /\ ring'[r].tail \in Nat /\ ring'[r].tail >= ring[r].tail
          /\ ring[r].array[s].idx \in Nat /\ ring'[r].array[s].idx \in Nat
      BY <1>0, <2>1, Fields, NewFields DEF RingStep
    <3>2. \/ ring'[r].array[s] = ring[r].array[s]
          \/ r = loc[t].rq /\ pc[t] = "e_cas" /\ ring'[r].array[s].idx = loc[t].t
          \/ ring'[r].array[s].idx = ring[r].array[s].idx /\ ring[r].array[s].val # Null
      BY <1>0, <1>1, <2>1, CellSteps
    <3>3. ring[r].array[s].val # Null => ring[r].array[s].idx < ring[r].tail
      BY <2>1, Zenon DEF PlacesTaken
    <3>4. pc[t] = "e_cas" /\ r = loc[t].rq => loc[t].t < ring[r].tail /\ loc[t].t \in Nat
      BY DEF PlacesTaken, FillLabels, My, LocalsOK, LocalType
    <3>5. ring'[r].array[s].idx < ring[r].tail
      BY <1>1, <3>2, <3>3, <3>4
    <3> QED BY <3>1, <3>5, SMT
  <2>2. CASE ~(r \in 1 .. used)
    <3>1. s = 0 /\ ring'[r].array[s].idx = s /\ ring'[r].tail = 1
      BY <1>1, <2>2, NewRing
    <3> QED BY <3>1, SMT
  <2> QED BY <2>1, <2>2
<1>2. ASSUME NEW u \in Threads
      PROVE  /\ pc'[u] \in FillLabels => loc'[u].t < ring'[loc'[u].rq].tail
             /\ pc'[u] \in TakeLabels \cup PastLabels => loc'[u].t < ring'[loc'[u].rq].head
  <2>l. FillLabels \cup TakeLabels \cup PastLabels \subseteq RingLabels
    BY DEF FillLabels, TakeLabels, PastLabels, RingLabels, EnqLabels, DeqLabels
  <2>1. pc[u] \in RingLabels =>
           LET r == loc[u].rq IN
           /\ r \in 1 .. used /\ ring'[r].tail >= ring[r].tail /\ ring'[r].head >= ring[r].head
           /\ ring[r].tail \in Nat /\ ring'[r].tail \in Nat
           /\ ring[r].head \in Nat /\ ring'[r].head \in Nat
    <3> SUFFICES ASSUME pc[u] \in RingLabels, NEW r, r = loc[u].rq
                 PROVE  /\ r \in 1 .. used /\ ring'[r].tail >= ring[r].tail
                        /\ ring'[r].head >= ring[r].head
                        /\ ring[r].tail \in Nat /\ ring'[r].tail \in Nat
                        /\ ring[r].head \in Nat /\ ring'[r].head \in Nat
      OBVIOUS
    <3>1. r \in 1 .. used
      BY OwnRing
    <3>2. /\ ring'[r].tail >= ring[r].tail
          /\ ring'[r].head = ring[r].head \/ ring'[r].head = ring[r].head + 1
      BY <3>1, <1>0, Zenon DEF RingStep
    <3>3. /\ ring[r].tail \in Nat /\ ring'[r].tail \in Nat
          /\ ring[r].head \in Nat /\ ring'[r].head \in Nat
      BY <3>1, <1>0, Fields, NewFields
    <3> QED BY <3>1, <3>2, <3>3, SMT
  <2>2. /\ pc[u] \in FillLabels => loc[u].t < ring[loc[u].rq].tail
        /\ pc[u] \in TakeLabels \cup PastLabels => loc[u].t < ring[loc[u].rq].head
        /\ loc[u].t \in Nat
    BY DEF PlacesTaken, My, LocalsOK, LocalType
  <2>3. /\ pc[u] \in FillLabels => loc[u].t < ring'[loc[u].rq].tail
        /\ pc[u] \in TakeLabels \cup PastLabels => loc[u].t < ring'[loc[u].rq].head
    <3> DEFINE r == loc[u].rq
    <3>1. pc[u] \in RingLabels =>
           /\ ring'[r].tail >= ring[r].tail /\ ring'[r].head >= ring[r].head
           /\ ring[r].tail \in Nat /\ ring'[r].tail \in Nat
           /\ ring[r].head \in Nat /\ ring'[r].head \in Nat
      BY <2>1
    <3> HIDE DEF r
    <3>2. /\ pc[u] \in FillLabels => loc[u].t < ring[r].tail
          /\ pc[u] \in TakeLabels \cup PastLabels => loc[u].t < ring[r].head
      BY <2>2 DEF r
    <3>3. /\ pc[u] \in FillLabels => loc[u].t < ring'[r].tail
          /\ pc[u] \in TakeLabels \cup PastLabels => loc[u].t < ring'[r].head
      BY <2>l, <2>2, <3>1, <3>2, SMT
    <3> QED BY <3>3 DEF r
  <2>4. CASE u # t
    <3>1. pc'[u] = pc[u] /\ loc'[u] = loc[u]
      BY <2>4, OthersStay
    <3> QED BY <3>1, <2>3, Zenon
  <2>5. CASE u = t
    <3>1. ASSUME pc'[t] \in FillLabels PROVE loc'[t].t < ring'[loc'[t].rq].tail
      <4>1. CASE pc[t] \in FillLabels /\ loc'[t].t = loc[t].t /\ loc'[t].rq = loc[t].rq
        BY <2>5, <2>3, <4>1, Zenon
      <4>2. CASE /\ loc'[t].t = My(t).tail /\ ring'[loc[t].rq].tail = My(t).tail + 1
                 /\ loc'[t].rq = loc[t].rq /\ pc[t] \in RingLabels
        <5>1. My(t).tail \in Nat
          BY <4>2, <2>5, <2>1 DEF My
        <5> QED BY <4>2, <5>1, SMT
      <4> QED BY <3>1, <4>1, <4>2, MoverPlace, Zenon
    <3>2. ASSUME pc'[t] \in TakeLabels \cup PastLabels PROVE loc'[t].t < ring'[loc'[t].rq].head
      <4>1. CASE pc[t] \in TakeLabels \cup PastLabels /\ loc'[t].t = loc[t].t /\ loc'[t].rq = loc[t].rq
        BY <2>5, <2>3, <4>1, Zenon
      <4>2. CASE /\ loc'[t].t = My(t).head /\ ring'[loc[t].rq].head = My(t).head + 1
                 /\ loc'[t].rq = loc[t].rq /\ pc[t] \in RingLabels
        <5>1. My(t).head \in Nat
          BY <4>2, <2>5, <2>1 DEF My
        <5> QED BY <4>2, <5>1, SMT
      <4> QED BY <3>2, <4>1, <4>2, MoverPlace, Zenon
    <3> QED BY <2>5, <3>1, <3>2
  <2> QED BY <2>4, <2>5
<1> QED BY <1>1, <1>2 DEF PlacesTaken, My

LEMMA ReadsStay ==
    ASSUME TypeOK, ChainOfRings, LocalsOK, OnChain, InOwnCall, CellsRead,
           NEW t \in Threads, Step(t)
    PROVE  CellsRead'
<1>0. TypeOK' /\ LocalsOK' /\ \A r \in 1 .. used : RingStep(t, r)
  BY ChainStays, LocalsStay, RingsGrow, Zenon
<1> SUFFICES ASSUME NEW u \in Threads
             PROVE  /\ pc'[u] \in {"e_val", "e_head", "e_cas"} =>
                          /\ loc'[u].cell.val = Null
                          /\ loc'[u].cell.idx
                                <= ring'[loc'[u].rq].array[loc'[u].t % RingSize].idx
                    /\ pc'[u] \in {"e_head", "e_cas"} => loc'[u].cell.idx <= loc'[u].t
                    /\ pc'[u] = "d_take" => loc'[u].cell.idx = loc'[u].t
                    /\ pc'[u] = "d_mark" => loc'[u].cell.val # Null
                                            /\ loc'[u].cell.idx < loc'[u].t
                    /\ pc'[u] = "d_skip" => loc'[u].cell.idx <= loc'[u].t
  BY DEF CellsRead, MyCell, My, Place
<1>l. loc[u].t \in Nat /\ loc[u].cell.idx \in Nat
  BY DEF LocalsOK, LocalType, CellType
<1>1. ASSUME pc[u] \in RingLabels
      PROVE  /\ MyCell(u).idx \in Nat
             /\ ring'[loc[u].rq].array[Place(u)].idx \in Nat
             /\ MyCell(u).idx <= ring'[loc[u].rq].array[Place(u)].idx
  <2>1. loc[u].rq \in 1 .. used /\ Place(u) \in Places
    BY <1>1, OwnRing
  <2>2. RingStep(t, loc[u].rq)
    BY <2>1, <1>0
  <2> QED BY <2>1, <2>2, <1>0, Fields, NewFields, IndexGrows DEF MyCell, My
<1>2. /\ pc[u] \in {"e_val", "e_head", "e_cas"} =>
            /\ loc[u].cell.val = Null
            /\ loc[u].cell.idx <= ring'[loc[u].rq].array[Place(u)].idx
      /\ pc[u] \in {"e_head", "e_cas"} => loc[u].cell.idx <= loc[u].t
      /\ pc[u] = "d_take" => loc[u].cell.idx = loc[u].t
      /\ pc[u] = "d_mark" => loc[u].cell.val # Null /\ loc[u].cell.idx < loc[u].t
      /\ pc[u] = "d_skip" => loc[u].cell.idx <= loc[u].t
  <2>1. ASSUME pc[u] \in {"e_val", "e_head", "e_cas"}
        PROVE  loc[u].cell.val = Null
               /\ loc[u].cell.idx <= ring'[loc[u].rq].array[Place(u)].idx
    <3>1. pc[u] \in RingLabels
      BY <2>1 DEF RingLabels, EnqLabels
    <3>2. loc[u].cell.val = Null /\ loc[u].cell.idx <= MyCell(u).idx
      BY <2>1 DEF CellsRead
    <3> QED BY <3>1, <3>2, <1>1, <1>l, SMT
  <2> QED BY <2>1, Zenon DEF CellsRead
<1>3. CASE u # t
  <2>1. pc'[u] = pc[u] /\ loc'[u] = loc[u]
    BY <1>3, OthersStay
  <2> QED BY <2>1, <1>2, Zenon DEF Place
<1>4. CASE u = t
  <2>1. CASE EnqStep(t) /\ pc'[t] \in {"e_val", "e_head", "e_cas"}
    <3>1. pc[t] \in EnqLabels \ {"e_last"} /\ EnqMove(t)
      BY <2>1, EnqMoves DEF RingLabels, EnqLabels
    <3>2. pc[t] \in RingLabels /\ loc'[t].rq = loc[t].rq
      BY <3>1, Zenon DEF RingLabels, EnqMove
    <3>3. CASE pc'[t] = "e_val"
      <4>1. loc'[t].t = loc[t].t /\ loc'[t].cell = [MyCell(t) EXCEPT !.val = Null]
        BY <3>1, <3>3, Zenon DEF EnqMove
      <4>2. MyCell(t) \in CellType
        BY <3>2, OwnRing
      <4>3. loc'[t].cell.val = Null /\ loc'[t].cell.idx = MyCell(t).idx
        BY <4>1, <4>2 DEF CellType
      <4> QED BY <1>4, <3>2, <3>3, <4>1, <4>3, <1>1 DEF Place
    <3>4. CASE pc'[t] \in {"e_head", "e_cas"}
      <4>1. /\ loc'[t] = loc[t]
            /\ \/ pc[t] = "e_val" /\ loc[t].cell.idx <= loc[t].t
               \/ pc[t] = "e_head"
        BY <3>1, <3>4, Zenon DEF EnqMove
      <4> QED BY <1>4, <3>4, <4>1, <1>2, Zenon DEF Place
    <3> QED BY <2>1, <3>3, <3>4
  <2>2. CASE (DeqStep(t) \/ FixStep(t)) /\ pc'[t] \in {"d_take", "d_mark", "d_skip"}
    <3>1. pc[t] \in DeqLabels \ {"d_first"} /\ DeqMove(t)
      BY <2>2, DeqMoves DEF RingLabels, DeqLabels
    <3>2. /\ loc'[t].t = loc[t].t /\ loc'[t].cell = MyCell(t)
          /\ \/ pc'[t] = "d_skip" /\ MyCell(t).idx <= loc[t].t
             \/ pc'[t] = "d_take" /\ MyCell(t).idx = loc[t].t
             \/ pc'[t] = "d_mark" /\ MyCell(t).idx < loc[t].t /\ MyCell(t).val # Null
      BY <2>2, <3>1, Zenon DEF DeqMove
    <3> QED BY <1>4, <2>2, <3>2, Zenon
  <2>3. EnqStep(t) => ~(pc'[t] \in {"d_take", "d_mark", "d_skip"})
    <3> SUFFICES ASSUME EnqStep(t), pc'[t] \in {"d_take", "d_mark", "d_skip"} PROVE FALSE
      OBVIOUS
    <3>1. EnqMove(t)
      BY EnqMoves DEF RingLabels, DeqLabels
    <3> QED BY <3>1, Zenon DEF EnqMove
  <2>4. DeqStep(t) \/ FixStep(t) => ~(pc'[t] \in {"e_val", "e_head", "e_cas"})
    <3> SUFFICES ASSUME DeqStep(t) \/ FixStep(t), pc'[t] \in {"e_val", "e_head", "e_cas"} PROVE FALSE
      OBVIOUS
    <3>1. DeqMove(t)
      BY DeqMoves DEF RingLabels, EnqLabels
    <3> QED BY <3>1, Zenon DEF DeqMove
  <2>5. CASE ~(pc'[t] \in {"e_val", "e_head", "e_cas", "d_take", "d_mark", "d_skip"})
    BY <1>4, <2>5, Zenon
  <2> QED BY <2>1, <2>2, <2>3, <2>4, <2>5 DEF Step
<1> QED BY <1>3, <1>4

-----------------------------------------------------------------------------
\* Claims: a dequeuer gives its place up only where the cell is done with it.

\* The cell c can no more be filled for the place p, and was not found to be
\* empty at an earlier one.
Passed(c, p) == c.idx > p \/ (c.unsafe /\ c.val # Null /\ c.idx < p)

\* A thread at a place, or about to take one, moves by one of these actions.
LEMMA TakeActions ==
    ASSUME NEW t \in Threads, Step(t)
    PROVE  /\ pc[t] \in TakeLabels =>
                 DeqLoadCell(t) \/ DeqTake(t) \/ DeqMarkUnsafe(t) \/ DeqSkip(t)
           /\ pc[t] = "d_faa" => DeqTakePlace(t)
           /\ pc[t] # "blocked"
<1>1. CASE EnqStep(t)
  BY <1>1, Zenon DEF TakeLabels, EnqStep, EnqCall, Invoke, InCall, EnqLoadLast, EnqLoadNext, EnqHelp,
     EnqTakePlace, EnqLoadIndex, EnqLoadValue, EnqLoadHead, EnqFill, EnqTestFull, EnqClose, EnqLink,
     EnqSwing
<1>2. CASE DeqStep(t)
  <2>1. CASE DeqLoadCell(t) \/ DeqTake(t) \/ DeqMarkUnsafe(t) \/ DeqSkip(t)
    <3>1. pc[t] \in TakeLabels
      BY <2>1, Zenon DEF TakeLabels, DeqLoadCell, DeqTake, DeqMarkUnsafe, DeqSkip
    <3> QED BY <2>1, <3>1, Zenon DEF TakeLabels
  <2>2. CASE DeqTakePlace(t)
    BY <2>2, Zenon DEF TakeLabels, DeqTakePlace, TakePlace
  <2>3. CASE DeqCall(t) \/ DeqLoadFirst(t) \/ DeqLoadTail(t) \/ DeqLoadNext(t) \/ DeqRecheckTail(t)
             \/ DeqMoveFirst(t)
    BY <2>3, Zenon DEF TakeLabels, DeqCall, Invoke, InCall, DeqLoadFirst, DeqLoadTail, DeqLoadNext,
       LoadNext, DeqRecheckTail, DeqMoveFirst
  <2> QED BY <1>2, <2>1, <2>2, <2>3, Zenon DEF DeqStep
<1>3. CASE FixStep(t)
  BY <1>3, Zenon DEF TakeLabels, FixStep, FixLoadTail, FixLoadHead, FixCheck, FixMoveTail
<1> QED BY <1>1, <1>2, <1>3 DEF Step

LEMMA ClaimStays ==
    ASSUME TypeOK, ChainOfRings, LocalsOK, OnChain, InOwnCall, CellsRead,
           NEW t \in Threads, Step(t), NEW r \in 1 .. used, NEW i \in Nat, Claimed(r, i)
    PROVE  Claimed(r, i)' \/ Passed(ring'[r].array[i % RingSize], i)
<1>0. InOwnCall' /\ RingStep(t, r) /\ TypeOK'
  BY CallsGoOn, RingsGrow, ChainStays
<1>l. /\ TakeLabels \subseteq DeqLabels /\ TakeLabels \subseteq RingLabels
      /\ ~("idle" \in RingLabels) /\ ~("idle" \in TakeLabels)
      /\ \A x : x \in TakeLabels <=> x \in {"d_cell", "d_take", "d_mark", "d_skip"}
  BY DEF TakeLabels, DeqLabels, EnqLabels, RingLabels
<1>c. \A u \in Threads :
         /\ loc'[u].rq = r /\ loc'[u].t = i
         /\ pc'[u] \in TakeLabels \/ (pc'[u] = "blocked" /\ Script[u][ip'[u]].kind = "deq")
         => Claimed(r, i)'
  <2> SUFFICES ASSUME NEW u \in Threads, loc'[u].rq = r, loc'[u].t = i,
                      pc'[u] \in TakeLabels
                      \/ (pc'[u] = "blocked" /\ Script[u][ip'[u]].kind = "deq")
               PROVE  Claimed(r, i)'
    OBVIOUS
  <2>1. Script[u][ip'[u]].kind = "deq"
    BY <1>0, <1>l DEF InOwnCall, InCallOf, Current
  <2>2. pc'[u] # "idle" /\ pc'[u] \in {"d_cell", "d_take", "d_mark", "d_skip", "blocked"}
    BY <1>l
  <2> QED BY <2>1, <2>2 DEF Claimed, InCall, Current
<1>1. PICK u \in Threads : /\ Current(u).kind = "deq" /\ loc[u].rq = r /\ loc[u].t = i
                           /\ pc[u] \in TakeLabels \cup {"blocked"}
  BY <1>l, Zenon DEF Claimed
<1>2. CASE u # t
  <2>1. pc'[u] = pc[u] /\ ip'[u] = ip[u] /\ loc'[u] = loc[u]
    BY <1>2, OthersStay
  <2> QED BY <1>1, <1>c, <2>1, Zenon DEF Current
<1>3. CASE u = t
  <2>0. pc[t] \in TakeLabels
    BY <1>1, <1>3, TakeActions
  <2>1. loc[t].rq = r /\ loc[t].t = i /\ Place(t) = i % RingSize /\ Current(t).kind = "deq"
    BY <1>1, <1>3 DEF Place
  <2>2. MyCell(t) = ring[r].array[i % RingSize] /\ i % RingSize \in Places
        /\ MyCell(t).idx \in Nat /\ RingSize \in Nat \ {0}
        /\ ring'[r].array[i % RingSize].idx \in Nat
    <3>1. Place(t) \in Places
      BY OwnRing
    <3> QED BY <2>1, <3>1, <1>0, Fields, NewFields, RingAssumption DEF MyCell, My
  <2>3. ASSUME NEW d, d = ring'[r].array[i % RingSize], CellChange(t, d), pc[t] # "e_cas"
        PROVE  Passed(d, i)
    <3>1. CASE pc[t] \in {"d_take", "d_skip"} /\ d = Cell(Null, loc[t].t + RingSize, loc[t].cell.unsafe)
      <4>1. d.idx = i + RingSize
        BY <3>1, <2>1 DEF Cell
      <4>2. d.idx > i
        BY <4>1, <2>2, SMT
      <4> QED BY <4>2 DEF Passed
    <3>2. CASE pc[t] = "d_mark" /\ d = [loc[t].cell EXCEPT !.unsafe = TRUE]
      <4>1. loc[t].cell.val # Null /\ loc[t].cell.idx < i
        BY <3>2, <2>1, Zenon DEF CellsRead
      <4>2. loc[t].cell \in CellType
        BY DEF LocalsOK, LocalType
      <4>3. d.val = loc[t].cell.val /\ d.idx = loc[t].cell.idx
        BY <3>2, <4>2 DEF CellType
      <4>4. d.unsafe = TRUE
        BY <3>2, <4>2, Zenon DEF CellType
      <4> QED BY <4>1, <4>3, <4>4 DEF Passed
    <3> QED BY <2>3, <3>1, <3>2, Zenon DEF CellChange
  <2>n. pc[t] # "e_cas"
    BY <2>0 DEF TakeLabels
  <2>4. CASE pc'[t] \in RingLabels
    <3>1. DeqStep(t)
      BY <2>0, TakeActions, Zenon DEF DeqStep
    <3>2. DeqMove(t)
      BY <3>1, <2>0, <2>4, <1>l, DeqMoves
    <3>3. CASE pc'[t] \in TakeLabels
      <4>1. loc'[t].rq = r /\ loc'[t].t = i
        BY <2>0, <2>1, <3>2, <1>l, Zenon DEF DeqMove, PastLabels
      <4> QED BY <3>3, <4>1, <1>c
    <3>4. CASE pc[t] = "d_cell" /\ pc'[t] = "d_tail"
      <4>1. ring' = ring /\ MyCell(t).idx > loc[t].t
        BY <3>2, <3>4, Zenon DEF DeqMove, PastLabels
      <4> QED BY <4>1, <2>1, <2>2 DEF Passed
    <3>5. CASE pc[t] \in {"d_skip", "d_mark"} /\ pc'[t] = "d_tail"
      <4>1. CellChange(t, ring'[loc[t].rq].array[Place(t)])
        BY <3>2, <3>5, Zenon DEF DeqMove, PastLabels
      <4> QED BY <4>1, <2>1, <2>3, <2>n
    <3>6. \/ pc'[t] \in TakeLabels
          \/ pc[t] \in {"d_cell", "d_skip", "d_mark"} /\ pc'[t] = "d_tail"
      BY <2>0, <3>2, <1>l, Zenon DEF DeqMove, PastLabels
    <3> QED BY <3>3, <3>4, <3>5, <3>6, Zenon
  <2>5. CASE ~(pc'[t] \in RingLabels)
    <3>1. \/ pc'[t] = "blocked" /\ ip' = ip /\ loc' = loc
          \/ SetCell(t, Cell(Null, loc[t].t + RingSize, loc[t].cell.unsafe)) /\ pc[t] = "d_take"
      <4>1. CASE DeqLoadCell(t)
        <5>1. pc'[t] \in RingLabels
          <6>1. \E l \in RingLabels : Goto(t, l)
            <7>1. PICK c : c = MyCell(t)
              OBVIOUS
            <7>2. Goto(t, CASE c.idx > loc[t].t -> "d_tail"
                            [] c.idx <= loc[t].t /\ c.val = Null -> "d_skip"
                            [] c.idx = loc[t].t /\ c.val # Null -> "d_take"
                            [] c.idx < loc[t].t /\ c.val # Null -> "d_mark")
              BY <4>1, <7>1, Zenon DEF DeqLoadCell
            <7>3. c.idx \in Nat /\ loc[t].t \in Nat
              BY <7>1, <2>1, <2>2
            <7>4. \E l \in {"d_tail", "d_skip", "d_take", "d_mark"} : Goto(t, l)
              BY <7>2, <7>3, SMT
            <7> QED BY <7>4 DEF RingLabels, DeqLabels
          <6> QED BY <6>1, Lands, Zenon
        <5> QED BY <5>1, <2>5
      <4>2. CASE DeqTake(t)
        <5>1. /\ pc[t] = "d_take"
              /\ \/ SetCell(t, Cell(Null, loc[t].t + RingSize, loc[t].cell.unsafe))
                 \/ (Goto(t, "d_cell") \/ Goto(t, "blocked")) /\ loc' = loc
          BY <4>2, Zenon DEF DeqTake, InnerRetry, NextLap, Keep
        <5>2. ~Goto(t, "d_cell")
          BY <2>5, <1>l, Lands, Zenon
        <5> QED BY <5>1, <5>2, Lands, Zenon DEF Goto
      <4>3. CASE DeqMarkUnsafe(t) \/ DeqSkip(t)
        <5>1. Goto(t, "d_tail") \/ ((Goto(t, "d_cell") \/ Goto(t, "blocked")) /\ loc' = loc)
          BY <4>3, Zenon DEF DeqMarkUnsafe, DeqSkip, InnerRetry
        <5>2. ~Goto(t, "d_cell") /\ ~Goto(t, "d_tail")
          <6>1. "d_tail" \in RingLabels /\ "d_cell" \in RingLabels
            BY DEF RingLabels, DeqLabels
          <6> QED BY <6>1, <2>5, Lands, Zenon
        <5> QED BY <5>1, <5>2, Lands, Zenon DEF Goto
      <4> QED BY <4>1, <4>2, <4>3, <2>0, TakeActions
    <3>2. CASE pc'[t] = "blocked" /\ ip' = ip /\ loc' = loc
      BY <3>2, <2>1, <1>c DEF Current
    <3>3. CASE SetCell(t, Cell(Null, loc[t].t + RingSize, loc[t].cell.unsafe)) /\ pc[t] = "d_take"
      <4>1. PICK c : c = Cell(Null, loc[t].t + RingSize, loc[t].cell.unsafe)
        OBVIOUS
      <4>2. ring' = [ring EXCEPT ![r].array[i % RingSize] = c]
        BY <3>3, <4>1, <2>1, Zenon DEF SetCell
      <4>3. ring'[r].array[i % RingSize] = c
        <5>1. r \in Rings /\ ring[r] \in RingType
          BY Fields, Typed
        <5>2. ring[r].array \in [Places -> CellType]
          BY <5>1 DEF RingType
        <5>3. PICK s \in Places : s = i % RingSize
          BY <2>2
        <5>4. ring' = [ring EXCEPT ![r].array[s] = c]
          BY <4>2, <5>3
        <5>5. ring'[r].array[s] = c
          BY <5>1, <5>2, <5>4, Typed
        <5> QED BY <5>3, <5>5
      <4>4. CellChange(t, c)
        BY <3>3, <4>1 DEF CellChange
      <4> QED BY <4>3, <4>4, <2>3, <2>n
    <3> QED BY <3>1, <3>2, <3>3
  <2> QED BY <2>4, <2>5
<1> QED BY <1>2, <1>3

\* head goes on with the place of a dequeuer, which claims it.
LEMMA NewClaim ==
    ASSUME TypeOK, ChainOfRings, LocalsOK, OnChain, InOwnCall,
           NEW t \in Threads, Step(t), NEW r \in 1 .. used, ring'[r].head # ring[r].head,
           NEW p, p = ring[r].head
    PROVE  ring'[r].head = p + 1 /\ Claimed(r, p)'
<1>1. pc[t] = "d_faa" /\ r = loc[t].rq /\ ring'[r].head = ring[r].head + 1
  BY RingsGrow DEF RingStep
<1>2. DeqTakePlace(t)
  BY <1>1, TakeActions
<1>3. pc'[t] = "d_cell" /\ loc'[t] = [loc[t] EXCEPT !.t = My(t).head]
  BY <1>2, Lands DEF DeqTakePlace, TakePlace
<1>4. loc'[t].rq = r /\ loc'[t].t = p
  BY <1>1, <1>3 DEF LocalsOK, LocalType, My
<1>5. Script[t][ip'[t]].kind = "deq"
  BY <1>3, CallsGoOn DEF InOwnCall, InCallOf, DeqLabels, Current
<1> QED BY <1>1, <1>3, <1>4, <1>5 DEF Claimed, InCall, Current

\* A claim of a place that head had passed before the step, or passes in it.
LEMMA StillPassed ==
    ASSUME TypeOK, ChainOfRings, LocalsOK, OnChain, InOwnCall, CellsRead,
           NEW t \in Threads, Step(t), NEW r \in 1 .. used, NEW p \in Nat,
           p < ring'[r].head, p < ring[r].head => Claimed(r, p)
    PROVE  Claimed(r, p)' \/ Passed(ring'[r].array[p % RingSize], p)
<1>1. CASE p < ring[r].head
  BY <1>1, ClaimStays
<1>2. CASE ~(p < ring[r].head)
  <2>1. ring'[r].head # ring[r].head
    BY <1>2
  <2>2. PICK q : q = ring[r].head
    OBVIOUS
  <2>3. ring'[r].head = q + 1 /\ Claimed(r, q)'
    BY <2>1, <2>2, NewClaim
  <2>4. p = q
    <3>1. ring[r].head \in Nat
      BY Fields
    <3> QED BY <1>2, <2>2, <2>3, <3>1, SMT
  <2> QED BY <2>3, <2>4
<1> QED BY <1>1, <1>2

LEMMA TestsStay ==
    ASSUME TypeOK, ChainOfRings, LocalsOK, OnChain, InOwnCall, CellsRead, UnsafeTested,
           NEW t \in Threads, Step(t)
    PROVE  UnsafeTested'
<1>0. TypeOK' /\ \A r \in 1 .. used : RingStep(t, r)
  BY ChainStays, RingsGrow, Zenon
<1> SUFFICES ASSUME NEW u \in Threads, pc'[u] = "e_cas", loc'[u].cell.unsafe,
                    ring'[loc'[u].rq].array[loc'[u].t % RingSize] = loc'[u].cell,
                    NEW p \in Nat, loc'[u].t <= p, p % RingSize = loc'[u].t % RingSize,
                    NEW r, r = loc'[u].rq, p < ring'[r].head
             PROVE  Claimed(r, p)'
  <2>1. SUFFICES ASSUME NEW u \in Threads, pc'[u] = "e_cas", loc'[u].cell.unsafe,
                        ring'[loc'[u].rq].array[loc'[u].t % RingSize] = loc'[u].cell,
                        NEW p \in Nat, loc'[u].t <= p, p % RingSize = loc'[u].t % RingSize,
                        p < ring'[loc'[u].rq].head
                 PROVE  Claimed(loc[u].rq, p)'
    BY DEF UnsafeTested, MyCell, My, Place
  <2>2. PICK r : r = loc'[u].rq
    OBVIOUS
  <2>3. Claimed(r, p)'
    BY <2>1, <2>2
  <2> QED BY <2>2, <2>3 DEF Claimed
<1>l. loc[u] \in LocalType /\ loc[u].t \in Nat /\ loc[u].cell.idx \in Nat
  BY DEF LocalsOK, LocalType, CellType
<1>1. CASE u = t
  <2>0. ~(DeqStep(t) \/ FixStep(t))
    <3> SUFFICES ASSUME DeqStep(t) \/ FixStep(t) PROVE FALSE
      OBVIOUS
    <3>1. DeqMove(t)
      BY <1>1, DeqMoves DEF RingLabels, EnqLabels
    <3> QED BY <1>1, <3>1, Zenon DEF DeqMove
  <2>1. pc[t] \in EnqLabels \ {"e_last"} /\ EnqMove(t)
    BY <1>1, <2>0, EnqMoves DEF RingLabels, EnqLabels, Step
  <2>2. loc'[t] = loc[t] /\ (~loc[t].cell.unsafe \/ (My(t).head < loc[t].t /\ ring' = ring))
    BY <1>1, <2>1, Zenon DEF EnqMove
  <2>3. My(t).head < loc[t].t /\ ring' = ring
    BY <1>1, <2>2
  <2>4. My(t).head \in Nat
    BY <2>1, OwnRing DEF RingLabels, RingType
  <2> QED BY <1>1, <1>l, <2>2, <2>3, <2>4, SMT DEF My
<1>2. CASE u # t
  <2>1. pc[u] = "e_cas" /\ loc'[u] = loc[u] /\ loc[u].cell.unsafe
    BY <1>2, OthersStay
  <2> DEFINE s == Place(u)
             c == ring[r].array[s]
             d == ring'[r].array[s]
  <2>2. r = loc[u].rq /\ r \in 1 .. used /\ s \in Places
    BY <2>1, OwnRing DEF RingLabels, EnqLabels
  <2>3. /\ d = loc[u].cell /\ loc[u].t <= p /\ p % RingSize = s /\ p < ring'[r].head
    BY <2>1, <2>2 DEF Place
  <2>4. /\ loc[u].cell.val = Null /\ loc[u].cell.idx <= c.idx /\ loc[u].cell.idx <= loc[u].t
    BY <2>1, <2>2 DEF CellsRead, MyCell, My
  <2>5. c.idx \in Nat /\ loc[t].t \in Nat /\ RingSize \in Nat \ {0}
    BY <2>2, Fields, RingAssumption DEF LocalsOK, LocalType
  <2>6. \/ d = c
        \/ ~d.unsafe
        \/ c.idx <= loc[t].t /\ d.idx = loc[t].t + RingSize
        \/ d.val = c.val /\ c.val # Null
    <3>1. RingStep(t, r)
      BY <2>2, <1>0
    <3> HIDE DEF s
    <3> QED BY <2>2, <3>1, CellSteps, SMTT(20)
  <2> HIDE DEF s, c, d
  <2>7. d = c
    <3>1. ~(c.idx <= loc[t].t /\ d.idx = loc[t].t + RingSize)
      BY <2>3, <2>4, <2>5, <1>l, SMT
    <3> QED BY <3>1, <2>1, <2>3, <2>4, <2>6, Zenon
  <2>8. p < ring[r].head => Claimed(r, p)
    <3>1. MyCell(u) = loc[u].cell /\ Place(u) = s /\ My(u) = ring[r]
      BY <2>2, <2>3, <2>7 DEF MyCell, My, c, s
    <3> QED BY <3>1, <2>1, <2>2, <2>3 DEF UnsafeTested
  <2>9. Claimed(r, p)' \/ Passed(ring'[r].array[p % RingSize], p)
    BY <2>2, <2>3, <2>8, StillPassed
  <2>10. ~Passed(d, p)
    <3>1. d.idx <= p /\ d.val = Null
      BY <2>3, <2>4, <1>l, SMT
    <3>2. ~(d.idx > p)
      BY <2>3, <3>1, <1>l, SMT
    <3>3. d.val # Null <=> FALSE
      BY <3>1
    <3> QED BY <3>2, <3>3, Zenon DEF Passed
  <2> QED BY <2>3, <2>9, <2>10 DEF d
<1> QED BY <1>1, <1>2

LEMMA DeadStays ==
    ASSUME TypeOK, ChainOfRings, LocalsOK, OnChain, InOwnCall, CellsRead, UnsafeTested, PassedAreDead,
           NEW t \in Threads, Step(t)
    PROVE  PassedAreDead'
<1>0. TypeOK' /\ \A r \in 1 .. used : RingStep(t, r)
  BY ChainStays, RingsGrow, Zenon
<1> SUFFICES ASSUME NEW r \in 1 .. used', NEW p \in Nat, p < ring'[r].head
             PROVE  Claimed(r, p)' \/ Dead(ring'[r].array[p % RingSize], p)
  BY DEF PassedAreDead, CellOf, Claimed
<1>1. CASE ~(r \in 1 .. used)
  <2>1. ring'[r].head = 0
    BY <1>1, NewRing
  <2> QED BY <2>1, SMT
<1>2. CASE r \in 1 .. used
  <2> DEFINE s == p % RingSize
             c == ring[r].array[s]
             d == ring'[r].array[s]
  <2>1. s \in Places /\ RingSize \in Nat \ {0}
    BY RingAssumption, DivMod DEF Places
  <2>2. c.idx \in Nat /\ d.idx \in Nat /\ loc[t].t \in Nat
    BY <1>0, <1>2, <2>1, Fields, NewFields DEF LocalsOK, LocalType
  <2>3. ASSUME p < ring[r].head => Claimed(r, p)
        PROVE  Claimed(r, p)' \/ Dead(d, p)
    <3>1. Claimed(r, p)' \/ Passed(d, p)
      BY <1>2, <2>3, StillPassed
    <3>2. Passed(d, p) => Dead(d, p)
      <4> HIDE DEF d
      <4> QED BY <2>2, SMT DEF Passed, Dead
    <3> QED BY <3>1, <3>2
  <2>4. ASSUME p < ring[r].head, ~Claimed(r, p)
        PROVE  Dead(d, p)
    <3>1. Dead(c, p)
      BY <1>2, <2>4 DEF PassedAreDead, CellOf
    <3>2. \/ d = c
          \/ /\ r = loc[t].rq /\ s = Place(t) /\ c = loc[t].cell
             /\ pc[t] = "e_cas" /\ c.val = Null /\ c.idx <= loc[t].t /\ d.idx = loc[t].t
          \/ /\ c.idx <= loc[t].t
             /\ d.val = Null /\ d.idx = loc[t].t + RingSize /\ d.unsafe = c.unsafe
          \/ c.val # Null /\ d.val = c.val /\ d.idx = c.idx /\ d.unsafe
      <4>1. RingStep(t, r)
        BY <1>0, <1>2
      <4> HIDE DEF s
      <4> QED BY <1>2, <2>1, <4>1, CellSteps
    <3>3. CASE /\ r = loc[t].rq /\ s = Place(t) /\ c = loc[t].cell
               /\ pc[t] = "e_cas" /\ c.val = Null /\ c.idx <= loc[t].t /\ d.idx = loc[t].t
      <4>1. CASE c.idx > p
        <5> HIDE DEF c, d
        <5>1. d.idx > p
          BY <2>2, <3>3, <4>1, SMT
        <5> QED BY <5>1 DEF Dead
      <4>2. CASE c.unsafe
        <5>1. ~(loc[t].t <= p)
          <6> SUFFICES ASSUME loc[t].t <= p PROVE FALSE
            OBVIOUS
          <6>1. MyCell(t) = loc[t].cell /\ My(t) = ring[r] /\ loc[t].cell.unsafe
            BY <3>3, <4>2 DEF MyCell, My
          <6>2. Claimed(r, p)
            BY <6>1, <3>3, <2>4 DEF UnsafeTested
          <6> QED BY <6>2, <2>4
        <5> HIDE DEF d
        <5>2. d.idx > p
          BY <5>1, <2>2, <3>3, SMT
        <5> QED BY <5>2 DEF Dead
      <4> QED BY <3>1, <4>1, <4>2 DEF Dead
    <3> HIDE DEF c, d
    <3>4. CASE /\ c.idx <= loc[t].t
               /\ d.val = Null /\ d.idx = loc[t].t + RingSize /\ d.unsafe = c.unsafe
      <4>1. c.idx > p => d.idx > p
        BY <2>1, <2>2, <3>4, SMT
      <4> QED BY <3>1, <3>4, <4>1 DEF Dead
    <3>5. CASE c.val # Null /\ d.val = c.val /\ d.idx = c.idx /\ d.unsafe
      BY <3>1, <3>5, Zenon DEF Dead
    <3> QED BY <3>1, <3>2, <3>3, <3>4, <3>5
  <2> QED BY <2>3, <2>4
<1> QED BY <1>1, <1>2

-----------------------------------------------------------------------------
\* Rings that are left behind.
LEMMA DrainedStays ==
    ASSUME TypeOK, ChainOfRings, LocalsOK, OnChain, InOwnCall, CellsRead,
           NEW t \in Threads, Step(t), NEW r \in 1 .. used, Drained(r)
    PROVE  Drained(r)'
<1>0. TypeOK' /\ LocalsOK' /\ RingStep(t, r)
  BY ChainStays, LocalsStay, RingsGrow, Zenon
<1>1. ring[r].head \in Nat /\ ring'[r].head \in Nat /\ ring'[r].head >= ring[r].head
  <2>1. ring[r].head \in Nat /\ ring'[r].head \in Nat
    BY <1>0, Fields, NewFields
  <2>2. ring'[r].head = ring[r].head \/ ring'[r].head = ring[r].head + 1
    BY <1>0, Zenon DEF RingStep
  <2> QED BY <2>1, <2>2, SMT
<1>2. ring'[r].closed
  BY <1>0, Zenon DEF RingStep, Drained
<1>3. ASSUME NEW s \in Places, ring'[r].array[s].val # Null
      PROVE  ring'[r].array[s].idx < ring'[r].head
  <2>1. ring[r].array[s].idx \in Nat /\ ring'[r].array[s].idx \in Nat
    BY <1>0, Fields, NewFields
  <2>2. \/ ring'[r].array[s] = ring[r].array[s]
        \/ r = loc[t].rq /\ pc[t] = "e_cas" /\ ring'[r].array[s].idx = loc[t].t
        \/ ring'[r].array[s].idx = ring[r].array[s].idx /\ ring[r].array[s].val # Null
    BY <1>0, <1>3, CellSteps
  <2>3. ring'[r].array[s].idx < ring[r].head
    BY <1>3, <2>2 DEF Drained, FillLabels
  <2> QED BY <1>1, <2>1, <2>3, SMT
<1>4. ASSUME NEW u \in Threads, pc'[u] \in FillLabels, loc'[u].rq = r
      PROVE  loc'[u].t < ring'[r].head
  <2>1. ASSUME pc[u] \in FillLabels, loc[u].rq = r, loc'[u].t = loc[u].t
        PROVE  loc'[u].t < ring'[r].head
    <3>1. loc[u].t < ring[r].head /\ loc[u].t \in Nat
      BY <2>1 DEF Drained, LocalsOK, LocalType
    <3> QED BY <1>1, <2>1, <3>1, SMT
  <2>2. CASE u = t
    BY <1>4, <2>1, <2>2, MoverPlace DEF Drained, My
  <2>3. CASE u # t
    BY <1>4, <2>1, <2>3, OthersStay
  <2> QED BY <2>2, <2>3
<1> QED BY <1>2, <1>3, <1>4 DEF Drained

\* The second look at tail, after the next ring was read, is what a dequeuer that
\* leaves a ring relies on: no place of a closed ring is handed out anew.
LEMMA DrainedAtMove ==
    ASSUME TypeOK, ChainOfRings, LocalsOK, OnChain, PlacesTaken,
           NEW t \in Threads, pc[t] = "d_tail2", My(t).tail <= loc[t].t + 1
    PROVE  Drained(loc[t].rq)
<1> DEFINE r == loc[t].rq
<1>1. r \in 1 .. used /\ ring[r].closed
  BY NextRing DEF My
<1>2. loc[t].t < ring[r].head /\ ring[r].tail <= loc[t].t + 1 /\ loc[t].t \in Nat
  BY DEF PlacesTaken, PastLabels, My, LocalsOK, LocalType
<1> HIDE DEF r
<1>3. ring[r].head \in Nat /\ ring[r].tail \in Nat
  BY <1>1, Fields
<1>4. ring[r].tail <= ring[r].head
  BY <1>2, <1>3, SMT
<1>5. ASSUME NEW i \in Nat, i < ring[r].tail PROVE i < ring[r].head
  BY <1>3, <1>4, <1>5, SMT
<1>6. ASSUME NEW s \in Places, ring[r].array[s].val # Null
      PROVE  ring[r].array[s].idx < ring[r].head
  BY <1>1, <1>5, <1>6, Fields DEF PlacesTaken
<1>7. ASSUME NEW u \in Threads, pc[u] \in FillLabels, loc[u].rq = r
      PROVE  loc[u].t < ring[r].head
  BY <1>5, <1>7 DEF PlacesTaken, My, LocalsOK, LocalType
<1> QED BY <1>1, <1>6, <1>7 DEF Drained, r

LEMMA LeftStay ==
    ASSUME TypeOK, ChainOfRings, LocalsOK, OnChain, InOwnCall, CellsRead, PlacesTaken, LeftAreDrained,
           NEW t \in Threads, Step(t)
    PROVE  LeftAreDrained'
<1>0. TypeOK' /\ first' >= first /\ first \in 1 .. used /\ used \in Nat
  <2>1. used \in Rings
    BY Typed
  <2>2. used \in Nat
    BY <2>1, RingAssumption, SMT DEF Rings
  <2> QED BY <2>2, ChainStays DEF ChainOfRings
<1>1. \A r \in 1 .. used : Drained(r) => Drained(r)'
  BY DrainedStays
<1>2. ASSUME NEW r \in 1 .. first' - 1 PROVE Drained(r)'
  <2>1. CASE first' = first
    <3>1. r \in 1 .. first - 1 /\ r \in 1 .. used
      BY <1>0, <2>1, SMT
    <3> QED BY <3>1, <1>1 DEF LeftAreDrained
  <2>2. CASE pc[t] = "d_move" /\ first = loc[t].rq /\ first' = loc[t].next
    <3>1. first' = first + 1
      BY <2>2, NextRing
    <3>2. (r \in 1 .. first - 1 \/ r = first) /\ r \in 1 .. used
      BY <1>0, <3>1, SMT
    <3> QED BY <2>2, <3>2, <1>1 DEF LeftAreDrained
  <2> QED BY <2>1, <2>2, EndsMove
<1>3. ASSUME NEW u \in Threads, pc'[u] = "d_move", NEW q, q = loc'[u].rq PROVE Drained(q)'
  <2>1. CASE u # t
    <3>1. pc[u] = "d_move" /\ loc'[u] = loc[u]
      BY <1>3, <2>1, OthersStay
    <3>2. q \in 1 .. used
      BY <1>3, <3>1, NextRing
    <3>3. Drained(q)
      BY <1>3, <3>1 DEF LeftAreDrained
    <3> QED BY <3>2, <3>3, <1>1
  <2>2. CASE u = t
    <3>0. ~EnqStep(t)
      <4> SUFFICES ASSUME EnqStep(t) PROVE FALSE
        OBVIOUS
      <4>1. EnqMove(t)
        BY <1>3, <2>2, EnqMoves DEF RingLabels, DeqLabels
      <4> QED BY <1>3, <2>2, <4>1, Zenon DEF EnqMove
    <3>1. DeqMove(t)
      BY <1>3, <2>2, <3>0, DeqMoves DEF RingLabels, DeqLabels, Step
    <3>2. pc[t] = "d_tail2" /\ loc'[t] = loc[t] /\ My(t).tail <= loc[t].t + 1
      BY <1>3, <2>2, <3>1, Zenon DEF DeqMove
    <3>3. Drained(q)
      BY <1>3, <2>2, <3>2, DrainedAtMove
    <3>4. q \in 1 .. used
      BY <1>3, <2>2, <3>2, NextRing
    <3> QED BY <3>3, <3>4, <1>1
  <2> QED BY <2>1, <2>2
<1> QED BY <1>2, <1>3, Zenon DEF LeftAreDrained, Drained

-----------------------------------------------------------------------------
\* The invariant is inductive.
LEMMA InvInit == Init => IInv
<1> SUFFICES ASSUME Init PROVE IInv
  OBVIOUS
<1>1. /\ ClientInit /\ first = 1 /\ last = 1 /\ used = 1 /\ ring = [r \in Rings |-> EmptyRing]
      /\ loc = [t \in Threads |-> NoLocals] /\ \A t \in Threads : pc[t] = "idle"
  BY DEF Init, ClientInit
<1>2. 1 \in Rings /\ 1 .. used = {1} /\ 1 .. first - 1 = {} /\ 1 .. used - 1 = {}
  BY <1>1, RingAssumption, SMT DEF Rings
<1>3. /\ EmptyRing \in RingType /\ EmptyRing.head = 0 /\ EmptyRing.next = NoRing
      /\ \A s \in Places : EmptyRing.array[s].val = Null /\ EmptyRing.array[s].idx = s
  <2>1. \A s \in Places : s \in Nat
    BY RingAssumption, SMT DEF Places
  <2>2. PICK A : A = [s \in Places |-> Cell(Null, s, FALSE)]
    OBVIOUS
  <2>3. A \in [Places -> CellType] /\ \A s \in Places : A[s].val = Null /\ A[s].idx = s
    BY <2>1, <2>2 DEF Cell, CellType, Payloads
  <2>4. EmptyRing = [head |-> 0, tail |-> 0, closed |-> FALSE, next |-> NoRing, array |-> A]
    BY <2>2 DEF EmptyRing
  <2> QED BY <2>3, <2>4 DEF RingType
<1>4. NoLocals \in LocalType
  BY DEF NoLocals, LocalType, RingOrNone, Cell, CellType, Payloads
<1>5. LocalsOK
  BY <1>1, <1>4 DEF LocalsOK
<1>6. ring \in [Rings -> RingType] /\ ring[1] = EmptyRing
  BY <1>1, <1>2, <1>3
<1>7. TypeOK
  BY <1>1, <1>2, <1>5, <1>6, InitType DEF TypeOK, LocalsOK, LocalType, RingOrNone
<1>8. ChainOfRings
  BY <1>1, <1>2, <1>3, <1>6 DEF ChainOfRings
<1>9. CellsServeTheirPlaces
  <2> SUFFICES ASSUME NEW s \in Places PROVE s % RingSize = s
    BY <1>2, <1>3, <1>6 DEF CellsServeTheirPlaces
  <2>1. s \in 0 .. RingSize - 1 /\ s \in Nat
    BY RingAssumption, SMT DEF Places
  <2>2. /\ s % RingSize \in 0 .. RingSize - 1 /\ s \div RingSize \in Nat
        /\ s = RingSize * (s \div RingSize) + (s % RingSize)
    BY <2>1, RingAssumption, DivMod
  <2>3. RingSize * 0 + s = s /\ 0 \in Nat
    BY <2>1, RingAssumption, SMT
  <2>4. RingSize * 0 + s = RingSize * (s \div RingSize) + (s % RingSize)
    BY <2>2, <2>3
  <2> QED BY <2>1, <2>2, <2>3, <2>4, RingAssumption, ModUnique
<1>10. InOwnCall /\ OnChain /\ CellsRead /\ UnsafeTested
  BY <1>1 DEF InOwnCall, InCallOf, EnqLabels, DeqLabels, OnChain, CellsRead, UnsafeTested
<1>11. PlacesTaken
  BY <1>1, <1>2, <1>3, <1>6 DEF PlacesTaken, FillLabels, TakeLabels, PastLabels
<1>12. PassedAreDead
  <2>1. \A p \in Nat : ~(p < 0)
    BY SMT
  <2> QED BY <2>1, <1>2, <1>3, <1>6 DEF PassedAreDead
<1>13. LeftAreDrained
  BY <1>1, <1>2 DEF LeftAreDrained
<1> QED BY <1>7, <1>8, <1>9, <1>5, <1>10, <1>11, <1>12, <1>13 DEF IInv, RingsInv

LEMMA InvStep ==
    ASSUME IInv, NEW t \in Threads, Step(t)
    PROVE  IInv'
<1> USE DEF IInv, RingsInv
<1>1. TypeOK' /\ ChainOfRings'
  BY ChainStays
<1>2. CellsServeTheirPlaces'
  BY CellsServe
<1>3. InOwnCall' /\ LocalsOK' /\ OnChain'
  BY CallsGoOn, LocalsStay, OnChainStays
<1>4. PlacesTaken'
  BY PlacesStay
<1>5. CellsRead'
  BY ReadsStay
<1>6. UnsafeTested'
  BY TestsStay
<1>7. PassedAreDead'
  BY DeadStays
<1>8. LeftAreDrained'
  BY LeftStay
<1> QED BY <1>1, <1>2, <1>3, <1>4, <1>5, <1>6, <1>7, <1>8

LEMMA InvNext == IInv /\ [Next]_vars => IInv'
<1> SUFFICES ASSUME IInv, [Next]_vars PROVE IInv'
  OBVIOUS
<1>1. ASSUME NEW t \in Threads, Step(t) PROVE IInv'
  BY <1>1, InvStep
<1>2. CASE UNCHANGED vars
  <2>1. /\ ip' = ip /\ pc' = pc /\ cnt' = cnt /\ ret' = ret /\ first' = first /\ last' = last
        /\ ring' = ring /\ used' = used /\ loc' = loc
    BY <1>2 DEF vars
  <2> USE <2>1
  <2>2. RingsInv' /\ InOwnCall' /\ LocalsOK'
    BY DEF IInv, RingsInv, TypeOK, ClientTypeOK, InCall, ChainOfRings, CellsServeTheirPlaces,
       InOwnCall, InCallOf, Current, LocalsOK
  <2>3. OnChain' /\ PlacesTaken' /\ CellsRead'
    BY DEF IInv, OnChain, PlacesTaken, CellsRead, My, MyCell, Place
  <2>4. PassedAreDead' /\ UnsafeTested'
    BY DEF IInv, PassedAreDead, UnsafeTested, Claimed, CellOf, InCall, Current, My, MyCell, Place
  <2>5. LeftAreDrained'
    BY DEF IInv, LeftAreDrained, Drained
  <2> QED BY <2>2, <2>3, <2>4, <2>5 DEF IInv
<1> QED BY <1>1, <1>2 DEF Next, Terminating

LEMMA InvHolds == Spec => []IInv
BY InvInit, InvNext, PTL DEF Spec

\* RingsInv, the types included: the rings are one chain, every ring but the
\* last is closed, last lags the end by at most one, and a cell serves the
\* places of its own residue only.
THEOREM RingsCorrect == Spec => []RingsInv
<1>1. IInv => RingsInv
  BY DEF IInv
<1> QED BY <1>1, InvHolds, PTL

\* NoItemLeftBehind: no dequeuer goes past a place whose item it could still
\* have had, and first leaves no ring that has or will have an item nobody has
\* claimed.
THEOREM NothingLeftBehind == Spec => []NoItemLeftBehind
<1>1. IInv => NoItemLeftBehind
  <2> SUFFICES ASSUME IInv, NEW r \in 1 .. used, NEW s \in Places,
                      NEW c, c = ring[r].array[s], c.val # Null, r < first \/ c.idx < ring[r].head
               PROVE  Claimed(r, c.idx)
    BY DEF NoItemLeftBehind
  <2>1. c.idx \in Nat /\ c.idx % RingSize = s
    BY Fields DEF IInv, RingsInv, CellsServeTheirPlaces
  <2>2. c.idx < ring[r].head
    <3>1. CASE r < first
      <4>1. r \in 1 .. first - 1
        <5>1. first \in 1 .. used /\ used \in Rings
          BY Typed DEF IInv, RingsInv, ChainOfRings
        <5> QED BY <3>1, <5>1, SMT
      <4>2. Drained(r)
        BY <4>1 DEF IInv, LeftAreDrained
      <4> QED BY <4>2 DEF Drained
    <3> QED BY <3>1
  <2>3. Claimed(r, c.idx) \/ Dead(c, c.idx)
    BY <2>1, <2>2 DEF IInv, PassedAreDead, CellOf
  <2>4. ~(c.idx > c.idx)
    BY <2>1, SMT
  <2> QED BY <2>3, <2>4 DEF Dead
<1> QED BY <1>1, InvHolds, PTL
=============================================================================
