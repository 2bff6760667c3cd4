--------------------------- MODULE FastMPMCProofs ---------------------------
(***************************************************************************)
(* Type correctness and slot exclusion of the FastMPMC ring, for every     *)
(* capacity of at least two slots and every set of threads and scripts.    *)
(***************************************************************************)
EXTENDS FastMPMC, QueueLemmas

\* The index computed from a ticket is inside the array.
LEMMA SlotBound == \A p \in Nat : Slot(p) \in Slots
  BY CapacityAssumption, SMT DEF Slot, Slots

\* One lap further is the same slot.
LEMMA SlotLap == \A p \in Nat : Slot(p + Capacity) = Slot(p)
<1>1. Capacity \in Nat \ {0}
  BY CapacityAssumption, SMT
<1> QED BY <1>1, ModLap DEF Slot

\* Two tickets less than a lap apart use two slots.
LEMMA SlotInj ==
    ASSUME NEW p \in Nat, NEW q \in Nat, p < q, q < p + Capacity
    PROVE  Slot(p) # Slot(q)
<1>1. Capacity \in Nat \ {0}
  BY CapacityAssumption, SMT
<1> QED BY <1>1, ModInj DEF Slot

-----------------------------------------------------------------------------
\* A freshly initialised ring has its types.
LEMMA TypeInit == Init => TypeOK
<1> SUFFICES ASSUME Init PROVE TypeOK
  OBVIOUS
<1>1. ClientTypeOK(Labels)
  BY InitType DEF Init
<1>2. version \in [Slots -> Nat]
  BY CapacityAssumption, SMT DEF Init, Slots
<1>3. m_head \in Nat /\ m_tail \in Nat /\ tk \in [Threads -> Nat]
  BY SMT DEF Init
<1>4. value \in [Slots -> Payloads] /\ got \in [Threads -> Payloads]
  BY SMT DEF Init, Payloads
<1> QED BY <1>1, <1>2, <1>3, <1>4 DEF TypeOK

\* Every step of enqueue and dequeue keeps the types.
LEMMA TypeStep ==
    ASSUME TypeOK, NEW t \in Threads, Step(t)
    PROVE  TypeOK'
<1> USE DEF TypeOK
<1>0. /\ ClientTypeOK(Labels)
      /\ Slot(tk[t]) \in Slots
      /\ Payloads \subseteq Results
      /\ Ok \in Results /\ Empty \in Results
  BY SlotBound, SMT DEF Results
<1>l. /\ {"e_tail", "e_ver", "e_cas", "e_val", "e_pub"} \subseteq Labels
      /\ {"d_head", "d_tail", "d_ver", "d_cas", "d_val", "d_rel"} \subseteq Labels
  BY Zenon DEF Labels, EnqLabels, DeqLabels
<1>1. CASE EnqCall(t)
  <2>1. ClientTypeOK(Labels)'
    BY <1>1, <1>0, <1>l, InvokeType DEF EnqCall
  <2> QED BY <2>1, <1>1 DEF EnqCall, shared
<1>2. CASE EnqLoadTail(t)
  <2>1. ClientTypeOK(Labels)'
    BY <1>2, <1>0, <1>l, GotoType DEF EnqLoadTail, InCall
  <2> QED BY <2>1, <1>2 DEF EnqLoadTail, shared
<1>3. CASE EnqLoadVersion(t)
  <2>1. ClientTypeOK(Labels)'
    BY <1>3, <1>0, <1>l, GotoType, RetryType DEF EnqLoadVersion, InCall
  <2> QED BY <2>1, <1>3 DEF EnqLoadVersion, shared
<1>4. CASE EnqClaim(t)
  <2>1. ClientTypeOK(Labels)'
    BY <1>4, <1>0, <1>l, GotoType, RetryType DEF EnqClaim, InCall
  <2>2. m_tail' \in Nat
    BY <1>4, SMT DEF EnqClaim
  <2> QED BY <2>1, <2>2, <1>4 DEF EnqClaim
<1>5. CASE EnqWriteValue(t)
  <2>1. ClientTypeOK(Labels)'
    BY <1>5, <1>0, <1>l, GotoType DEF EnqWriteValue, InCall
  <2>2. Current(t).val \in Payloads
    BY <1>5, <1>0, CurrentIsCall DEF EnqWriteValue, InCall, Calls
  <2> QED BY <2>1, <2>2, <1>0, <1>5 DEF EnqWriteValue
<1>6. CASE EnqPublish(t)
  <2>1. ClientTypeOK(Labels)'
    BY <1>6, <1>0, ReturnType DEF EnqPublish
  <2>2. version' \in [Slots -> Nat]
    BY <1>6, <1>0, SMT DEF EnqPublish, Published
  <2> QED BY <2>1, <2>2, <1>6 DEF EnqPublish
<1>7. CASE DeqCall(t)
  <2>1. ClientTypeOK(Labels)'
    BY <1>7, <1>0, <1>l, InvokeType DEF DeqCall
  <2> QED BY <2>1, <1>7 DEF DeqCall, shared
<1>8. CASE DeqLoadHead(t)
  <2>1. ClientTypeOK(Labels)'
    BY <1>8, <1>0, <1>l, GotoType DEF DeqLoadHead, InCall
  <2> QED BY <2>1, <1>8 DEF DeqLoadHead, shared
<1>9. CASE DeqLoadTail(t)
  <2>1. ClientTypeOK(Labels)'
    BY <1>9, <1>0, <1>l, GotoType, ReturnType DEF DeqLoadTail, InCall
  <2> QED BY <2>1, <1>9 DEF DeqLoadTail, shared
<1>10. CASE DeqLoadVersion(t)
  <2>1. ClientTypeOK(Labels)'
    BY <1>10, <1>0, <1>l, GotoType, RetryType DEF DeqLoadVersion, InCall
  <2> QED BY <2>1, <1>10 DEF DeqLoadVersion, shared
<1>11. CASE DeqClaim(t)
  <2>1. ClientTypeOK(Labels)'
    BY <1>11, <1>0, <1>l, GotoType, RetryType DEF DeqClaim, InCall
  <2>2. m_head' \in Nat
    BY <1>11, SMT DEF DeqClaim
  <2> QED BY <2>1, <2>2, <1>11 DEF DeqClaim
<1>12. CASE DeqReadValue(t)
  <2>1. ClientTypeOK(Labels)'
    BY <1>12, <1>0, <1>l, GotoType DEF DeqReadValue, InCall
  <2> QED BY <2>1, <1>0, <1>12 DEF DeqReadValue, shared
<1>13. CASE DeqRelease(t)
  <2>1. ClientTypeOK(Labels)'
    BY <1>13, <1>0, ReturnType DEF DeqRelease
  <2>2. version' \in [Slots -> Nat]
    BY <1>13, <1>0, CapacityAssumption, SMT DEF DeqRelease, Released
  <2> QED BY <2>1, <2>2, <1>13 DEF DeqRelease
<1> QED BY <1>1, <1>2, <1>3, <1>4, <1>5, <1>6, <1>7, <1>8, <1>9, <1>10,
           <1>11, <1>12, <1>13 DEF Step, EnqStep, DeqStep

-----------------------------------------------------------------------------
\* Two different tickets less than one lap apart use different slots.
LEMMA SlotsDiffer ==
    \A p, q \in Nat :
        p # q /\ p < q + Capacity /\ q < p + Capacity => Slot(p) # Slot(q)
<1> SUFFICES ASSUME NEW p \in Nat, NEW q \in Nat,
                    p # q, p < q + Capacity, q < p + Capacity
             PROVE  Slot(p) # Slot(q)
  OBVIOUS
<1>1. p < q \/ q < p
  BY SMT
<1> QED BY <1>1, SlotInj

\* The part of TypeOK the proofs about tickets need.
LEMMA PcType == TypeOK => /\ pc \in [Threads -> Labels \cup {"idle", "blocked", "assert"}]
                          /\ tk \in [Threads -> Nat]
                          /\ version \in [Slots -> Nat]
                          /\ m_head \in Nat
                          /\ m_tail \in Nat
  BY DEF TypeOK, ClientTypeOK

\* A step that leaves m_head, m_tail and version alone and moves one thread
\* to a label whose conditions hold keeps TicketInv.
LEMMA LocalStep ==
    ASSUME TypeOK, TicketInv, NEW t \in Threads, NEW l, NEW k \in Nat,
           pc' = [pc EXCEPT ![t] = l], tk' = [tk EXCEPT ![t] = k],
           UNCHANGED <<m_head, m_tail, version>>,
           l \in {"e_val", "e_pub"} => EnqOwns(t) /\ k = tk[t],
           l \in {"d_val", "d_rel"} => DeqOwns(t) /\ k = tk[t],
           l \in {"e_ver", "e_cas"} => k <= m_tail,
           l \in {"d_tail", "d_ver", "d_cas"} => k <= m_head,
           l \in {"d_ver", "d_cas"} => k < m_tail,
           l = "e_cas" /\ k = m_tail => version[Slot(k)] = k,
           l = "d_cas" /\ k = m_head => version[Slot(k)] = k + 1
    PROVE  TicketInv'
<1> USE PcType DEF TicketInv
<1>0. /\ \A u \in Threads : u # t => pc'[u] = pc[u] /\ tk'[u] = tk[u]
      /\ pc'[t] = l /\ tk'[t] = k
  BY SMT
<1>o. \A u \in Threads : /\ EnqOwns(u)' => EnqOwns(u) /\ tk'[u] = tk[u]
                         /\ DeqOwns(u)' => DeqOwns(u) /\ tk'[u] = tk[u]
  BY <1>0, SMT DEF EnqOwns, DeqOwns
<1>1. NoLap'
  BY <1>o, SMT DEF NoLap
<1>2. OwnersHoldVersions'
  BY <1>o, SMT DEF OwnersHoldVersions
<1>3. TicketsDistinct'
  BY <1>o, SMT DEF TicketsDistinct
<1>4. QueuedVersions'
  BY SMT DEF QueuedVersions
<1>5. CheckedVersions'
  BY <1>0, SMT DEF CheckedVersions
<1> QED BY <1>1, <1>2, <1>3, <1>4, <1>5

\* The same for a step to a label that carries no condition.
LEMMA PlainStep ==
    ASSUME TypeOK, TicketInv, NEW t \in Threads,
           NEW l \in {"idle", "blocked", "e_tail", "d_head"},
           pc' = [pc EXCEPT ![t] = l], UNCHANGED <<m_head, m_tail, version, tk>>
    PROVE  TicketInv'
<1> DEFINE k == tk[t]
<1>1. k \in Nat /\ tk' = [tk EXCEPT ![t] = k]
  BY PcType, SMT
<1>2. /\ l \notin {"e_val", "e_pub"} /\ l \notin {"d_val", "d_rel"}
      /\ l \notin {"e_ver", "e_cas"} /\ l \notin {"d_tail", "d_ver", "d_cas"}
      /\ l \notin {"d_ver", "d_cas"} /\ l # "e_cas" /\ l # "d_cas"
  BY SMT
<1> HIDE DEF k
<1> QED BY <1>1, <1>2, LocalStep, Zenon

\* Losing a compare-and-swap, or finding the wrong version, keeps TicketInv.
LEMMA RetryStep ==
    ASSUME TypeOK, TicketInv, NEW t \in Threads,
           NEW entry \in {"e_tail", "d_head"}, Retry(t, entry),
           UNCHANGED <<m_head, m_tail, version, tk>>
    PROVE  TicketInv'
<1>1. PICK l \in {entry, "blocked"} : pc' = [pc EXCEPT ![t] = l]
  BY RetryMoves
<1>2. l \in {"idle", "blocked", "e_tail", "d_head"}
  BY SMT
<1> QED BY <1>1, <1>2, PlainStep

-----------------------------------------------------------------------------
\* An enqueuer wins m_tail: its slot is free, so the ring was not full and no
\* dequeuer was still a lap behind.
LEMMA EnqWins ==
    ASSUME TypeOK, TicketInv, NEW t \in Threads,
           pc[t] = "e_cas", m_tail = tk[t], m_tail' = tk[t] + 1,
           pc' = [pc EXCEPT ![t] = "e_val"],
           UNCHANGED <<m_head, version, tk>>
    PROVE  TicketInv'
<1> USE PcType DEF TicketInv
<1>0. /\ \A u \in Threads : u # t => pc'[u] = pc[u]
      /\ pc'[t] = "e_val" /\ tk' = tk /\ ~EnqOwns(t) /\ ~DeqOwns(t)
      /\ version' = version /\ version[Slot(m_tail)] = m_tail
      /\ m_tail' = m_tail + 1 /\ m_head' = m_head /\ m_head <= m_tail
  BY SMT DEF CheckedVersions, EnqOwns, DeqOwns, NoLap
<1>o. /\ \A u \in Threads : EnqOwns(u)' <=> (EnqOwns(u) \/ u = t)
      /\ \A u \in Threads : DeqOwns(u)' <=> DeqOwns(u)
  BY <1>0, SMT DEF EnqOwns, DeqOwns
<1>1. NoLap'
  <2>1. m_tail # m_head + Capacity
    <3>1. SUFFICES ASSUME m_tail = m_head + Capacity PROVE FALSE
      OBVIOUS
    <3>2. Slot(m_tail) = Slot(m_head)
      BY <3>1, SlotLap
    <3>3. version[Slot(m_head)] \in {m_head, m_head + 1}
      BY <3>1, CapacityAssumption, SMT DEF QueuedVersions
    <3> QED BY <3>1, <3>2, <3>3, <1>0, CapacityAssumption, SMT
  <2>2. ASSUME NEW u \in Threads, DeqOwns(u) PROVE m_tail # tk[u] + Capacity
    <3>1. SUFFICES ASSUME m_tail = tk[u] + Capacity PROVE FALSE
      OBVIOUS
    <3>2. Slot(m_tail) = Slot(tk[u])
      BY <3>1, SlotLap
    <3> QED BY <2>2, <3>1, <3>2, <1>0, CapacityAssumption, SMT
        DEF OwnersHoldVersions
  <2> QED BY <2>1, <2>2, <1>0, <1>o, CapacityAssumption, SMT DEF NoLap
<1>2. OwnersHoldVersions'
  BY <1>0, <1>o, SMT DEF OwnersHoldVersions
<1>3. TicketsDistinct'
  BY <1>0, <1>o, SMT DEF TicketsDistinct, OwnersHoldVersions
<1>4. QueuedVersions'
  <2> SUFFICES ASSUME NEW p \in m_head .. m_tail
               PROVE  version[Slot(p)] \in {p, p + 1}
    BY <1>0, SMT DEF QueuedVersions
  <2> QED BY <1>0, SMT DEF QueuedVersions
<1>5. CheckedVersions'
  BY <1>0, SMT DEF CheckedVersions
<1> QED BY <1>1, <1>2, <1>3, <1>4, <1>5

\* A dequeuer wins m_head: its slot holds an item, so no enqueuer owns it.
LEMMA DeqWins ==
    ASSUME TypeOK, TicketInv, NEW t \in Threads,
           pc[t] = "d_cas", m_head = tk[t], m_head' = tk[t] + 1,
           pc' = [pc EXCEPT ![t] = "d_val"],
           UNCHANGED <<m_tail, version, tk>>
    PROVE  TicketInv'
<1> USE PcType DEF TicketInv
<1>0. /\ \A u \in Threads : u # t => pc'[u] = pc[u]
      /\ pc'[t] = "d_val" /\ tk' = tk /\ ~EnqOwns(t) /\ ~DeqOwns(t)
      /\ version' = version /\ version[Slot(m_head)] = m_head + 1
      /\ m_head' = m_head + 1 /\ m_tail' = m_tail /\ m_head < m_tail
      /\ m_tail <= m_head + Capacity
  BY SMT DEF CheckedVersions, EnqOwns, DeqOwns, NoLap
<1>o. /\ \A u \in Threads : EnqOwns(u)' <=> EnqOwns(u)
      /\ \A u \in Threads : DeqOwns(u)' <=> (DeqOwns(u) \/ u = t)
  BY <1>0, SMT DEF EnqOwns, DeqOwns
<1>1. NoLap'
  BY <1>0, <1>o, CapacityAssumption, SMT DEF NoLap
<1>2. OwnersHoldVersions'
  <2>1. \A u \in Threads : EnqOwns(u) => tk[u] # m_head
    BY <1>0, SMT DEF OwnersHoldVersions
  <2> QED BY <1>0, <1>o, <2>1, SMT DEF OwnersHoldVersions
<1>3. TicketsDistinct'
  BY <1>0, <1>o, SMT DEF TicketsDistinct, OwnersHoldVersions
<1>4. QueuedVersions'
  BY <1>0, SMT DEF QueuedVersions
<1>5. CheckedVersions'
  BY <1>0, SMT DEF CheckedVersions
<1> QED BY <1>1, <1>2, <1>3, <1>4, <1>5

\* The owner of a slot stores its version and leaves: every other ticket in
\* use is less than a lap away, so no other thread relied on that version.
LEMMA Publishes ==
    ASSUME TypeOK, TicketInv, NEW t \in Threads, pc[t] = "e_pub",
           pc' = [pc EXCEPT ![t] = "idle"],
           version' = [version EXCEPT ![Slot(tk[t])] = tk[t] + 1],
           UNCHANGED <<m_head, m_tail, tk>>
    PROVE  TicketInv'
<1> USE PcType DEF TicketInv
<1> DEFINE p == tk[t]
<1>0. /\ \A u \in Threads : u # t => pc'[u] = pc[u]
      /\ pc'[t] = "idle" /\ tk' = tk /\ m_head' = m_head /\ m_tail' = m_tail
      /\ EnqOwns(t) /\ p \in Nat /\ m_head <= p /\ p < m_tail
      /\ m_tail <= m_head + Capacity /\ version[Slot(p)] = p
  BY SMT DEF EnqOwns, NoLap, OwnersHoldVersions
<1>o. /\ \A u \in Threads : EnqOwns(u)' <=> (EnqOwns(u) /\ u # t)
      /\ \A u \in Threads : DeqOwns(u)' <=> DeqOwns(u)
  BY <1>0, SMT DEF EnqOwns, DeqOwns
<1>v. /\ version'[Slot(p)] = p + 1
      /\ \A q \in Nat : Slot(q) # Slot(p) => version'[Slot(q)] = version[Slot(q)]
  BY <1>0, SlotBound, SMT
<1>d. \A q \in Nat : /\ q # p
                     /\ q < p + Capacity
                     /\ p < q + Capacity
                     => version'[Slot(q)] = version[Slot(q)]
  BY <1>0, <1>v, SlotsDiffer
<1> HIDE DEF p
<1>1. NoLap'
  BY <1>0, <1>o, SMT DEF NoLap
<1>2. OwnersHoldVersions'
  <2>1. ASSUME NEW u \in Threads, EnqOwns(u)'
        PROVE  /\ m_head <= tk[u] /\ tk[u] < m_tail
               /\ version'[Slot(tk[u])] = tk[u]
    <3>1. EnqOwns(u) /\ tk[u] # p
      BY <2>1, <1>0, <1>o DEF TicketsDistinct, p
    <3> QED BY <3>1, <1>0, <1>d, CapacityAssumption, SMT DEF OwnersHoldVersions
  <2>2. ASSUME NEW u \in Threads, DeqOwns(u)'
        PROVE  tk[u] < m_head /\ version'[Slot(tk[u])] = tk[u] + 1
    <3>1. DeqOwns(u) /\ tk[u] < m_head /\ m_tail <= tk[u] + Capacity
      BY <2>2, <1>0, <1>o, SMT DEF OwnersHoldVersions, NoLap
    <3> QED BY <3>1, <1>0, <1>d, CapacityAssumption, SMT DEF OwnersHoldVersions
  <2> QED BY <2>1, <2>2, <1>0 DEF OwnersHoldVersions
<1>3. TicketsDistinct'
  BY <1>0, <1>o, SMT DEF TicketsDistinct
<1>4. QueuedVersions'
  <2> SUFFICES ASSUME NEW q \in m_head .. m_tail - 1
               PROVE  version'[Slot(q)] \in {q, q + 1}
    BY <1>0 DEF QueuedVersions
  <2>1. CASE q = p
    BY <2>1, <1>v
  <2>2. CASE q # p
    <3>1. version'[Slot(q)] = version[Slot(q)]
      BY <2>2, <1>0, <1>d, CapacityAssumption, SMT
    <3> QED BY <3>1, SMT DEF QueuedVersions
  <2> QED BY <2>1, <2>2
<1>5. CheckedVersions'
  <2>1. ASSUME NEW u \in Threads, pc[u] = "e_cas", tk[u] = m_tail
        PROVE  version'[Slot(tk[u])] = tk[u]
    <3>1. version[Slot(m_tail)] = m_tail
      BY <2>1, SMT DEF CheckedVersions
    <3>2. Slot(m_tail) # Slot(p)
      <4>1. CASE m_tail < p + Capacity
        BY <4>1, <1>0, SlotsDiffer, CapacityAssumption, SMT
      <4>2. CASE m_tail = p + Capacity
        BY <4>2, <3>1, <1>0, SlotLap, CapacityAssumption, SMT
      <4> QED BY <4>1, <4>2, <1>0, CapacityAssumption, SMT
    <3> QED BY <2>1, <3>1, <3>2, <1>v
  <2>2. ASSUME NEW u \in Threads, pc[u] = "d_cas", tk[u] = m_head
        PROVE  version'[Slot(tk[u])] = tk[u] + 1
    <3>1. version[Slot(m_head)] = m_head + 1 /\ m_head # p
      BY <2>2, <1>0, SMT DEF CheckedVersions
    <3> QED BY <2>2, <3>1, <1>0, <1>d, CapacityAssumption, SMT
  <2> QED BY <2>1, <2>2, <1>0, SMT DEF CheckedVersions
<1> QED BY <1>1, <1>2, <1>3, <1>4, <1>5

\* A dequeuer leaves its slot to the ticket one lap on: nobody waits for that
\* version yet but the enqueuer of that ticket.
LEMMA Releases ==
    ASSUME TypeOK, TicketInv, NEW t \in Threads, pc[t] = "d_rel",
           pc' = [pc EXCEPT ![t] = "idle"],
           version' = [version EXCEPT ![Slot(tk[t])] = tk[t] + Capacity],
           UNCHANGED <<m_head, m_tail, tk>>
    PROVE  TicketInv'
<1> USE PcType DEF TicketInv
<1> DEFINE p == tk[t]
<1>0. /\ \A u \in Threads : u # t => pc'[u] = pc[u]
      /\ pc'[t] = "idle" /\ tk' = tk /\ m_head' = m_head /\ m_tail' = m_tail
      /\ DeqOwns(t) /\ p \in Nat /\ p < m_head /\ m_head <= m_tail
      /\ m_tail <= p + Capacity /\ version[Slot(p)] = p + 1
  BY SMT DEF DeqOwns, NoLap, OwnersHoldVersions
<1>o. /\ \A u \in Threads : EnqOwns(u)' <=> EnqOwns(u)
      /\ \A u \in Threads : DeqOwns(u)' <=> (DeqOwns(u) /\ u # t)
  BY <1>0, SMT DEF EnqOwns, DeqOwns
<1>d. \A q \in Nat : /\ q # p
                     /\ q < p + Capacity
                     /\ p < q + Capacity
                     => version'[Slot(q)] = version[Slot(q)]
  BY <1>0, SlotBound, SlotsDiffer, SMT
<1> HIDE DEF p
<1>1. NoLap'
  BY <1>0, <1>o, SMT DEF NoLap
<1>2. OwnersHoldVersions'
  <2>1. ASSUME NEW u \in Threads, EnqOwns(u)'
        PROVE  /\ m_head <= tk[u] /\ tk[u] < m_tail
               /\ version'[Slot(tk[u])] = tk[u]
    BY <2>1, <1>0, <1>o, <1>d, CapacityAssumption, SMT DEF OwnersHoldVersions
  <2>2. ASSUME NEW u \in Threads, DeqOwns(u)'
        PROVE  tk[u] < m_head /\ version'[Slot(tk[u])] = tk[u] + 1
    <3>1. /\ DeqOwns(u) /\ tk[u] # p
          /\ tk[u] < m_head /\ m_tail <= tk[u] + Capacity
      BY <2>2, <1>0, <1>o, SMT DEF OwnersHoldVersions, NoLap, TicketsDistinct, p
    <3> QED BY <3>1, <1>0, <1>d, CapacityAssumption, SMT DEF OwnersHoldVersions
  <2> QED BY <2>1, <2>2, <1>0 DEF OwnersHoldVersions
<1>3. TicketsDistinct'
  BY <1>0, <1>o, SMT DEF TicketsDistinct
<1>4. QueuedVersions'
  <2> SUFFICES ASSUME NEW q \in m_head .. m_tail - 1
               PROVE  version'[Slot(q)] \in {q, q + 1}
    BY <1>0 DEF QueuedVersions
  <2>1. version'[Slot(q)] = version[Slot(q)]
    BY <1>0, <1>d, CapacityAssumption, SMT
  <2> QED BY <2>1, SMT DEF QueuedVersions
<1>5. CheckedVersions'
  <2>1. ASSUME NEW u \in Threads, pc[u] = "e_cas", tk[u] = m_tail
        PROVE  version'[Slot(tk[u])] = tk[u]
    <3>1. version[Slot(m_tail)] = m_tail
      BY <2>1, SMT DEF CheckedVersions
    <3>2. m_tail # p + Capacity
      BY <3>1, <1>0, SlotLap, CapacityAssumption, SMT
    <3> QED BY <2>1, <3>1, <3>2, <1>0, <1>d, CapacityAssumption, SMT
  <2>2. ASSUME NEW u \in Threads, pc[u] = "d_cas", tk[u] = m_head
        PROVE  version'[Slot(tk[u])] = tk[u] + 1
    <3>1. version[Slot(m_head)] = m_head + 1 /\ m_head < m_tail
      BY <2>2, <1>0, SMT DEF CheckedVersions
    <3> QED BY <2>2, <3>1, <1>0, <1>d, CapacityAssumption, SMT
  <2> QED BY <2>1, <2>2, <1>0, SMT DEF CheckedVersions
<1> QED BY <1>1, <1>2, <1>3, <1>4, <1>5

-----------------------------------------------------------------------------
\* In an empty ring slot s is free for ticket s.
LEMMA TicketInit == Init => TicketInv
<1> SUFFICES ASSUME Init PROVE TicketInv
  OBVIOUS
<1>1. \A t \in Threads : pc[t] = "idle"
  BY SMT DEF Init, ClientInit
<1>2. m_head = 0 /\ m_tail = 0
  BY DEF Init
<1>3. \A t \in Threads : ~EnqOwns(t) /\ ~DeqOwns(t)
  BY <1>1, SMT DEF EnqOwns, DeqOwns
<1>4. NoLap
  BY <1>2, <1>3, CapacityAssumption, SMT DEF NoLap
<1>5. OwnersHoldVersions /\ TicketsDistinct
  BY <1>3 DEF OwnersHoldVersions, TicketsDistinct
<1>6. QueuedVersions
  BY <1>2, SMT DEF QueuedVersions
<1>7. CheckedVersions
  BY <1>1, SMT DEF CheckedVersions
<1> QED BY <1>4, <1>5, <1>6, <1>7 DEF TicketInv

\* One step of the code per case.
LEMMA TicketStep ==
    ASSUME TypeOK, TicketInv, NEW t \in Threads, Step(t)
    PROVE  TicketInv'
<1> USE PcType
<1>0. tk[t] \in Nat /\ tk = [tk EXCEPT ![t] = tk[t]]
  BY SMT
<1>1. CASE EnqCall(t)
  <2>1. pc' = [pc EXCEPT ![t] = "e_tail"] /\ UNCHANGED <<m_head, m_tail, version, tk>>
    BY <1>1, Zenon DEF EnqCall, Invoke, shared
  <2> QED BY <2>1, PlainStep
<1>2. CASE EnqLoadTail(t)
  <2>1. /\ pc' = [pc EXCEPT ![t] = "e_ver"] /\ tk' = [tk EXCEPT ![t] = m_tail]
        /\ UNCHANGED <<m_head, m_tail, version>> /\ m_tail \in Nat
    BY <1>2, Zenon DEF EnqLoadTail, Goto, shared
  <2>2. m_tail <= m_tail
    BY SMT
  <2> QED BY <2>1, <2>2, LocalStep
<1>3. CASE EnqLoadVersion(t)
  <2>1. tk[t] <= m_tail /\ UNCHANGED <<m_head, m_tail, version, tk>>
    BY <1>3, SMT DEF EnqLoadVersion, TicketInv, CheckedVersions, shared
  <2>2. CASE FreeFor(tk[t])
    <3>1. pc' = [pc EXCEPT ![t] = "e_cas"] /\ version[Slot(tk[t])] = tk[t]
      BY <1>3, <2>2, Zenon DEF EnqLoadVersion, FreeFor, Goto
    <3> QED BY <3>1, <2>1, <1>0, LocalStep
  <2>3. CASE ~FreeFor(tk[t])
    BY <1>3, <2>1, <2>3, RetryStep DEF EnqLoadVersion
  <2> QED BY <2>2, <2>3
<1>4. CASE EnqClaim(t)
  <2>1. CASE m_tail = tk[t] /\ m_tail' = tk[t] + 1 /\ Goto(t, "e_val")
    BY <1>4, <2>1, EnqWins, Zenon DEF EnqClaim, Goto
  <2>2. CASE Retry(t, "e_tail") /\ UNCHANGED m_tail
    BY <1>4, <2>2, RetryStep DEF EnqClaim
  <2> QED BY <1>4, <2>1, <2>2 DEF EnqClaim
<1>5. CASE EnqWriteValue(t)
  <2>1. pc' = [pc EXCEPT ![t] = "e_pub"] /\ UNCHANGED <<m_head, m_tail, version, tk>>
    BY <1>5, Zenon DEF EnqWriteValue, Goto
  <2>2. EnqOwns(t)
    BY <1>5, Zenon DEF EnqWriteValue, EnqOwns
  <2> QED BY <2>1, <2>2, <1>0, LocalStep
<1>6. CASE EnqPublish(t)
  BY <1>6, Publishes, Zenon DEF EnqPublish, Published, Return
<1>7. CASE DeqCall(t)
  <2>1. pc' = [pc EXCEPT ![t] = "d_head"] /\ UNCHANGED <<m_head, m_tail, version, tk>>
    BY <1>7, Zenon DEF DeqCall, Invoke, shared
  <2> QED BY <2>1, PlainStep
<1>8. CASE DeqLoadHead(t)
  <2>1. /\ pc' = [pc EXCEPT ![t] = "d_tail"] /\ tk' = [tk EXCEPT ![t] = m_head]
        /\ UNCHANGED <<m_head, m_tail, version>> /\ m_head \in Nat
    BY <1>8, Zenon DEF DeqLoadHead, Goto, shared
  <2>2. m_head <= m_head
    BY SMT
  <2> QED BY <2>1, <2>2, LocalStep
<1>9. CASE DeqLoadTail(t)
  <2>1. /\ tk[t] <= m_head /\ tk[t] <= m_tail
        /\ UNCHANGED <<m_head, m_tail, version, tk>>
    BY <1>9, SMT DEF DeqLoadTail, TicketInv, CheckedVersions, NoLap, shared
  <2>2. CASE tk[t] = m_tail
    <3>1. pc' = [pc EXCEPT ![t] = "idle"]
      BY <1>9, <2>2, Zenon DEF DeqLoadTail, Return
    <3> QED BY <3>1, <2>1, PlainStep
  <2>3. CASE tk[t] # m_tail
    <3>1. pc' = [pc EXCEPT ![t] = "d_ver"]
      BY <1>9, <2>3, Zenon DEF DeqLoadTail, Goto
    <3>2. tk[t] < m_tail
      BY <2>1, <2>3, SMT
    <3> QED BY <3>1, <3>2, <2>1, <1>0, LocalStep
  <2> QED BY <2>2, <2>3
<1>10. CASE DeqLoadVersion(t)
  <2>1. /\ tk[t] <= m_head /\ tk[t] < m_tail
        /\ UNCHANGED <<m_head, m_tail, version, tk>>
    BY <1>10, SMT DEF DeqLoadVersion, TicketInv, CheckedVersions, shared
  <2>2. CASE Holds(tk[t])
    <3>1. pc' = [pc EXCEPT ![t] = "d_cas"] /\ version[Slot(tk[t])] = tk[t] + 1
      BY <1>10, <2>2, Zenon DEF DeqLoadVersion, Holds, Goto
    <3> QED BY <3>1, <2>1, <1>0, LocalStep
  <2>3. CASE ~Holds(tk[t])
    BY <1>10, <2>1, <2>3, RetryStep DEF DeqLoadVersion
  <2> QED BY <2>2, <2>3
<1>11. CASE DeqClaim(t)
  <2>1. CASE m_head = tk[t] /\ m_head' = tk[t] + 1 /\ Goto(t, "d_val")
    BY <1>11, <2>1, DeqWins, Zenon DEF DeqClaim, Goto
  <2>2. CASE Retry(t, "d_head") /\ UNCHANGED m_head
    BY <1>11, <2>2, RetryStep DEF DeqClaim
  <2> QED BY <1>11, <2>1, <2>2 DEF DeqClaim
<1>12. CASE DeqReadValue(t)
  <2>1. pc' = [pc EXCEPT ![t] = "d_rel"] /\ UNCHANGED <<m_head, m_tail, version, tk>>
    BY <1>12, Zenon DEF DeqReadValue, Goto, shared
  <2>2. DeqOwns(t)
    BY <1>12, Zenon DEF DeqReadValue, DeqOwns
  <2> QED BY <2>1, <2>2, <1>0, LocalStep
<1>13. CASE DeqRelease(t)
  BY <1>13, Releases, Zenon DEF DeqRelease, Released, Return
<1> QED BY <1>1, <1>2, <1>3, <1>4, <1>5, <1>6, <1>7, <1>8, <1>9, <1>10,
           <1>11, <1>12, <1>13 DEF Step, EnqStep, DeqStep

\* No thread is in a call to begin with.
LEMMA CallInit == Init => InOwnCall
  BY SMT DEF Init, ClientInit, InOwnCall, InCallOf, EnqLabels, DeqLabels

\* No step leaves a thread at an access of a call it has not made.
LEMMA CallStep ==
    ASSUME TypeOK, InOwnCall, NEW t \in Threads, Step(t)
    PROVE  InOwnCall'
<1>1. CASE EnqCall(t)
  <2>1. "e_tail" \notin DeqLabels
    BY SMT DEF DeqLabels
  <2> QED BY <1>1, <2>1, CallBegins, Zenon DEF EnqCall, InOwnCall, TypeOK
<1>2. CASE DeqCall(t)
  <2>1. "d_head" \notin EnqLabels
    BY SMT DEF EnqLabels
  <2> QED BY <1>2, <2>1, CallBegins, Zenon DEF DeqCall, InOwnCall, TypeOK
<1>3. ASSUME pc[t] \in EnqLabels,
             \E l \in EnqLabels \cup {"idle", "blocked"} :
                pc' = [pc EXCEPT ![t] = l] /\ ip' = ip
      PROVE  InOwnCall'
  <2>1. PICK l \in EnqLabels \cup {"idle", "blocked"} :
                pc' = [pc EXCEPT ![t] = l] /\ ip' = ip
    BY <1>3
  <2>2. l \notin DeqLabels
    BY SMT DEF EnqLabels, DeqLabels
  <2> QED BY <1>3, <2>1, <2>2, CallGoesOn, Zenon DEF InOwnCall, TypeOK
<1>4. ASSUME pc[t] \in DeqLabels,
             \E l \in DeqLabels \cup {"idle", "blocked"} :
                pc' = [pc EXCEPT ![t] = l] /\ ip' = ip
      PROVE  InOwnCall'
  <2>1. PICK l \in DeqLabels \cup {"idle", "blocked"} :
                pc' = [pc EXCEPT ![t] = l] /\ ip' = ip
    BY <1>4
  <2>2. l \notin EnqLabels
    BY SMT DEF EnqLabels, DeqLabels
  <2> QED BY <1>4, <2>1, <2>2, CallGoesOn, Zenon DEF InOwnCall, TypeOK
<1>5. ASSUME NEW e, Retry(t, e)
      PROVE  \E l \in {e, "blocked"} : pc' = [pc EXCEPT ![t] = l] /\ ip' = ip
  BY <1>5, RetryMoves DEF Retry
<1>6. ASSUME NEW e, Goto(t, e) PROVE pc' = [pc EXCEPT ![t] = e] /\ ip' = ip
  BY <1>6 DEF Goto
<1>7. ASSUME NEW e, Return(t, e) PROVE pc' = [pc EXCEPT ![t] = "idle"] /\ ip' = ip
  BY <1>7 DEF Return
<1>8. CASE EnqStep(t) /\ ~EnqCall(t)
  <2>1. pc[t] \in EnqLabels
    BY <1>8, Zenon DEF EnqStep, EnqLoadTail, EnqLoadVersion, EnqClaim,
       EnqWriteValue, EnqPublish, EnqLabels
  <2>2. \E l \in EnqLabels \cup {"idle", "blocked"} :
           pc' = [pc EXCEPT ![t] = l] /\ ip' = ip
    BY <1>5, <1>6, <1>7, <1>8, Zenon DEF EnqStep, EnqLoadTail, EnqLoadVersion,
       EnqClaim, EnqWriteValue, EnqPublish, EnqLabels
  <2> QED BY <2>1, <2>2, <1>3
<1>9. CASE DeqStep(t) /\ ~DeqCall(t)
  <2>1. pc[t] \in DeqLabels
    BY <1>9, Zenon DEF DeqStep, DeqLoadHead, DeqLoadTail, DeqLoadVersion,
       DeqClaim, DeqReadValue, DeqRelease, DeqLabels
  <2>2. \E l \in DeqLabels \cup {"idle", "blocked"} :
           pc' = [pc EXCEPT ![t] = l] /\ ip' = ip
    BY <1>5, <1>6, <1>7, <1>9, Zenon DEF DeqStep, DeqLoadHead, DeqLoadTail,
       DeqLoadVersion, DeqClaim, DeqReadValue, DeqRelease, DeqLabels
  <2> QED BY <2>1, <2>2, <1>4
<1> QED BY <1>1, <1>2, <1>8, <1>9 DEF Step

\* A step that changes nothing keeps them.
LEMMA StutterKeeps ==
    ASSUME Inv, UNCHANGED vars
    PROVE  Inv'
<1> USE DEF vars, Inv
<1>1. TypeOK'
  BY DEF TypeOK, ClientTypeOK, InCall
<1>2. NoLap' /\ OwnersHoldVersions' /\ TicketsDistinct'
  BY DEF TicketInv, NoLap, OwnersHoldVersions, TicketsDistinct, EnqOwns, DeqOwns
<1>3. QueuedVersions' /\ CheckedVersions'
  BY DEF TicketInv, QueuedVersions, CheckedVersions
<1>4. InOwnCall'
  BY DEF InOwnCall, InCallOf, Current
<1> QED BY <1>1, <1>2, <1>3, <1>4 DEF TicketInv

-----------------------------------------------------------------------------
\* The variables of fastmpmc-wrapper.h keep their types, and the versions,
\* m_head, m_tail and the tickets in use keep the relation the algorithm
\* rests on, for every capacity >= 2.
THEOREM TicketsCorrect == Spec => []Inv
<1>1. Init => Inv
  BY TypeInit, CallInit, TicketInit DEF Inv
<1>2. Inv /\ [Next]_vars => Inv'
  BY TypeStep, CallStep, TicketStep, StutterKeeps DEF Next, Terminating, Inv
<1> QED BY <1>1, <1>2, PTL DEF Spec

\* Two owners of one slot would hold tickets a lap apart, or one version for
\* two.
LEMMA OwnersApart == ASSUME Inv PROVE SlotExclusive
<1> USE PcType DEF TicketInv, Inv
<1> SUFFICES ASSUME NEW t \in Threads, NEW u \in Threads,
                    t # u, Owns(t), Owns(u)
             PROVE  Slot(tk[t]) # Slot(tk[u])
  BY DEF SlotExclusive
<1>1. CASE EnqOwns(t) /\ EnqOwns(u)
  BY <1>1, SlotsDiffer, CapacityAssumption, SMT
     DEF NoLap, OwnersHoldVersions, TicketsDistinct
<1>2. CASE DeqOwns(t) /\ DeqOwns(u)
  BY <1>2, SlotsDiffer, CapacityAssumption, SMT
     DEF NoLap, OwnersHoldVersions, TicketsDistinct
<1>3. CASE EnqOwns(t) /\ DeqOwns(u)
  BY <1>3, SlotsDiffer, CapacityAssumption, SMT
     DEF NoLap, OwnersHoldVersions
<1>4. CASE DeqOwns(t) /\ EnqOwns(u)
  BY <1>4, SlotsDiffer, CapacityAssumption, SMT
     DEF NoLap, OwnersHoldVersions
<1> QED BY <1>1, <1>2, <1>3, <1>4 DEF Owns

\* No two accesses to the plain payload field of a slot overlap: between its
\* winning CAS and its version store a thread has the slot for itself.
THEOREM SlotsExclusive == Spec => []SlotExclusive
<1> QED BY OwnersApart, TicketsCorrect, PTL

\* The version of a slot only grows, so a stalled thread never finds the
\* version it read before coming back on a later lap.
THEOREM VersionsOnlyGrow == Spec => VersionsGrow
<1>1. ASSUME Inv, [Next]_vars
      PROVE  [\A s \in Slots : version'[s] >= version[s]]_vars
  <2> USE <1>1, PcType DEF TicketInv, Inv
  <2> SUFFICES ASSUME NEW t \in Threads, Step(t), NEW s \in Slots
               PROVE  version'[s] >= version[s]
    BY SMT DEF Next, Terminating
  <2>1. CASE EnqPublish(t)
    BY <2>1, SMT DEF EnqPublish, Published, OwnersHoldVersions, EnqOwns
  <2>2. CASE DeqRelease(t)
    BY <2>2, CapacityAssumption, SMT
       DEF DeqRelease, Released, OwnersHoldVersions, DeqOwns
  <2>3. CASE UNCHANGED version
    BY <2>3, SMT
  <2>4. EnqPublish(t) \/ DeqRelease(t) \/ UNCHANGED version
    BY DEF Step, EnqStep, DeqStep, shared, EnqCall, EnqLoadTail,
           EnqLoadVersion, EnqClaim, EnqWriteValue, DeqCall, DeqLoadHead,
           DeqLoadTail, DeqLoadVersion, DeqClaim, DeqReadValue
  <2> QED BY <2>1, <2>2, <2>3, <2>4
<1> QED BY <1>1, TicketsCorrect, PTL DEF Spec, VersionsGrow
-----------------------------------------------------------------------------
\* What the abstract queue sees of t, and that a step of t changes it for no
\* other thread.
LEMMA SeenOf ==
    ASSUME TypeOK, NEW t \in Threads, NEW l, pc' = [pc EXCEPT ![t] = l],
           \A u \in Threads \ {t} :
               /\ ret'[u] = ret[u] /\ got'[u] = got[u] /\ tk'[u] = tk[u]
               /\ pc[u] = "d_val" => value'[Slot(tk[u])] = value[Slot(tk[u])]
    PROVE  /\ Stage' = [Stage EXCEPT ![t] = Stage'[t]]
           /\ Stage'[t] = Stage[t] => Stage' = Stage
           /\ Res' = [Res EXCEPT ![t] = Res'[t]]
           /\ Res'[t] = Res[t] => Res' = Res
<1>1. \A u \in Threads \ {t} : pc'[u] = pc[u]
  BY PcType, Zenon
<1>2. \A u \in Threads \ {t} : Stage'[u] = Stage[u] /\ Res'[u] = Res[u]
  <2> SUFFICES ASSUME NEW u \in Threads, u # t
               PROVE  Stage'[u] = Stage[u] /\ Res'[u] = Res[u]
    BY Zenon
  <2>1. pc'[u] = pc[u] /\ ret'[u] = ret[u] /\ got'[u] = got[u] /\ tk'[u] = tk[u]
    BY <1>1
  <2>2. pc[u] = "d_val" => value'[Slot(tk'[u])] = value[Slot(tk[u])]
    BY <2>1
  <2> QED BY <2>1, <2>2 DEF Stage, Res, Owns, EnqOwns, DeqOwns, InCall, Slot
<1>3. /\ MapOn(Stage, Threads) /\ MapOn(Stage', Threads)
      /\ MapOn(Res, Threads) /\ MapOn(Res', Threads)
  <2>1. MapOn(Stage, Threads) /\ MapOn(Stage', Threads)
    BY Zenon DEF MapOn, Stage
  <2>2. MapOn(Res, Threads) /\ MapOn(Res', Threads)
    BY SMT DEF MapOn, Res
  <2> QED BY <2>1, <2>2
<1>4. Stage' = [Stage EXCEPT ![t] = Stage'[t]] /\ (Stage'[t] = Stage[t] => Stage' = Stage)
  BY <1>2, <1>3, ChangedAt
<1>5. Res' = [Res EXCEPT ![t] = Res'[t]] /\ (Res'[t] = Res[t] => Res' = Res)
  BY <1>2, <1>3, ChangedAt
<1> QED BY <1>4, <1>5

\* Where a thread is decides what the abstract queue sees of its call.
LEMMA SeenAt ==
    ASSUME NEW t \in Threads
    PROVE  /\ Stage[t] = IF pc[t] \in {"e_val", "e_pub", "d_val", "d_rel"} THEN "done"
                         ELSE IF pc[t] # "idle" THEN "called" ELSE "idle"
           /\ Stage'[t] = IF pc'[t] \in {"e_val", "e_pub", "d_val", "d_rel"} THEN "done"
                          ELSE IF pc'[t] # "idle" THEN "called" ELSE "idle"
           /\ pc[t] \in {"e_val", "e_pub"} => Res[t] = Ok
           /\ pc'[t] \in {"e_val", "e_pub"} => Res'[t] = Ok
           /\ pc[t] = "d_val" => Res[t] = value[Slot(tk[t])]
           /\ pc'[t] = "d_val" => Res'[t] = value'[Slot(tk'[t])]
           /\ pc[t] = "d_rel" => Res[t] = got[t]
           /\ pc'[t] = "d_rel" => Res'[t] = got'[t]
           /\ pc[t] \notin {"e_val", "e_pub", "d_val", "d_rel"} => Res[t] = ret[t]
           /\ pc'[t] \notin {"e_val", "e_pub", "d_val", "d_rel"} => Res'[t] = ret'[t]
  BY SMT DEF Stage, Res, Owns, EnqOwns, DeqOwns, InCall, Slot

\* The item of a ticket is with its one enqueuer until that has stored it.
LEMMA ItemIs ==
    ASSUME TicketsDistinct, TicketsDistinct', NEW p
    PROVE  /\ \A t \in Threads : Writes(t, p) => ItemOf(p) = Current(t).val
           /\ (\A t \in Threads : ~Writes(t, p)) => ItemOf(p) = value[Slot(p)]
           /\ \A t \in Threads : Writes(t, p)' => ItemOf(p)' = Current(t)'.val
           /\ (\A t \in Threads : ~Writes(t, p)') => ItemOf(p)' = value'[Slot(p)]
<1>1. ASSUME NEW t \in Threads, Writes(t, p)
      PROVE  ItemOf(p) = Current(t).val
  <2>1. \A u \in Threads : Writes(u, p) => u = t
    BY <1>1, Zenon DEF TicketsDistinct, EnqOwns, Writes
  <2>2. (CHOOSE u \in Threads : Writes(u, p)) = t
    BY <1>1, <2>1
  <2> QED BY <1>1, <2>2 DEF ItemOf
<1>2. ASSUME NEW t \in Threads, Writes(t, p)'
      PROVE  ItemOf(p)' = Current(t)'.val
  <2>1. \A u \in Threads : Writes(u, p)' => u = t
    BY <1>2, Zenon DEF TicketsDistinct, EnqOwns, Writes
  <2>2. (CHOOSE u \in Threads : Writes(u, p)') = t
    BY <1>2, <2>1
  <2> QED BY <1>2, <2>2 DEF ItemOf
<1> QED BY <1>1, <1>2 DEF ItemOf, Slot

\* A step of t that writes no payload and does not pass by the write of one
\* leaves the items of all tickets alone.
LEMMA ItemsKept ==
    ASSUME TypeOK, TicketsDistinct, TicketsDistinct', NEW t \in Threads,
           NEW l, pc' = [pc EXCEPT ![t] = l], pc[t] # "e_val", l # "e_val",
           value' = value,
           \A u \in Threads \ {t} : tk'[u] = tk[u] /\ ip'[u] = ip[u],
           NEW p
    PROVE  ItemOf(p)' = ItemOf(p)
<1>1. /\ \A u \in Threads \ {t} : pc'[u] = pc[u]
      /\ pc'[t] = l
  BY PcType, Zenon
<1>2. \A u \in Threads : Writes(u, p)' <=> Writes(u, p)
  BY <1>1, Zenon DEF Writes
<1>3. CASE \E u \in Threads : Writes(u, p)
  <2>1. PICK u \in Threads : Writes(u, p)
    BY <1>3
  <2>2. u # t /\ Writes(u, p)'
    BY <2>1, <1>2 DEF Writes
  <2>3. Current(u)' = Current(u)
    BY <2>2 DEF Current
  <2> QED BY <2>1, <2>2, <2>3, ItemIs
<1>4. CASE ~ \E u \in Threads : Writes(u, p)
  BY <1>2, <1>4, ItemIs
<1> QED BY <1>3, <1>4

\* The queue, as the items of the tickets between m_head and m_tail.
LEMMA QueueItems ==
    /\ HasPlaces(Queue, m_tail - m_head)
    /\ \A i \in 1 .. m_tail - m_head : Queue[i] = ItemOf(m_head + i - 1)
    /\ HasPlaces(Queue', m_tail' - m_head')
    /\ \A i \in 1 .. m_tail' - m_head' :
         \A p : p = m_head' + i - 1 => Queue'[i] = ItemOf(p)'
  BY Zenon DEF Queue, HasPlaces, ItemOf, Writes, Current, Slot
\* The queue changes only where one of its items does.
LEMMA QueueKept ==
    ASSUME UNCHANGED <<m_head, m_tail>>,
           \A i \in 1 .. m_tail - m_head :
               \A p : p = m_head + i - 1 => ItemOf(p)' = ItemOf(p)
    PROVE  Queue' = Queue
<1>1. \A i \in 1 .. m_tail - m_head : Queue'[i] = Queue[i]
  BY QueueItems, Zenon
<1> QED BY <1>1, QueueItems, Zenon DEF HasPlaces

\* Going on inside a call, before it takes effect, is no step of the queue.
LEMMA Stutters ==
    ASSUME TypeOK, TicketsDistinct, TicketsDistinct', NEW t \in Threads,
           NEW l, pc' = [pc EXCEPT ![t] = l],
           pc[t] \notin {"idle", "e_val", "e_pub", "d_val", "d_rel"},
           l \notin {"idle", "e_val", "e_pub", "d_val", "d_rel"},
           UNCHANGED <<ip, ret, m_head, m_tail, value, got>>,
           \A u \in Threads \ {t} : tk'[u] = tk[u]
    PROVE  UNCHANGED Abs!vars
<1>1. pc'[t] = l
  BY PcType, Zenon
<1>2. Stage'[t] = Stage[t] /\ Res'[t] = Res[t]
  BY <1>1, SeenAt
<1>3. Stage' = Stage /\ Res' = Res
  BY <1>2, SeenOf
<1>4. Queue' = Queue
  BY ItemsKept, QueueKept
<1> QED BY <1>3, <1>4 DEF Abs!vars

\* An empty ring is the empty queue.
LEMMA AbsInit == ASSUME Init PROVE Abs!Init
<1>1. Stage = [t \in Threads |-> "idle"]
  BY SMT DEF Init, ClientInit, Stage, InCall, Owns, EnqOwns, DeqOwns
<1>2. Res = [t \in Threads |-> "noret"]
  BY SMT DEF Init, ClientInit, Res, EnqOwns, NoRet
<1>3. Queue = << >>
  BY SMT DEF Init, Queue
<1> QED BY <1>1, <1>2, <1>3 DEF Abs!Init, Init, ClientInit

\* The CAS on m_tail appends the item of the enqueue.
LEMMA EnqTakesEffect ==
    ASSUME Inv, Inv', NEW t \in Threads, EnqClaim(t), Goto(t, "e_val"),
           m_tail = tk[t], m_tail' = tk[t] + 1
    PROVE  Abs!Enqueue(t)
<1> DEFINE n == m_tail - m_head
<1>0. /\ TypeOK /\ InOwnCall /\ TicketsDistinct /\ TicketsDistinct'
      /\ pc[t] = "e_cas" /\ pc' = [pc EXCEPT ![t] = "e_val"] /\ pc'[t] = "e_val"
      /\ UNCHANGED <<ip, ret, m_head, version, value, tk, got>>
  BY PcType, Zenon DEF Inv, TicketInv, EnqClaim, Goto
<1>1. n \in Nat /\ m_tail' - m_head' = n + 1 /\ m_head + (n + 1) - 1 = m_tail
  BY <1>0, SMT DEF Inv, TypeOK, TicketInv, NoLap
<1>2. ASSUME NEW p, p # m_tail
      PROVE  ItemOf(p)' = ItemOf(p)
  <2>1. \A u \in Threads : u # t => pc'[u] = pc[u]
    BY <1>0, PcType, Zenon
  <2>2. \A u \in Threads : Writes(u, p)' <=> Writes(u, p)
    BY <1>0, <1>2, <2>1, Zenon DEF Writes
  <2>3. \A u \in Threads : Current(u)' = Current(u)
    BY <1>0, Zenon DEF Current
  <2>4. CASE \E u \in Threads : Writes(u, p)
    BY <1>0, <2>2, <2>3, <2>4, ItemIs
  <2>5. CASE ~ \E u \in Threads : Writes(u, p)
    BY <1>0, <2>2, <2>5, ItemIs
  <2> QED BY <2>4, <2>5
<1>3. \A p : p = m_tail => ItemOf(p)' = Current(t).val
  <2> SUFFICES ASSUME NEW p, p = m_tail PROVE ItemOf(p)' = Current(t).val
    OBVIOUS
  <2>1. Writes(t, p)' /\ Current(t)' = Current(t)
    BY <1>0 DEF Writes, Current
  <2> QED BY <1>0, <2>1, ItemIs
<1>4. /\ HasPlaces(Queue, n) /\ HasPlaces(Queue', n + 1)
      /\ \A i \in 1 .. n : Queue'[i] = Queue[i]
      /\ Queue'[n + 1] = Current(t).val
  <2>1. /\ \A i \in 1 .. n : i \in 1 .. n + 1 /\ m_head + i - 1 # m_tail
        /\ n + 1 \in 1 .. n + 1
    BY <1>0, <1>1, SMT DEF Inv, TypeOK
  <2>2. m_head' = m_head
    BY <1>0
  <2>3. Queue'[n + 1] = Current(t).val
    BY <1>1, <1>3, <2>1, <2>2, QueueItems, Zenon
  <2>4. \A i \in 1 .. n : Queue'[i] = Queue[i]
    BY <1>1, <1>2, <2>1, <2>2, QueueItems, Zenon
  <2> QED BY <1>1, <2>3, <2>4, QueueItems
<1> HIDE DEF n
<1>5. Queue' = Append(Queue, Current(t).val)
  <2>1. n \in Nat
    BY <1>1
  <2>2. Queue' = Append(Queue, Queue'[n + 1])
    BY ONLY <2>1, <1>4, PushedBack
  <2> QED BY <2>2, <1>4
<1>6. /\ Stage[t] = "called" /\ Stage' = [Stage EXCEPT ![t] = "done"]
      /\ Res' = [Res EXCEPT ![t] = "ok"]
  <2>1. Stage[t] = "called" /\ Stage'[t] = "done" /\ Res'[t] = "ok"
    BY <1>0, SeenAt DEF Ok
  <2>2. /\ Stage' = [Stage EXCEPT ![t] = Stage'[t]]
        /\ Res' = [Res EXCEPT ![t] = Res'[t]]
    BY <1>0, SeenOf
  <2> QED BY <2>1, <2>2
<1>7. Script[t][ip[t]].kind = "enq"
  BY <1>0 DEF InOwnCall, InCallOf, EnqLabels, Current
<1> QED BY <1>0, <1>5, <1>6, <1>7 DEF Abs!Enqueue, Abs!Effect, Current

\* The CAS on m_head takes the oldest item, which its slot holds by then: its
\* enqueuer has published it.
LEMMA DeqTakesEffect ==
    ASSUME Inv, Inv', NEW t \in Threads, DeqClaim(t), Goto(t, "d_val"),
           m_head = tk[t], m_head' = tk[t] + 1
    PROVE  Abs!Dequeue(t)
<1> DEFINE n == m_tail - m_head - 1
<1>0. /\ TypeOK /\ InOwnCall /\ TicketsDistinct /\ TicketsDistinct'
      /\ pc[t] = "d_cas" /\ pc' = [pc EXCEPT ![t] = "d_val"] /\ pc'[t] = "d_val"
      /\ UNCHANGED <<ip, ret, m_tail, version, value, tk, got>>
  BY PcType, Zenon DEF Inv, TicketInv, DeqClaim, Goto
<1>1. /\ n \in Nat /\ m_tail - m_head = n + 1 /\ m_tail' - m_head' = n
      /\ m_head \in Nat
  BY <1>0, SMT DEF Inv, TypeOK, TicketInv, CheckedVersions
<1>2. \A p : ItemOf(p)' = ItemOf(p)
  BY <1>0, ItemsKept
<1>3. ItemOf(m_head) = value[Slot(m_head)]
  <2>1. \A u \in Threads : ~Writes(u, m_head)
    BY <1>0, <1>1, SMT DEF Writes, EnqOwns, Inv, TicketInv, OwnersHoldVersions,
       CheckedVersions
  <2> QED BY <1>0, <2>1, ItemIs
<1>4. /\ HasPlaces(Queue, n + 1) /\ HasPlaces(Queue', n)
      /\ \A i \in 1 .. n : Queue'[i] = Queue[i + 1]
      /\ Queue[1] = value[Slot(m_head)]
  <2>1. /\ \A i \in 1 .. n : /\ i + 1 \in 1 .. n + 1
                             /\ m_head' + i - 1 = m_head + (i + 1) - 1
        /\ 1 \in 1 .. n + 1 /\ m_head + 1 - 1 = m_head
    BY <1>1, SMT
  <2>2. Queue[1] = value[Slot(m_head)]
    BY <1>1, <1>3, <2>1, QueueItems, Zenon
  <2>3. ASSUME NEW i \in 1 .. n
        PROVE  Queue'[i] = Queue[i + 1]
    <3>1. PICK p : p = m_head' + i - 1
      OBVIOUS
    <3>2. Queue'[i] = ItemOf(p)'
      BY <3>1, <1>1, QueueItems, Zenon
    <3>3. Queue[i + 1] = ItemOf(p)
      BY <3>1, <2>1, <1>1, QueueItems, Zenon
    <3> QED BY <3>2, <3>3, <1>2
  <2> QED BY <1>1, <2>2, <2>3, QueueItems
<1> HIDE DEF n
<1>5. Queue # << >> /\ Head(Queue) = Queue[1] /\ Tail(Queue) = Queue'
  <2>1. n \in Nat
    BY <1>1
  <2> QED BY ONLY <2>1, <1>4, PoppedFront
<1>6. /\ Stage[t] = "called" /\ Stage' = [Stage EXCEPT ![t] = "done"]
      /\ Res' = [Res EXCEPT ![t] = value[Slot(m_head)]]
  <2>1. Stage[t] = "called" /\ Stage'[t] = "done" /\ Res'[t] = value[Slot(m_head)]
    BY <1>0, SeenAt DEF Slot
  <2>2. /\ Stage' = [Stage EXCEPT ![t] = Stage'[t]]
        /\ Res' = [Res EXCEPT ![t] = Res'[t]]
    BY <1>0, SeenOf
  <2> QED BY <2>1, <2>2
<1>7. Script[t][ip[t]].kind = "deq"
  BY <1>0 DEF InOwnCall, InCallOf, DeqLabels, Current
<1> QED BY <1>0, <1>4, <1>5, <1>6, <1>7 DEF Abs!Dequeue, Abs!Effect

\* A dequeue that finds m_tail where m_head was finds the queue empty: m_head
\* cannot have passed m_tail since.
LEMMA FindsEmpty ==
    ASSUME Inv, Inv', NEW t \in Threads, DeqLoadTail(t), tk[t] = m_tail
    PROVE  Abs!Dequeue(t)
<1>0. /\ TypeOK /\ InOwnCall /\ TicketsDistinct /\ TicketsDistinct'
      /\ pc[t] = "d_tail" /\ pc' = [pc EXCEPT ![t] = "idle"] /\ pc'[t] = "idle"
      /\ ret' = [ret EXCEPT ![t] = Empty] /\ ret'[t] = Empty
      /\ \A u \in Threads \ {t} : ret'[u] = ret[u]
      /\ UNCHANGED <<ip, m_head, m_tail, version, value, tk, got>>
  BY SMT DEF Inv, TicketInv, DeqLoadTail, Return, shared, TypeOK, ClientTypeOK
<1>1. m_tail - m_head = 0
  BY <1>0, SMT DEF Inv, TypeOK, TicketInv, CheckedVersions, NoLap
<1>2. Queue = << >>
  BY <1>1, SMT DEF Queue
<1>3. Queue' = Queue
  BY <1>0, ItemsKept, QueueKept
<1>4. /\ Stage[t] = "called" /\ Stage' = [Stage EXCEPT ![t] = "idle"]
      /\ Res' = [Res EXCEPT ![t] = "empty"]
  <2>1. Stage[t] = "called" /\ Stage'[t] = "idle" /\ Res'[t] = "empty"
    BY <1>0, SeenAt DEF Empty
  <2>2. /\ Stage' = [Stage EXCEPT ![t] = Stage'[t]]
        /\ Res' = [Res EXCEPT ![t] = Res'[t]]
    BY <1>0, SeenOf
  <2> QED BY <2>1, <2>2
<1>5. Script[t][ip[t]].kind = "deq"
  BY <1>0 DEF InOwnCall, InCallOf, DeqLabels, Current
<1> QED BY <1>0, <1>2, <1>3, <1>4, <1>5 DEF Abs!Dequeue, Abs!Effect
\* The payload the enqueuer of a ticket stores is the item the ticket had.
LEMMA WriteKeepsItems ==
    ASSUME Inv, Inv', NEW t \in Threads, EnqWriteValue(t)
    PROVE  UNCHANGED Abs!vars
<1>0. /\ TypeOK /\ TicketsDistinct /\ TicketsDistinct' /\ tk[t] \in Nat
      /\ pc[t] = "e_val" /\ pc' = [pc EXCEPT ![t] = "e_pub"] /\ pc'[t] = "e_pub"
      /\ value' = [value EXCEPT ![Slot(tk[t])] = Current(t).val]
      /\ UNCHANGED <<ip, ret, m_head, m_tail, version, tk, got>>
  BY PcType, Zenon DEF Inv, TicketInv, EnqWriteValue, Goto
<1>1. /\ value'[Slot(tk[t])] = Current(t).val
      /\ \A s \in Slots : s # Slot(tk[t]) => value'[s] = value[s]
  BY <1>0, SlotBound, Zenon DEF TypeOK
<1>2. ASSUME NEW u \in Threads \ {t}, pc[u] = "d_val"
      PROVE  value'[Slot(tk[u])] = value[Slot(tk[u])]
  <2>1. tk[u] \in Nat /\ Slot(tk[u]) # Slot(tk[t])
    BY <1>0, <1>2, OwnersApart, PcType DEF SlotExclusive, Owns, EnqOwns, DeqOwns
  <2> QED BY <1>1, <2>1, SlotBound
<1>3. Stage' = Stage /\ Res' = Res
  <2>1. Stage'[t] = Stage[t] /\ Res'[t] = Res[t]
    BY <1>0, SeenAt
  <2> QED BY <1>0, <1>2, <2>1, SeenOf
<1>4. ASSUME NEW p \in Nat, m_head <= p, p < m_tail
      PROVE  ItemOf(p)' = ItemOf(p)
  <2>1. \A u \in Threads : u # t => pc'[u] = pc[u]
    BY <1>0, PcType, Zenon
  <2>2. \A u \in Threads : Current(u)' = Current(u)
    BY <1>0, Zenon DEF Current
  <2>3. CASE p = tk[t]
    <3>1. Writes(t, p) /\ \A u \in Threads : ~Writes(u, p)'
      BY <1>0, <2>1, <2>3, Zenon DEF Writes, TicketsDistinct, EnqOwns
    <3> QED BY <1>0, <1>1, <2>3, <3>1, ItemIs
  <2>4. CASE p # tk[t]
    <3>1. \A u \in Threads : Writes(u, p)' <=> Writes(u, p)
      BY <1>0, <2>1, <2>4, Zenon DEF Writes
    <3>2. value'[Slot(p)] = value[Slot(p)]
      <4>1. p < tk[t] + Capacity /\ tk[t] < p + Capacity
        BY <1>0, <1>4, CapacityAssumption, SMT
           DEF Inv, TypeOK, TicketInv, NoLap, OwnersHoldVersions, EnqOwns
      <4> QED BY <1>0, <1>1, <2>4, <4>1, SlotsDiffer, SlotBound
    <3>3. CASE \E u \in Threads : Writes(u, p)
      BY <1>0, <2>2, <3>1, <3>3, ItemIs
    <3>4. CASE ~ \E u \in Threads : Writes(u, p)
      BY <1>0, <3>1, <3>2, <3>4, ItemIs
    <3> QED BY <3>3, <3>4
  <2> QED BY <2>3, <2>4
<1>5. Queue' = Queue
  <2>1. ASSUME NEW i \in 1 .. m_tail - m_head, NEW p, p = m_head + i - 1
        PROVE  p \in Nat /\ m_head <= p /\ p < m_tail
    BY <1>0, <2>1, SMT DEF TypeOK
  <2> QED BY <1>0, <1>4, <2>1, QueueKept
<1> QED BY <1>0, <1>3, <1>5 DEF Abs!vars

\* Each step of the ring is a step of the queue, or none.
LEMMA AbsStep ==
    ASSUME Inv, Inv', NEW t \in Threads, Step(t)
    PROVE  Abs!Next \/ UNCHANGED Abs!vars
<1>0. TypeOK /\ TicketsDistinct /\ TicketsDistinct'
  BY DEF Inv, TicketInv
<1>1. CASE EnqCall(t) \/ DeqCall(t)
  <2>1. PICK l \in {"e_tail", "d_head"} :
            /\ pc[t] = "idle" /\ pc' = [pc EXCEPT ![t] = l] /\ pc'[t] = l
            /\ ip' = [ip EXCEPT ![t] = @ + 1] /\ ip[t] < Len(Script[t])
            /\ \A u \in Threads \ {t} : ip'[u] = ip[u]
            /\ UNCHANGED <<ret, m_head, m_tail, version, value, tk, got>>
    BY <1>0, <1>1, SMT DEF EnqCall, DeqCall, Invoke, InCall, shared,
       TypeOK, ClientTypeOK
  <2>2. Queue' = Queue
    BY <1>0, <2>1, ItemsKept, QueueKept
  <2>3. Stage[t] = "idle" /\ Stage'[t] = "called" /\ Res'[t] = Res[t]
    BY <2>1, SeenAt
  <2>4. Stage' = [Stage EXCEPT ![t] = "called"] /\ Res' = Res
    BY <1>0, <2>1, <2>3, SeenOf
  <2>5. Abs!Call(t)
    BY <2>1, <2>2, <2>3, <2>4 DEF Abs!Call
  <2> QED BY <2>5 DEF Abs!Next, Abs!Step
<1>2. ASSUME pc[t] \in {"e_tail", "e_ver", "e_cas", "d_head", "d_tail", "d_ver", "d_cas"},
             NEW l \in {"e_tail", "e_ver", "e_cas", "d_head", "d_tail", "d_ver", "d_cas", "blocked"},
             pc' = [pc EXCEPT ![t] = l], \A u \in Threads \ {t} : tk'[u] = tk[u],
             UNCHANGED <<ip, ret, m_head, m_tail, value, got>>
      PROVE  UNCHANGED Abs!vars
  <2>1. /\ pc[t] \notin {"idle", "e_val", "e_pub", "d_val", "d_rel"}
        /\ l \notin {"idle", "e_val", "e_pub", "d_val", "d_rel"}
    BY <1>2
  <2> QED BY <1>0, <1>2, <2>1, Stutters
<1>3. ASSUME NEW e \in {"e_tail", "d_head"}, Retry(t, e),
             pc[t] \in {"e_ver", "e_cas", "d_ver", "d_cas"},
             UNCHANGED <<m_head, m_tail, value, tk, got>>
      PROVE  UNCHANGED Abs!vars
  <2>1. PICK l \in {e, "blocked"} : pc' = [pc EXCEPT ![t] = l]
    BY <1>3, RetryMoves
  <2> QED BY <1>2, <1>3, <2>1 DEF Retry
<1>4. CASE EnqLoadTail(t)
  <2>1. \A u \in Threads \ {t} : tk'[u] = tk[u]
    BY <1>4, PcType, <1>0, Zenon DEF EnqLoadTail
  <2> QED BY <1>2, <1>4, <2>1 DEF EnqLoadTail, Goto, shared
<1>5. CASE EnqLoadVersion(t)
  BY <1>2, <1>3, <1>5 DEF EnqLoadVersion, Goto, shared
<1>6. CASE EnqClaim(t)
  <2>1. CASE Goto(t, "e_val") /\ m_tail = tk[t] /\ m_tail' = tk[t] + 1
    BY <1>6, <2>1, EnqTakesEffect DEF Abs!Next, Abs!Step
  <2>2. CASE Retry(t, "e_tail") /\ UNCHANGED m_tail
    BY <1>3, <1>6, <2>2 DEF EnqClaim
  <2> QED BY <1>6, <2>1, <2>2 DEF EnqClaim
<1>7. CASE EnqWriteValue(t)
  BY <1>7, WriteKeepsItems
<1>8. ASSUME pc[t] \in {"e_pub", "d_rel"}, Return(t, Res[t]),
             UNCHANGED <<m_head, m_tail, value, tk, got>>
      PROVE  Abs!Return(t)
  <2>1. /\ pc' = [pc EXCEPT ![t] = "idle"] /\ pc'[t] = "idle"
        /\ ret'[t] = Res[t] /\ ip' = ip
        /\ \A u \in Threads \ {t} : ret'[u] = ret[u]
    BY <1>0, <1>8, SMT DEF Return, TypeOK, ClientTypeOK
  <2>2. Stage[t] = "done" /\ Stage'[t] = "idle" /\ Res'[t] = Res[t]
    BY <1>8, <2>1, SeenAt
  <2>3. Stage' = [Stage EXCEPT ![t] = "idle"] /\ Res' = Res
    BY <1>0, <1>8, <2>1, <2>2, SeenOf
  <2>4. Queue' = Queue
    BY <1>0, <1>8, <2>1, ItemsKept, QueueKept
  <2> QED BY <2>1, <2>2, <2>3, <2>4 DEF Abs!Return
<1>9. CASE EnqPublish(t)
  <2>1. Res[t] = Ok /\ pc[t] = "e_pub"
    BY <1>9, SeenAt DEF EnqPublish
  <2>2. Abs!Return(t)
    BY <1>8, <1>9, <2>1 DEF EnqPublish
  <2> QED BY <2>2 DEF Abs!Next, Abs!Step
<1>10. CASE DeqLoadHead(t)
  <2>1. \A u \in Threads \ {t} : tk'[u] = tk[u]
    BY <1>10, PcType, <1>0, Zenon DEF DeqLoadHead
  <2> QED BY <1>2, <1>10, <2>1 DEF DeqLoadHead, Goto, shared
<1>11. CASE DeqLoadTail(t)
  <2>1. CASE tk[t] = m_tail
    BY <1>11, <2>1, FindsEmpty DEF Abs!Next, Abs!Step
  <2>2. CASE tk[t] # m_tail
    BY <1>2, <1>11, <2>2 DEF DeqLoadTail, Goto, shared
  <2> QED BY <2>1, <2>2
<1>12. CASE DeqLoadVersion(t)
  BY <1>2, <1>3, <1>12 DEF DeqLoadVersion, Goto, shared
<1>13. CASE DeqClaim(t)
  <2>1. CASE Goto(t, "d_val") /\ m_head = tk[t] /\ m_head' = tk[t] + 1
    BY <1>13, <2>1, DeqTakesEffect DEF Abs!Next, Abs!Step
  <2>2. CASE Retry(t, "d_head") /\ UNCHANGED m_head
    BY <1>3, <1>13, <2>2 DEF DeqClaim
  <2> QED BY <1>13, <2>1, <2>2 DEF DeqClaim
<1>14. CASE DeqReadValue(t)
  <2>1. /\ pc[t] = "d_val" /\ pc' = [pc EXCEPT ![t] = "d_rel"] /\ pc'[t] = "d_rel"
        /\ got'[t] = value[Slot(tk[t])]
        /\ \A u \in Threads \ {t} : got'[u] = got[u]
        /\ UNCHANGED <<ip, ret, m_head, m_tail, version, value, tk>>
    BY <1>0, <1>14, SMT DEF DeqReadValue, Goto, shared, TypeOK, ClientTypeOK
  <2>2. Stage'[t] = Stage[t] /\ Res'[t] = Res[t]
    BY <2>1, SeenAt
  <2>3. Stage' = Stage /\ Res' = Res
    BY <1>0, <2>1, <2>2, SeenOf
  <2>4. Queue' = Queue
    BY <1>0, <2>1, ItemsKept, QueueKept
  <2> QED BY <2>1, <2>3, <2>4 DEF Abs!vars
<1>15. CASE DeqRelease(t)
  <2>1. Res[t] = got[t] /\ pc[t] = "d_rel"
    BY <1>15, SeenAt DEF DeqRelease
  <2>2. Abs!Return(t)
    BY <1>8, <1>15, <2>1 DEF DeqRelease
  <2> QED BY <2>2 DEF Abs!Next, Abs!Step
<1> QED BY <1>1, <1>4, <1>5, <1>6, <1>7, <1>9, <1>10, <1>11, <1>12, <1>13,
           <1>14, <1>15 DEF Step, EnqStep, DeqStep

\* Every execution of the ring is one of an atomic FIFO queue with the same
\* calls and the same results, for every capacity >= 2, any threads and any
\* scripts: no item is lost, duplicated, invented or overtaken.
THEOREM ImplementsQueue == Spec => ImplementsAtomicQueue
<1>1. Init => Abs!Init
  BY AbsInit
<1>2. Inv /\ Inv' /\ [Next]_vars => [Abs!Next]_Abs!vars
  <2>1. ASSUME UNCHANGED vars PROVE UNCHANGED Abs!vars
    <3>1. Stage' = Stage /\ Res' = Res
      BY <2>1 DEF vars, Stage, Res, Owns, EnqOwns, DeqOwns, InCall, Slot
    <3>2. Queue' = Queue
      BY <2>1 DEF vars, Queue, ItemOf, Writes, Current, Slot
    <3> QED BY <2>1, <3>1, <3>2 DEF vars, Abs!vars
  <2> QED BY <2>1, AbsStep DEF Next, Terminating
<1> QED BY <1>1, <1>2, TicketsCorrect, PTL DEF Spec, Abs!Spec, ImplementsAtomicQueue
=============================================================================
