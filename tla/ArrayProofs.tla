----------------------------- MODULE ArrayProofs -----------------------------
(***************************************************************************)
(* The two queues that are an array with counters.                         *)
(*                                                                         *)
(* The Chase-Lev deque with one owner, for every buffer size, every number *)
(* of thieves and every script: it is never overrun, and it implements a   *)
(* FIFO queue whose dequeue may fail.                                      *)
(*                                                                         *)
(* The Herlihy-Wing queue in the memory of C11, for every number of        *)
(* threads, every script that has no more enqueues than AR has cells, and  *)
(* both builds: the indices are cells and each enqueuer's its own, the     *)
(* payload of an item is known to who gets it, and a dequeue returns false *)
(* only when all the items it knew of have been taken by others.           *)
(***************************************************************************)
EXTENDS HWQueueLin, ChaseLevQueue, QueueLemmas

\* The Chase-Lev deque.

\* The index computed from a place is inside the buffer.
LEMMA SlotBound == \A p \in Nat : Slot(p) \in Slots
<1> SUFFICES ASSUME NEW p \in Nat PROVE p % Size \in 0 .. Size - 1
  BY DEF Slot, Slots
<1> QED BY SizeAssumption, DivMod

\* Two places less than a buffer apart use two slots.
LEMMA SlotsDiffer ==
    ASSUME NEW p \in Nat, NEW q \in Nat, p < q, q < p + Size
    PROVE  Slot(p) # Slot(q)
  BY SizeAssumption, ModInj DEF Slot

-----------------------------------------------------------------------------
\* An empty deque has the invariant.
LEMMA DequeInit == Init => DequeInv
<1> SUFFICES ASSUME Init PROVE DequeInv
  OBVIOUS
<1>1. ClientTypeOK(Labels)
  BY InitType DEF Init
<1>2. bottom = 0 /\ top = 0 /\ buffer \in [Slots -> Payloads]
  BY SMT DEF Init, Payloads
<1>3. loc \in [Threads -> [bottom : Nat, top : Nat, data : Payloads]]
  BY SMT DEF Init, NoLocals, Payloads
<1>4. \A t \in Threads : pc[t] = "idle"
  BY SMT DEF Init, ClientInit
<1>5. TypeOK
  BY <1>1, <1>2, <1>3, SMT DEF TypeOK
<1>6. BufferNotOverrun
  BY <1>2, SizeAssumption, SMT DEF BufferNotOverrun
<1>7. InOwnCall /\ OwnerInPlace /\ ItemInPlace /\ ThievesUpToDate
  BY <1>4, SMT DEF InOwnCall, InCallOf, PushLabels, StealLabels, OwnerInPlace, ItemInPlace,
                   ThievesUpToDate
<1> QED BY <1>5, <1>6, <1>7 DEF DequeInv

\* Every step keeps the types.
LEMMA TypeStep ==
    ASSUME TypeOK, NEW t \in Threads, Step(t)
    PROVE  TypeOK'
<1> USE DEF TypeOK
<1>0. /\ ClientTypeOK(Labels)
      /\ \A p \in Nat : Slot(p) \in Slots
      /\ Payloads \subseteq Results
      /\ Ok \in Results /\ Empty \in Results
  BY SlotBound, SMT DEF Results
<1>l. PushLabels \subseteq Labels /\ StealLabels \subseteq Labels
  BY Zenon DEF Labels
<1>1. CASE PushCall(t)
  <2>1. ClientTypeOK(Labels)'
    BY <1>1, <1>0, <1>l, InvokeType DEF PushCall, InCall, PushLabels, StealLabels
  <2> QED BY <2>1, <1>1, <1>0 DEF PushCall, shared
<1>2. CASE PushLoadBottom(t)
  <2>1. ClientTypeOK(Labels)'
    BY <1>2, <1>0, <1>l, GotoType, ReturnType DEF PushLoadBottom, InCall, PushLabels, StealLabels
  <2> QED BY <2>1, <1>2, <1>0 DEF PushLoadBottom, shared
<1>3. CASE PushLoadTop(t)
  <2>1. ClientTypeOK(Labels)'
    BY <1>3, <1>0, <1>l, GotoType, StopType DEF PushLoadTop, InCall, PushLabels, StealLabels
  <2> QED BY <2>1, <1>3, <1>0 DEF PushLoadTop, shared
<1>4. CASE PushStore(t)
  <2>1. ClientTypeOK(Labels)'
    BY <1>4, <1>0, <1>l, GotoType, ReturnType DEF PushStore, InCall, PushLabels, StealLabels
  <2>2. Current(t).val \in Payloads
    BY <1>4, <1>0, CurrentIsCall DEF PushStore, InCall, Calls
  <2> QED BY <2>1, <2>2, <1>4, <1>0 DEF PushStore
<1>5. CASE PushPublish(t)
  <2>1. ClientTypeOK(Labels)'
    BY <1>5, <1>0, <1>l, GotoType, ReturnType DEF PushPublish, InCall, PushLabels, StealLabels
  <2> QED BY <2>1, <1>5, <1>0 DEF PushPublish, shared
<1>6. CASE StealCall(t)
  <2>1. ClientTypeOK(Labels)'
    BY <1>6, <1>0, <1>l, InvokeType DEF StealCall, InCall, PushLabels, StealLabels
  <2> QED BY <2>1, <1>6, <1>0 DEF StealCall, shared
<1>7. CASE StealLoadTop(t)
  <2>1. ClientTypeOK(Labels)'
    BY <1>7, <1>0, <1>l, GotoType, ReturnType DEF StealLoadTop, InCall, PushLabels, StealLabels
  <2> QED BY <2>1, <1>7, <1>0 DEF StealLoadTop, shared
<1>8. CASE StealLoadBottom(t)
  <2>1. ClientTypeOK(Labels)'
    BY <1>8, <1>0, <1>l, GotoType, ReturnType DEF StealLoadBottom, InCall, PushLabels, StealLabels
  <2> QED BY <2>1, <1>8, <1>0 DEF StealLoadBottom, shared
<1>9. CASE StealLoadItem(t)
  <2>1. ClientTypeOK(Labels)'
    BY <1>9, <1>0, <1>l, GotoType, ReturnType DEF StealLoadItem, InCall, PushLabels, StealLabels
  <2> QED BY <2>1, <1>9, <1>0 DEF StealLoadItem, shared
<1>10. CASE StealAdvance(t)
  <2>1. ClientTypeOK(Labels)'
    BY <1>10, <1>0, <1>l, GotoType, ReturnType DEF StealAdvance, InCall, PushLabels, StealLabels
  <2>2. top' \in Nat
    BY <1>10, SMT DEF StealAdvance, AfterSteal
  <2> QED BY <2>1, <2>2, <1>10 DEF StealAdvance
<1> QED BY <1>1, <1>2, <1>3, <1>4, <1>5, <1>6, <1>7, <1>8, <1>9, <1>10 DEF Step

-----------------------------------------------------------------------------
\* With one owner no two threads push at the same time.
LEMMA OnePusher ==
    ASSUME OneOwner, TypeOK, InOwnCall, NEW t \in Threads, NEW u \in Threads,
           pc[t] \in PushLabels, pc[u] \in PushLabels
    PROVE  t = u
<1>1. ASSUME NEW v \in Threads, pc[v] \in PushLabels
      PROVE  \E i \in DOMAIN Script[v] : Script[v][i].kind = "enq"
  <2>1. Current(v).kind = "enq"
    BY <1>1 DEF InOwnCall, InCallOf
  <2>2. ip[v] \in 1 .. Len(Script[v]) /\ Script[v] \in Seq(Calls)
    BY <1>1, ScriptAssumption, SMTT(20) DEF TypeOK, ClientTypeOK, InCall, PushLabels
  <2>3. ip[v] \in DOMAIN Script[v]
    BY <2>2, SMT
  <2> QED BY <2>1, <2>3 DEF Current
<1> QED BY <1>1 DEF OneOwner

\* Every step keeps the rest of the invariant.
LEMMA DequeStep ==
    ASSUME OneOwner, DequeInv, NEW t \in Threads, Step(t)
    PROVE  DequeInv'
<1>0. TypeOK /\ TypeOK' /\ InOwnCall /\ BufferNotOverrun /\ OwnerInPlace
      /\ ItemInPlace /\ ThievesUpToDate
  BY TypeStep DEF DequeInv
<1> USE DEF TypeOK, ClientTypeOK
<1>1. CASE PushCall(t)
  <2> USE <1>0, <1>1 DEF PushCall, Invoke, InCall, shared
  <2>1. InOwnCall'
    BY SMTT(20) DEF InOwnCall, InCallOf, PushLabels, StealLabels, Current
  <2>2. BufferNotOverrun'
    BY SMT DEF BufferNotOverrun
  <2>3. OwnerInPlace'
    BY SMT DEF OwnerInPlace
  <2>4. ThievesUpToDate'
    BY SMT DEF ThievesUpToDate
  <2>5. ItemInPlace'
    BY SMT DEF ItemInPlace, Current
  <2> QED BY <2>1, <2>2, <2>3, <2>4, <2>5 DEF DequeInv
<1>2. CASE PushLoadBottom(t)
  <2> USE <1>0, <1>2 DEF PushLoadBottom, Goto, Return, shared
  <2>1. InOwnCall'
    BY SMTT(20) DEF InOwnCall, InCallOf, PushLabels, StealLabels, Current
  <2>2. BufferNotOverrun'
    BY SMT DEF BufferNotOverrun
  <2>3. OwnerInPlace'
    BY SMT DEF OwnerInPlace
  <2>4. ThievesUpToDate'
    BY SMT DEF ThievesUpToDate
  <2>5. ItemInPlace'
    BY SMT DEF ItemInPlace, Current
  <2> QED BY <2>1, <2>2, <2>3, <2>4, <2>5 DEF DequeInv
<1>3. CASE PushLoadTop(t)
  <2> USE <1>0, <1>3 DEF PushLoadTop, Goto, Return, shared
  <2>1. InOwnCall'
    BY SMTT(20) DEF InOwnCall, InCallOf, PushLabels, StealLabels, Current
  <2>2. BufferNotOverrun'
    BY SMT DEF BufferNotOverrun
  <2>3. OwnerInPlace'
    BY SizeAssumption, SMTT(20) DEF OwnerInPlace, Full
  <2>4. ThievesUpToDate'
    BY SMT DEF ThievesUpToDate
  <2>5. ItemInPlace'
    <3>1. \A u \in Threads : pc'[u] = "e_publish" => pc[u] = "e_publish"
      BY SMT
    <3>2. ip' = ip /\ bottom' = bottom /\ buffer' = buffer
      BY SMT
    <3> QED BY ONLY ItemInPlace, <3>1, <3>2, Zenon DEF ItemInPlace, Current, Slot
  <2> QED BY <2>1, <2>2, <2>3, <2>4, <2>5 DEF DequeInv
<1>4. CASE PushStore(t)
  <2> USE <1>0, <1>4 DEF PushStore, Goto, Return, shared
  <2>1. InOwnCall'
    BY SMTT(20) DEF InOwnCall, InCallOf, PushLabels, StealLabels, Current
  <2>2. BufferNotOverrun'
    BY SMT DEF BufferNotOverrun
  <2>3. OwnerInPlace'
    BY SMT DEF OwnerInPlace
  <2>4. ThievesUpToDate'
    <3>1. loc[t].bottom = bottom /\ bottom < top + Size
      BY SMT DEF OwnerInPlace
    <3>2. ASSUME NEW u \in Threads, pc[u] \in {"d_load", "d_cas"}, loc[u].top = top
          PROVE  buffer'[Slot(top)] = buffer[Slot(top)]
      <4>1. Slot(top) # Slot(bottom)
        BY <3>1, <3>2, SlotsDiffer, SMT DEF ThievesUpToDate
      <4> QED BY <3>1, <4>1, SlotBound, SMT
    <3> QED BY <3>2, SMT DEF ThievesUpToDate
  <2>5. ItemInPlace'
    <3>1. \A u \in Threads : pc'[u] = "e_publish" => u = t
      BY OnePusher, SMTT(20) DEF PushLabels
    <3>2. buffer'[Slot(bottom)] = Current(t).val
      BY SlotBound, SMT DEF OwnerInPlace
    <3> QED BY <3>1, <3>2, SMT DEF ItemInPlace, Current
  <2> QED BY <2>1, <2>2, <2>3, <2>4, <2>5 DEF DequeInv
<1>5. CASE PushPublish(t)
  <2> USE <1>0, <1>5 DEF PushPublish, Goto, Return, shared
  <2>1. InOwnCall'
    BY SMTT(20) DEF InOwnCall, InCallOf, PushLabels, StealLabels, Current
  <2>2. BufferNotOverrun'
    BY SizeAssumption, SMT DEF BufferNotOverrun, OwnerInPlace
  <2>3. OwnerInPlace'
    <3>1. \A u \in Threads : pc'[u] \notin PushLabels
      BY OnePusher, SMTT(20) DEF PushLabels
    <3> QED BY <3>1, SMT DEF OwnerInPlace, PushLabels
  <2>4. ThievesUpToDate'
    BY SMT DEF ThievesUpToDate, OwnerInPlace
  <2>5. ItemInPlace'
    <3>1. \A u \in Threads : pc'[u] # "e_publish"
      BY OnePusher, SMTT(20) DEF PushLabels
    <3> QED BY <3>1 DEF ItemInPlace
  <2> QED BY <2>1, <2>2, <2>3, <2>4, <2>5 DEF DequeInv
<1>6. CASE StealCall(t)
  <2> USE <1>0, <1>6 DEF StealCall, Invoke, InCall, shared
  <2>1. InOwnCall'
    BY SMTT(20) DEF InOwnCall, InCallOf, PushLabels, StealLabels, Current
  <2>2. BufferNotOverrun'
    BY SMT DEF BufferNotOverrun
  <2>3. OwnerInPlace'
    BY SMT DEF OwnerInPlace
  <2>4. ThievesUpToDate'
    BY SMT DEF ThievesUpToDate
  <2>5. ItemInPlace'
    BY SMT DEF ItemInPlace, Current
  <2> QED BY <2>1, <2>2, <2>3, <2>4, <2>5 DEF DequeInv
<1>7. CASE StealLoadTop(t)
  <2> USE <1>0, <1>7 DEF StealLoadTop, Goto, Return, shared
  <2>1. InOwnCall'
    BY SMTT(20) DEF InOwnCall, InCallOf, PushLabels, StealLabels, Current
  <2>2. BufferNotOverrun'
    BY SMT DEF BufferNotOverrun
  <2>3. OwnerInPlace'
    BY SMT DEF OwnerInPlace
  <2>4. ThievesUpToDate'
    BY SMT DEF ThievesUpToDate
  <2>5. ItemInPlace'
    BY SMT DEF ItemInPlace, Current
  <2> QED BY <2>1, <2>2, <2>3, <2>4, <2>5 DEF DequeInv
<1>8. CASE StealLoadBottom(t)
  <2> USE <1>0, <1>8 DEF StealLoadBottom, Goto, Return, shared
  <2>1. InOwnCall'
    BY SMTT(20) DEF InOwnCall, InCallOf, PushLabels, StealLabels, Current
  <2>2. BufferNotOverrun'
    BY SMT DEF BufferNotOverrun
  <2>3. OwnerInPlace'
    BY SMT DEF OwnerInPlace
  <2>4. ThievesUpToDate'
    BY SMT DEF ThievesUpToDate
  <2>5. ItemInPlace'
    <3>1. /\ \A u \in Threads : pc'[u] = "e_publish" => pc[u] = "e_publish"
          /\ UNCHANGED <<ip, bottom, buffer>>
      BY SMT
    <3> QED BY ONLY ItemInPlace, <3>1, Zenon DEF ItemInPlace, Current
  <2> QED BY <2>1, <2>2, <2>3, <2>4, <2>5 DEF DequeInv
<1>9. CASE StealLoadItem(t)
  <2> USE <1>0, <1>9 DEF StealLoadItem, Goto, Return, shared
  <2>1. InOwnCall'
    BY SMTT(20) DEF InOwnCall, InCallOf, PushLabels, StealLabels, Current
  <2>2. BufferNotOverrun'
    BY SMT DEF BufferNotOverrun
  <2>3. OwnerInPlace'
    BY SMT DEF OwnerInPlace
  <2>4. ThievesUpToDate'
    BY SMT DEF ThievesUpToDate
  <2>5. ItemInPlace'
    BY SMT DEF ItemInPlace, Current
  <2> QED BY <2>1, <2>2, <2>3, <2>4, <2>5 DEF DequeInv
<1>10. CASE StealAdvance(t)
  <2> USE <1>0, <1>10 DEF StealAdvance, Goto, Return, shared
  <2>0. (top' = top \/ top' = top + 1) /\ top' <= bottom
    BY SMT DEF ThievesUpToDate, AfterSteal, TopUnchanged, BufferNotOverrun
  <2>1. InOwnCall'
    BY SMTT(20) DEF InOwnCall, InCallOf, PushLabels, StealLabels, Current
  <2>2. BufferNotOverrun'
    <3>1. top \in Nat /\ bottom \in Nat /\ bottom' = bottom /\ bottom <= top + Size /\ Size \in Nat
      BY SizeAssumption DEF BufferNotOverrun
    <3> QED BY ONLY <2>0, <3>1, SMT DEF BufferNotOverrun
  <2>3. OwnerInPlace'
    <3>1. \A u \in Threads : pc'[u] \in PushLabels => pc[u] = pc'[u]
      BY SMT DEF PushLabels
    <3>2. /\ top \in Nat /\ bottom \in Nat /\ Size \in Nat
          /\ bottom' = bottom /\ loc' = loc
      BY SizeAssumption
    <3> QED BY ONLY OwnerInPlace, <2>0, <3>1, <3>2, SMT DEF OwnerInPlace, PushLabels
  <2>4. ThievesUpToDate'
    BY SMTT(20) DEF ThievesUpToDate, AfterSteal, TopUnchanged
  <2>5. ItemInPlace'
    <3>1. /\ \A u \in Threads : pc'[u] = "e_publish" => pc[u] = "e_publish"
          /\ UNCHANGED <<ip, bottom, buffer>>
      BY SMT
    <3> QED BY ONLY ItemInPlace, <3>1, Zenon DEF ItemInPlace, Current
  <2> QED BY <2>1, <2>2, <2>3, <2>4, <2>5 DEF DequeInv
<1> QED BY <1>1, <1>2, <1>3, <1>4, <1>5, <1>6, <1>7, <1>8, <1>9, <1>10 DEF Step

\* A step that changes nothing keeps the invariant.
LEMMA DequeStutter == ASSUME DequeInv, UNCHANGED vars PROVE DequeInv'
<1> USE DEF vars, DequeInv
<1>1. TypeOK'
  BY DEF TypeOK, ClientTypeOK, InCall
<1>2. BufferNotOverrun' /\ InOwnCall'
  BY DEF BufferNotOverrun, InOwnCall, InCallOf, Current
<1>3. OwnerInPlace' /\ ItemInPlace' /\ ThievesUpToDate'
  BY DEF OwnerInPlace, ItemInPlace, ThievesUpToDate, Current
<1> QED BY <1>1, <1>2, <1>3

-----------------------------------------------------------------------------
\* With one owner the deque never holds more than its buffer nor less than
\* nothing, and what a thief has read is still there if top has not moved, for
\* every size of the buffer.
THEOREM DequeCorrect == ASSUME OneOwner PROVE Spec => []DequeInv
<1>1. Init => DequeInv
  BY DequeInit
<1>2. DequeInv /\ [Next]_vars => DequeInv'
  BY DequeStep, DequeStutter DEF Next, Terminating
<1> QED BY <1>1, <1>2, PTL DEF Spec

-----------------------------------------------------------------------------
\* The deque as a queue, before a step and after it.
LEMMA QueueItems ==
    /\ HasPlaces(Queue, bottom - top)
    /\ \A i \in 1 .. bottom - top : Queue[i] = buffer[Slot(top + i - 1)]
    /\ HasPlaces(Queue', bottom' - top')
    /\ \A i \in 1 .. bottom' - top' : Queue'[i] = buffer'[Slot(top' + i - 1)]
  BY Zenon DEF Queue, Slot, HasPlaces

\* Where a step takes its thread decides the stage of its call.
LEMMA StageStep ==
    ASSUME TypeOK, NEW t \in Threads, NEW l, pc' = [pc EXCEPT ![t] = l]
    PROVE  /\ Stage[t] = IF pc[t] = "idle" THEN "idle" ELSE "called"
           /\ Stage' = [Stage EXCEPT ![t] = IF l = "idle" THEN "idle" ELSE "called"]
<1>1. pc \in [Threads -> Labels \cup {"idle", "blocked", "assert"}]
  BY DEF TypeOK, ClientTypeOK
<1>2. \A u \in Threads : pc'[u] = IF u = t THEN l ELSE pc[u]
  BY <1>1, Zenon
<1>3. \A u \in Threads : /\ Stage[u] = IF pc[u] # "idle" THEN "called" ELSE "idle"
                         /\ Stage'[u] = IF pc'[u] # "idle" THEN "called" ELSE "idle"
  BY Zenon DEF Stage, InCall
<1>4. MapOn(Stage, Threads) /\ MapOn(Stage', Threads)
  BY Zenon DEF Stage, MapOn
<1>5. /\ Stage[t] = IF pc[t] = "idle" THEN "idle" ELSE "called"
      /\ Stage'[t] = IF l = "idle" THEN "idle" ELSE "called"
      /\ \A u \in Threads \ {t} : Stage'[u] = Stage[u]
  BY <1>2, <1>3, Zenon
<1>6. Stage' = [Stage EXCEPT ![t] = Stage'[t]]
  BY <1>4, <1>5, ChangedAt
<1> QED BY <1>5, <1>6

\* A step that leaves the deque alone and does not move its thread between two
\* calls is none of the abstract queue.
LEMMA Stutters ==
    ASSUME TypeOK, NEW t \in Threads, pc[t] # "idle",
           NEW l, l # "idle", Goto(t, l), UNCHANGED <<bottom, top, buffer>>
    PROVE  UNCHANGED Abs!vars
<1>1. Stage = [u \in Threads |-> Stage[u]]
  BY DEF Stage
<1>2. Stage' = Stage
  <2>1. Stage[t] = "called" /\ Stage' = [Stage EXCEPT ![t] = "called"]
    BY StageStep DEF Goto
  <2> QED BY <1>1, <2>1, Zenon
<1>3. Queue' = Queue
  BY DEF Queue
<1> QED BY <1>2, <1>3 DEF Abs!vars, Goto

\* The initial deque is the empty queue.
LEMMA AbsInit == ASSUME Init PROVE Abs!Init
<1>1. Stage = [t \in Threads |-> "idle"]
  BY SMT DEF Init, ClientInit, Stage, InCall
<1>2. Queue = << >>
  BY SMT DEF Init, Queue
<1> QED BY <1>1, <1>2 DEF Abs!Init, Init, ClientInit, NoRet

\* Each step of the wrapper is a step of the queue, or none.
LEMMA AbsStep ==
    ASSUME OneOwner, DequeInv, NEW t \in Threads, Step(t)
    PROVE  Abs!Next \/ UNCHANGED Abs!vars
<1>0. TypeOK /\ InOwnCall /\ BufferNotOverrun /\ OwnerInPlace
      /\ ItemInPlace /\ ThievesUpToDate
  BY DEF DequeInv
<1>1. CASE PushCall(t) \/ StealCall(t)
  <2>1. Queue' = Queue
    BY <1>1 DEF Queue, PushCall, StealCall, shared
  <2>2. Stage[t] = "idle" /\ Stage' = [Stage EXCEPT ![t] = "called"]
    <3>1. PICK l : l # "idle" /\ pc' = [pc EXCEPT ![t] = l] /\ pc[t] = "idle"
      BY <1>1 DEF PushCall, StealCall, Invoke, InCall
    <3> QED BY <1>0, <3>1, StageStep
  <2>3. Abs!Call(t)
    BY <1>1, <2>1, <2>2 DEF Abs!Call, PushCall, StealCall, Invoke
  <2> QED BY <2>3 DEF Abs!Next, Abs!Step
<1>2. CASE PushLoadBottom(t)
  BY <1>0, <1>2, Stutters DEF PushLoadBottom, shared
<1>3. CASE PushLoadTop(t)
  BY <1>0, <1>3, Stutters DEF PushLoadTop, shared
<1>4. CASE PushStore(t)
  <2>1. loc[t].bottom = bottom /\ bottom < top + Size
    BY <1>0, <1>4, SMT DEF PushStore, OwnerInPlace
  <2>2. Queue' = Queue
    <3>1. ASSUME NEW i \in 1 .. bottom - top
          PROVE  buffer'[Slot(top + i - 1)] = buffer[Slot(top + i - 1)]
      <4> DEFINE p == top + i - 1
      <4>1. p \in Nat /\ p < bottom /\ bottom < p + Size
        BY <1>0, <2>1, SizeAssumption, SMT DEF TypeOK
      <4> HIDE DEF p
      <4>2. Slot(p) # Slot(bottom)
        BY <4>1, <1>0, SlotsDiffer DEF TypeOK
      <4>3. buffer'[Slot(p)] = buffer[Slot(p)]
        BY <1>0, <1>4, <2>1, <4>1, <4>2, SlotBound, SMT DEF PushStore, TypeOK
      <4> QED BY <4>3 DEF p
    <3>2. top' = top /\ bottom' = bottom
      BY <1>4 DEF PushStore
    <3> QED BY <3>1, <3>2, Zenon DEF Queue
  <2>3. Stage' = Stage
    BY <1>0, <1>4, SMT DEF PushStore, Goto, Stage, InCall, TypeOK, ClientTypeOK
  <2> QED BY <1>4, <2>2, <2>3 DEF PushStore, Goto, Abs!vars
<1>5. CASE PushPublish(t)
  <2> DEFINE n == bottom - top
  <2>1. loc[t].bottom = bottom /\ bottom' = bottom + 1 /\ top' = top /\ buffer' = buffer
    BY <1>0, <1>5, SMT DEF PushPublish, OwnerInPlace
  <2>2. n \in Nat /\ n + 1 \in Nat /\ bottom' - top' = n + 1
    BY <1>0, <2>1, SMT DEF TypeOK, BufferNotOverrun
  <2>3. /\ HasPlaces(Queue, n)
        /\ HasPlaces(Queue', n + 1)
        /\ \A i \in 1 .. n : Queue'[i] = Queue[i]
    <3>1. \A i \in 1 .. n : i \in 1 .. n + 1
      BY <2>2, SMT
    <3> QED BY <2>1, <2>2, <3>1, QueueItems, Zenon
  <2>4. Queue'[n + 1] = Current(t).val
    <3>1. Queue'[n + 1] = buffer[Slot(top + (n + 1) - 1)]
      <4>1. n + 1 \in 1 .. n + 1
        BY <2>2, SMT
      <4> QED BY <4>1, <2>1, <2>2, QueueItems, Zenon
    <3>2. top + (n + 1) - 1 = bottom
      BY <1>0, SMT DEF TypeOK
    <3> QED BY <3>1, <3>2, <1>0, <1>5 DEF ItemInPlace, PushPublish
  <2> HIDE DEF n
  <2>5. Queue' = Append(Queue, Current(t).val)
    BY <2>2, <2>3, <2>4, PushedBack
  <2>6. Stage[t] = "called" /\ Stage' = [Stage EXCEPT ![t] = "idle"]
    BY <1>0, <1>5, StageStep DEF PushPublish, Return
  <2>7. Abs!Enqueue(t)
    <3>1. Script[t][ip[t]].kind = "enq"
      BY <1>0, <1>5 DEF InOwnCall, InCallOf, PushPublish, PushLabels, Current
    <3>2. Abs!Effect(t, "ok", Append(Queue, Script[t][ip[t]].val))
      BY <1>5, <2>5, <2>6 DEF Abs!Effect, PushPublish, Return, Ok, Current
    <3> QED BY <2>6, <3>1, <3>2 DEF Abs!Enqueue
  <2> QED BY <2>7 DEF Abs!Next, Abs!Step
<1>6. CASE StealLoadTop(t)
  BY <1>0, <1>6, Stutters DEF StealLoadTop, shared
<1>k. pc[t] \in StealLabels => Script[t][ip[t]].kind = "deq"
  BY <1>0 DEF InOwnCall, InCallOf, Current
<1>7. CASE StealLoadBottom(t)
  <2>1. CASE bottom <= loc[t].top
    <3>1. Queue = << >> /\ Queue' = Queue
      <4>1. bottom - top = 0
        BY <1>0, <1>7, <2>1, SMT DEF StealLoadBottom, ThievesUpToDate, BufferNotOverrun, TypeOK
      <4>2. Queue = << >>
        BY <4>1, SMT DEF Queue
      <4> QED BY <4>2, <1>7 DEF StealLoadBottom, shared, Queue
    <3>2. Stage[t] = "called" /\ Stage' = [Stage EXCEPT ![t] = "idle"]
      BY <1>0, <1>7, <2>1, StageStep DEF StealLoadBottom, Return
    <3>3. Abs!Effect(t, "empty", Queue)
      BY <1>7, <2>1, <3>1, <3>2 DEF Abs!Effect, StealLoadBottom, Return, Empty
    <3>4. Abs!Dequeue(t)
      BY <1>7, <1>k, <3>1, <3>2, <3>3 DEF Abs!Dequeue, StealLoadBottom, StealLabels
    <3> QED BY <3>4 DEF Abs!Next, Abs!Step
  <2>2. CASE ~(bottom <= loc[t].top)
    BY <1>0, <1>7, <2>2, Stutters DEF StealLoadBottom, shared
  <2> QED BY <2>1, <2>2
<1>8. CASE StealLoadItem(t)
  BY <1>0, <1>8, Stutters DEF StealLoadItem, shared
<1>9. CASE StealAdvance(t)
  <2>0. Stage[t] = "called" /\ Stage' = [Stage EXCEPT ![t] = "idle"]
    BY <1>0, <1>9, StageStep DEF StealAdvance, Return
  <2>1. CASE TopUnchanged(t)
    <3> DEFINE n == bottom - top - 1
    <3>1. /\ top' = top + 1 /\ bottom' = bottom /\ buffer' = buffer
          /\ ret' = [ret EXCEPT ![t] = buffer[Slot(top)]]
      BY <1>0, <1>9, <2>1 DEF StealAdvance, TopUnchanged, AfterSteal, Return, ThievesUpToDate
    <3>2. n \in Nat /\ bottom - top = n + 1 /\ bottom' - top' = n
      BY <1>0, <1>9, <2>1, <3>1, SMT DEF StealAdvance, TopUnchanged, ThievesUpToDate, TypeOK
    <3>3. /\ HasPlaces(Queue, n + 1)
          /\ HasPlaces(Queue', n)
          /\ Queue[1] = buffer[Slot(top)]
          /\ \A i \in 1 .. n : Queue'[i] = Queue[i + 1]
      <4>1. /\ HasPlaces(Queue, n + 1)
            /\ HasPlaces(Queue', n)
            /\ \A i \in 1 .. n + 1 : Queue[i] = buffer[Slot(top + i - 1)]
            /\ \A i \in 1 .. n : Queue'[i] = buffer[Slot(top + 1 + i - 1)]
        BY <3>1, <3>2, QueueItems, Zenon
      <4>2. /\ 1 \in 1 .. n + 1 /\ top + 1 - 1 = top
            /\ \A i \in 1 .. n : i + 1 \in 1 .. n + 1 /\ top + 1 + i - 1 = top + (i + 1) - 1
        BY <1>0, <3>2, SMT DEF TypeOK
      <4> QED BY <4>1, <4>2, Zenon
    <3> HIDE DEF n
    <3>4. Queue # << >> /\ Head(Queue) = buffer[Slot(top)] /\ Tail(Queue) = Queue'
      <4>1. Queue # << >> /\ Head(Queue) = Queue[1] /\ Tail(Queue) = Queue'
        BY <3>2, <3>3, PoppedFront
      <4> QED BY <4>1, <3>3
    <3>5. Abs!Effect(t, Head(Queue), Tail(Queue))
      BY <1>9, <2>0, <3>1, <3>4 DEF Abs!Effect, StealAdvance, Return
    <3>6. Abs!Dequeue(t)
      BY <1>9, <1>k, <2>0, <3>4, <3>5 DEF Abs!Dequeue, StealAdvance, StealLabels
    <3> QED BY <3>6 DEF Abs!Next, Abs!Step
  <2>2. CASE ~TopUnchanged(t)
    <3>1. Queue' = Queue
      BY <1>9, <2>2 DEF StealAdvance, Queue
    <3>2. Abs!Effect(t, "empty", Queue)
      BY <1>9, <2>0, <2>2, <3>1 DEF Abs!Effect, StealAdvance, Return, Empty
    <3>3. Abs!Dequeue(t)
      BY <1>9, <1>k, <2>0, <3>2 DEF Abs!Dequeue, StealAdvance, StealLabels
    <3> QED BY <3>3 DEF Abs!Next, Abs!Step
  <2> QED BY <2>1, <2>2
<1> QED BY <1>1, <1>2, <1>3, <1>4, <1>5, <1>6, <1>7, <1>8, <1>9 DEF Step

\* With one owner every execution of the deque is one of a FIFO queue whose
\* dequeue may return false, with the same calls and the same results: no item
\* is lost, stolen twice or overtaken.
THEOREM ImplementsQueue == ASSUME OneOwner PROVE Spec => ImplementsAtomicQueue
<1>1. Init => Abs!Init
  BY AbsInit
<1>2. DequeInv /\ [Next]_vars => [Abs!Next]_Abs!vars
  <2>1. ASSUME UNCHANGED vars PROVE UNCHANGED Abs!vars
    BY <2>1 DEF vars, Abs!vars, Stage, Queue, InCall
  <2> QED BY <2>1, AbsStep DEF Next, Terminating
<1> QED BY <1>1, <1>2, DequeCorrect, PTL DEF Spec, Abs!Spec, ImplementsAtomicQueue

-----------------------------------------------------------------------------
\* The Herlihy-Wing queue: the memory and the inductive invariant.

\* The locations of the memory, and those whose places a view may hold: a
\* payload has a place too, once its block is filled.
Objects == {back} \cup {AR(c) : c \in Cells}
Locations == Objects \cup {Payload(v) : v \in Payloads}
Views == UNION {[D -> Nat \ {0}] : D \in SUBSET Locations}
Writes == [val : Payloads \cup Nat, view : Views, rmw : BOOLEAN]

\* The memory has a first write to every location, and every thread a view.
MemoryType ==
    /\ mem \in [Objects -> Seq(Writes)]
    /\ \A x \in Objects : Len(mem[x]) >= 1
    /\ view \in [Threads -> Views]

\* The views a thread has, or may get with the index: nobody acquires a cell.
Known(w) ==
    \/ \E t \in Threads : w = view[t]
    \/ \E i \in DOMAIN mem[back] : w = mem[back][i].view

\* A view knows of no write that has not been made, and a payload is filled once.
ViewInTime(w) ==
    /\ \A x \in Objects : Place(w, x) <= Len(mem[x])
    /\ \A v \in Payloads : Place(w, Payload(v)) <= 2

ViewsInTime == \A w \in Views : Known(w) => ViewInTime(w)

\* In the build "SEQ" there is one write to a location, and views say nothing.
OneWrite ==
    Interleaved => /\ \A x \in Objects : Len(mem[x]) = 1 /\ mem[x][1].view = Nothing
                   /\ \A t \in Threads : view[t] = Nothing

\* back counts: its values are 0, 1, ... and each write is next to the one
\* before it for ever.
BackCounts ==
    /\ \A i \in DOMAIN mem[back] : mem[back][i].val \in Nat
    /\ ~Interleaved => \A i \in DOMAIN mem[back] :
                          mem[back][i].val = i - 1 /\ (i >= 2 => mem[back][i].rmw)

\* The enqueues that have taken their index.
HasIndex(e) ==
    e[2] < ip[e[1]] \/ (e[2] = ip[e[1]] /\ pc[e[1]] # "e_faa")
Counted == {e \in Enqueues : HasIndex(e)}
BackIsCount == Newest(back) = Cardinality(Counted)

\* No item has been stored in the cell: there is its first write, and a chain of
\* exchanges.
Untouched(c) ==
    \A j \in DOMAIN mem[AR(c)] : mem[AR(c)][j].val = Null /\ (j >= 2 => mem[AR(c)][j].rmw)

CellsFill ==
    /\ \A c \in Cells : \A j \in DOMAIN mem[AR(c)] : mem[AR(c)][j].val \in Payloads
    /\ \A c \in Cells : c >= Newest(back) => Untouched(c)
    /\ \A t \in Threads : pc[t] = "e_store" => k[t] < Newest(back) /\ Untouched(k[t])
    /\ \A t, u \in Threads : pc[t] = "e_store" /\ pc[u] = "e_store" /\ t # u => k[t] # k[u]

\* At most one item is ever stored in a cell.
OneItem ==
    \A c \in Cells : \A i, j \in DOMAIN mem[AR(c)] :
        mem[AR(c)][i].val # Null /\ mem[AR(c)][j].val # Null => i = j

\* A sweep is below the index it read.
Indices ==
    /\ k \in [Threads -> Nat] /\ lback \in [Threads -> Nat]
    /\ \A t \in Threads : pc[t] = "d_xchg" => k[t] < lback[t]

\* The thread at an access is in the call it belongs to.
InOwnArrayCall == InCallOf({"e_faa", "e_store"}, {"d_back", "d_xchg"})

\* The inductive invariant of the indices and cells.
ArrayIInv ==
    /\ MemoryType /\ ViewsInTime /\ OneWrite
    /\ InOwnArrayCall /\ Indices
    /\ ArrayTypeOK
    /\ BackCounts /\ BackIsCount /\ CellsFill /\ OneItem

-----------------------------------------------------------------------------
\* Views.

\* The locations are different.
LEMMA Apart ==
    /\ back \in Objects /\ back \in Locations
    /\ \A c \in Cells : AR(c) \in Objects /\ AR(c) \in Locations /\ AR(c) # back
    /\ \A c, d \in Cells : AR(c) = AR(d) => c = d
    /\ \A v \in Payloads : Payload(v) \in Locations /\ Payload(v) \notin Objects
    /\ \A x \in Objects : x \in Locations /\ (x = back \/ \E c \in Cells : x = AR(c))
<1>1. \A c \in Cells : AR(c) # back /\ \A d \in Cells : AR(c) = AR(d) => c = d
  BY SMT DEF AR, back
<1>2. \A v \in Payloads : Payload(v) # back /\ \A c \in Cells : AR(c) # Payload(v)
  BY SMT DEF AR, back, Payload
<1> QED BY <1>1, <1>2, Zenon DEF Objects, Locations

\* A view has a place for every location.
LEMMA ViewPlace ==
    ASSUME NEW v \in Views, NEW x
    PROVE  Place(v, x) \in Nat \ {0} /\ (Place(v, x) # 1 => x \in DOMAIN v)
BY SMT DEF Views, Place

\* A function from some locations to places is one.
LEMMA ViewOf ==
    ASSUME NEW D, D \subseteq Locations, NEW w \in [D -> Nat \ {0}]
    PROVE  w \in Views
BY Zenon DEF Views

\* Views are joined place by place, and so are their places.
LEMMA JoinView ==
    ASSUME NEW v \in Views, NEW w \in Views
    PROVE  /\ Join(v, w) \in Views
           /\ \A x : Place(Join(v, w), x) =
                        IF Place(v, x) >= Place(w, x) THEN Place(v, x) ELSE Place(w, x)
<1>1. PICK D \in SUBSET Locations : v \in [D -> Nat \ {0}]
  BY DEF Views
<1>2. PICK E \in SUBSET Locations : w \in [E -> Nat \ {0}]
  BY DEF Views
<1>3. Join(v, w) \in [D \cup E -> Nat \ {0}]
  BY <1>1, <1>2, ViewPlace, SMT DEF Join
<1>4. ASSUME NEW x
      PROVE  Place(Join(v, w), x) =
                IF Place(v, x) >= Place(w, x) THEN Place(v, x) ELSE Place(w, x)
  <2>1. CASE x \in D \cup E
    BY <2>1, <1>1, <1>2, Zenon DEF Join, Place
  <2>2. CASE x \notin D \cup E
    BY <2>2, <1>1, <1>2, SMT DEF Join, Place
  <2> QED BY <2>1, <2>2
<1> QED BY <1>3, <1>4, Zenon DEF Views

\* A view of one write.
LEMMA OnePlaceView ==
    ASSUME NEW x \in Locations, NEW p \in Nat \ {0}
    PROVE  /\ At(x, p) \in Views
           /\ \A y : Place(At(x, p), y) = IF y = x THEN p ELSE 1
<1>1. At(x, p) \in [{x} -> Nat \ {0}] /\ {x} \in SUBSET Locations
  BY Zenon DEF At
<1> QED BY <1>1, Zenon DEF Views, Place, At

\* A view that is put at place p of x.
LEMMA PutView ==
    ASSUME NEW x \in Locations, NEW p \in Nat \ {0}, NEW w \in Views
    PROVE  /\ Put(w, x, p) \in Views
           /\ \A y : Place(Put(w, x, p), y) = IF y = x THEN p ELSE Place(w, y)
<1>1. PICK D \in SUBSET Locations : w \in [D -> Nat \ {0}]
  BY DEF Views
<1>2. Put(w, x, p) = [y \in {x} \cup D |-> IF y = x THEN p ELSE w[y]]
  BY <1>1, Zenon DEF Put
<1>3. Put(w, x, p) \in [{x} \cup D -> Nat \ {0}] /\ {x} \cup D \in SUBSET Locations
  BY <1>1, <1>2, Zenon
<1>4. ASSUME NEW y
      PROVE  Place(Put(w, x, p), y) = IF y = x THEN p ELSE Place(w, y)
  <2>1. CASE y \in {x} \cup D
    BY <2>1, <1>1, <1>2, Zenon DEF Place
  <2>2. CASE y \notin {x} \cup D
    BY <2>2, <1>1, <1>2, Zenon DEF Place
  <2> QED BY <2>1, <2>2
<1> QED BY <1>3, <1>4, Zenon DEF Views

\* Nobody knows anything: the first view.
LEMMA NothingView == Nothing \in Views /\ \A x : Place(Nothing, x) = 1
<1>1. Nothing \in [{} -> Nat \ {0}]
  BY SMT DEF Nothing
<1>2. \A x : x \notin DOMAIN Nothing
  BY SMT DEF Nothing
<1> QED BY <1>1, <1>2, Zenon DEF Views, Place

\* A view after a write came in at place p of x, before its own place.
LEMMA MovedView ==
    ASSUME NEW x \in Locations, NEW p \in Nat, p >= 2, NEW w \in Views, Place(w, x) >= p
    PROVE  /\ [w EXCEPT ![x] = @ + 1] \in Views
           /\ \A y : Place([w EXCEPT ![x] = @ + 1], y) =
                        IF y = x THEN Place(w, x) + 1 ELSE Place(w, y)
<1>1. PICK D \in SUBSET Locations : w \in [D -> Nat \ {0}]
  BY DEF Views
<1>2. x \in D /\ Place(w, x) = w[x]
  BY <1>1, SMT DEF Place
<1>3. [w EXCEPT ![x] = @ + 1] \in [D -> Nat \ {0}]
  BY <1>1, <1>2, SMT
<1>4. \A y : Place([w EXCEPT ![x] = @ + 1], y) = IF y = x THEN Place(w, x) + 1 ELSE Place(w, y)
  BY <1>1, <1>2, Zenon DEF Place
<1> QED BY <1>3, <1>4, Zenon DEF Views

\* A bounded set of numbers has a largest one.
LEMMA GreatestNumber ==
    ASSUME NEW S, S \subseteq Nat, S # {}, NEW b \in Nat, \A y \in S : y <= b
    PROVE  Max(S) \in S /\ \A y \in S : y <= Max(S)
<1> DEFINE B == {c \in Nat : \A y \in S : y <= c}
<1>1. PICK c \in B : \A d \in B : c <= d
  <2>1. B \subseteq Nat /\ b \in B
    OBVIOUS
  <2> QED BY <2>1, LeastNumber
<1>2. c \in S
  <2> SUFFICES ASSUME c \notin S PROVE FALSE
    OBVIOUS
  <2>1. PICK y \in S : TRUE
    OBVIOUS
  <2>2. y \in Nat /\ y <= c /\ y # c
    OBVIOUS
  <2>3. c - 1 \in Nat /\ \A z \in S : z <= c - 1
    BY <2>2, SMT
  <2>4. c <= c - 1
    BY <2>3, <1>1, Zenon
  <2> QED BY <2>4, SMT
<1>3. \A y \in S : c >= y
  BY SMT
<1>4. Max(S) \in S /\ \A y \in S : Max(S) >= y
  BY <1>2, <1>3, Zenon DEF Max
<1> QED BY <1>4, SMT

\* Views that know of no more than bounded places are joined place by place.
LEMMA JoinAllView ==
    ASSUME NEW vs, vs \subseteq Views, vs # {},
           \A x : \E b \in Nat : \A v \in vs : Place(v, x) <= b
    PROVE  /\ JoinAll(vs) \in Views
           /\ \A x : /\ \E v \in vs : Place(JoinAll(vs), x) = Place(v, x)
                     /\ \A v \in vs : Place(v, x) <= Place(JoinAll(vs), x)
<1> DEFINE P(x) == {Place(v, x) : v \in vs}
           U == UNION {DOMAIN v : v \in vs}
<1>1. ASSUME NEW x
      PROVE  Max(P(x)) \in P(x) /\ \A v \in vs : Place(v, x) <= Max(P(x))
  <2>1. PICK b \in Nat : \A v \in vs : Place(v, x) <= b
    OBVIOUS
  <2>2. P(x) \subseteq Nat /\ P(x) # {} /\ \A y \in P(x) : y <= b
    <3>1. \A v \in vs : Place(v, x) \in Nat
      BY ViewPlace
    <3> QED BY <3>1, <2>1
  <2>3. Max(P(x)) \in P(x) /\ \A y \in P(x) : y <= Max(P(x))
    BY <2>2, GreatestNumber
  <2> QED BY <2>3
<1>2. JoinAll(vs) = [x \in U |-> Max(P(x))]
  BY Zenon DEF JoinAll
<1>3. JoinAll(vs) \in Views
  <2>1. \A v \in vs : DOMAIN v \subseteq Locations
    <3> SUFFICES ASSUME NEW v \in vs PROVE DOMAIN v \subseteq Locations
      OBVIOUS
    <3>1. PICK D \in SUBSET Locations : v \in [D -> Nat \ {0}]
      BY Zenon DEF Views
    <3> QED BY <3>1
  <2>2. ASSUME NEW x
        PROVE  Max(P(x)) \in Nat \ {0}
    <3>1. PICK v \in vs : Max(P(x)) = Place(v, x)
      BY <1>1
    <3> QED BY <3>1, ViewPlace, Zenon
  <2> HIDE DEF P
  <2>3. JoinAll(vs) \in [U -> Nat \ {0}]
    BY <2>2, <1>2, Zenon
  <2>4. U \subseteq Locations
    BY <2>1
  <2> HIDE DEF U
  <2> QED BY <2>3, <2>4, ViewOf
<1> HIDE DEF P
<1>4. ASSUME NEW x, x \notin U
      PROVE  Place(JoinAll(vs), x) = 1 /\ \A v \in vs : Place(v, x) = 1
  <2>1. x \notin DOMAIN JoinAll(vs)
    BY <1>4, <1>2, Zenon
  <2>2. \A v \in vs : x \notin DOMAIN v
    BY <1>4, Zenon
  <2> QED BY <2>1, <2>2, Zenon DEF Place
<1>5. ASSUME NEW x, x \in U
      PROVE  Place(JoinAll(vs), x) = Max(P(x))
  BY <1>5, <1>2, Zenon DEF Place
<1>6. ASSUME NEW x
      PROVE  /\ \E v \in vs : Place(JoinAll(vs), x) = Place(v, x)
             /\ \A v \in vs : Place(v, x) <= Place(JoinAll(vs), x)
  <2>1. CASE x \in U
    <3>1. Place(JoinAll(vs), x) = Max(P(x))
      BY <2>1, <1>5
    <3>2. \E v \in vs : Place(JoinAll(vs), x) = Place(v, x)
      BY <3>1, <1>1, Zenon DEF P
    <3>3. \A v \in vs : Place(v, x) <= Place(JoinAll(vs), x)
      BY <3>1, <1>1, Zenon
    <3> QED BY <3>2, <3>3
  <2>2. CASE x \notin U
    <3>1. Place(JoinAll(vs), x) = 1 /\ \A v \in vs : Place(v, x) = 1
      BY <2>2, <1>4
    <3>2. 1 <= 1
      BY SMT
    <3>3. PICK v \in vs : TRUE
      OBVIOUS
    <3>4. Place(JoinAll(vs), x) = Place(v, x)
      BY <3>1, Zenon
    <3>5. \A w \in vs : Place(w, x) <= Place(JoinAll(vs), x)
      BY <3>1, <3>2, Zenon
    <3> QED BY <3>4, <3>5, Zenon
  <2> QED BY <2>1, <2>2
<1> QED BY <1>3, <1>6

\* What a view knows after a write has come in at place p of x.
LEMMA MovedPlaces ==
    ASSUME NEW x \in Objects, Len(mem[x]) \in Nat, NEW p \in Nat, p >= 2, NEW w \in Views
    PROVE  /\ Moved(w, x, p) \in Views
           /\ \A y : Place(Moved(w, x, p), y) =
                        IF y = x /\ p <= Len(mem[x]) /\ Place(w, x) >= p
                        THEN Place(w, x) + 1 ELSE Place(w, y)
<1>1. CASE p <= Len(mem[x]) /\ Place(w, x) >= p
  <2>1. /\ [w EXCEPT ![x] = @ + 1] \in Views
        /\ \A y : Place([w EXCEPT ![x] = @ + 1], y) =
                     IF y = x THEN Place(w, x) + 1 ELSE Place(w, y)
    <3>1. x \in Locations
      BY Apart
    <3> QED BY <3>1, <1>1, MovedView
  <2> QED BY <1>1, <2>1, Zenon DEF Moved
<1>2. CASE ~(p <= Len(mem[x]) /\ Place(w, x) >= p)
  BY <1>2, Zenon DEF Moved
<1> QED BY <1>1, <1>2

\* An element that is inserted: those from its place on move up by one.
LEMMA Inserted ==
    ASSUME NEW S, NEW s \in Seq(S), NEW e \in S, NEW p \in 1 .. Len(s) + 1
    PROVE  /\ InsertAt(s, p, e) \in Seq(S)
           /\ Len(InsertAt(s, p, e)) = Len(s) + 1
           /\ InsertAt(s, p, e)[p] = e
           /\ \A i \in 1 .. Len(s) :
                InsertAt(s, p, e)[IF i < p THEN i ELSE i + 1] = s[i]
<1> DEFINE a == SubSeq(s, 1, p - 1)
           b == SubSeq(s, p, Len(s))
<1>1. /\ a \in Seq(S) /\ Len(a) = p - 1 /\ \A i \in 1 .. p - 1 : a[i] = s[i]
      /\ b \in Seq(S) /\ Len(b) = Len(s) - p + 1
      /\ \A i \in 1 .. Len(s) - p + 1 : b[i] = s[p + i - 1]
  BY SMT
<1>2. /\ a \o <<e>> \in Seq(S) /\ Len(a \o <<e>>) = p /\ (a \o <<e>>)[p] = e
      /\ \A i \in 1 .. p - 1 : (a \o <<e>>)[i] = s[i]
  <2> HIDE DEF a
  <2> QED BY <1>1, SMT
<1> DEFINE c == a \o <<e>>
<1>3. /\ c \o b \in Seq(S) /\ Len(c \o b) = Len(s) + 1 /\ (c \o b)[p] = e
      /\ \A i \in 1 .. p - 1 : (c \o b)[i] = s[i]
      /\ \A i \in p .. Len(s) : (c \o b)[i + 1] = s[i]
  <2>1. c \in Seq(S) /\ Len(c) = p /\ c[p] = e /\ \A i \in 1 .. p - 1 : c[i] = s[i]
    BY <1>2
  <2>2. /\ b \in Seq(S) /\ Len(b) = Len(s) - p + 1
        /\ \A i \in 1 .. Len(s) - p + 1 : b[i] = s[p + i - 1]
    BY <1>1
  <2> HIDE DEF b, c
  <2>3. /\ c \o b \in Seq(S) /\ Len(c \o b) = Len(c) + Len(b)
        /\ \A i \in 1 .. Len(c) + Len(b) :
              (c \o b)[i] = IF i <= Len(c) THEN c[i] ELSE b[i - Len(c)]
    BY <2>1, <2>2, ConcatProperties
  <2>4. ASSUME NEW i \in p .. Len(s)
        PROVE  (c \o b)[i + 1] = s[i]
    <3>1. i + 1 - p \in 1 .. Len(s) - p + 1 /\ p + (i + 1 - p) - 1 = i
          /\ i + 1 \in 1 .. p + (Len(s) - p + 1) /\ ~(i + 1 <= p)
      BY SMT
    <3>2. (c \o b)[i + 1] = b[i + 1 - p]
      BY <3>1, <2>1, <2>2, <2>3
    <3>3. b[i + 1 - p] = s[p + (i + 1 - p) - 1]
      BY <3>1, <2>2, Zenon
    <3> QED BY <3>1, <3>2, <3>3
  <2> QED BY <2>1, <2>2, <2>3, <2>4, SMT
<1>4. InsertAt(s, p, e) = c \o b
  BY Zenon DEF InsertAt
<1> HIDE DEF c, b
<1>5. ASSUME NEW i \in 1 .. Len(s)
      PROVE  InsertAt(s, p, e)[IF i < p THEN i ELSE i + 1] = s[i]
  <2>1. CASE i < p
    BY <2>1, <1>3, <1>4, SMT
  <2>2. CASE ~(i < p)
    BY <2>2, <1>3, <1>4, SMT
  <2> QED BY <2>1, <2>2
<1> QED BY <1>3, <1>4, <1>5

-----------------------------------------------------------------------------
\* Writes, in a build with weak orders.

\* The place of the i-th write to y after a write came in at place p of x.
NewPlace(y, i, x, p) == IF y = x /\ i >= p THEN i + 1 ELSE i

\* The writes there were, after that.
Kept(x, p) ==
    \A y \in Objects :
        /\ Len(mem'[y]) = IF y = x THEN Len(mem[y]) + 1 ELSE Len(mem[y])
        /\ \A i \in DOMAIN mem[y] :
              mem'[y][NewPlace(y, i, x, p)] = [mem[y][i] EXCEPT !.view = Moved(@, x, p)]

\* The parts of an effect.
LEMMA EffectParts ==
    ASSUME NEW e, NEW m, NEW w, NEW s, e = [mem |-> m, view |-> w, sc |-> s]
    PROVE  e.mem = m /\ e.view = w
BY SMT

\* An access e of t that writes v at place p of x.
WriteStep(e, t, x, p, v, o, knows, carried, rmw) ==
    /\ Does(e) /\ e.to = AddWrite(t, x, p, v, o, knows, carried, rmw)
    /\ t \in Threads /\ x \in Objects /\ v \in Payloads \cup Nat /\ rmw \in BOOLEAN
    /\ ~Interleaved => /\ p \in 2 .. Len(mem[x]) + 1
                       /\ knows \in Views /\ carried \in Views

\* The write is there, carries what it should, and the views have moved.
Written(t, x, p, v, o, knows, carried, rmw) ==
    /\ Kept(x, p)
    /\ mem'[x][p].val = v /\ mem'[x][p].rmw = rmw
    /\ mem'[x][p].view = Join(Moved(carried, x, p), IF Releases(o) THEN view'[t] ELSE At(x, p))
    /\ view'[t] = Put(Moved(knows, x, p), x, p)
    /\ \A u \in Threads \ {t} : view'[u] = Moved(view[u], x, p)

\* A write that an access makes, and what it does to the views.
LEMMA WriteEffect ==
    ASSUME MemoryType, ~Interleaved,
           NEW e, NEW t, NEW x, NEW p, NEW v, NEW o, NEW knows, NEW carried, NEW rmw,
           WriteStep(e, t, x, p, v, o, knows, carried, rmw)
    PROVE  MemoryType' /\ Written(t, x, p, v, o, knows, carried, rmw)
<1> DEFINE now == Put(Moved(knows, x, p), x, p)
           write == [val |-> v, rmw |-> rmw,
                     view |-> Join(Moved(carried, x, p), IF Releases(o) THEN now ELSE At(x, p))]
           moved == IF p > Len(mem[x]) THEN mem
                    ELSE [y \in DOMAIN mem |->
                            [i \in DOMAIN mem[y] |->
                                [mem[y][i] EXCEPT !.view = Moved(@, x, p)]]]
           Shifted(y) == [i \in DOMAIN mem[y] |-> [mem[y][i] EXCEPT !.view = Moved(@, x, p)]]
<1>0. /\ Does(e) /\ e.to = AddWrite(t, x, p, v, o, knows, carried, rmw)
      /\ t \in Threads /\ x \in Objects /\ v \in Payloads \cup Nat /\ rmw \in BOOLEAN
      /\ p \in 2 .. Len(mem[x]) + 1 /\ knows \in Views /\ carried \in Views
  BY DEF WriteStep
<1> USE <1>0
<1>1. /\ p \in Nat \ {0} /\ p \in Nat /\ p >= 2 /\ x \in Locations
      /\ \A y \in Objects : mem[y] \in Seq(Writes) /\ Len(mem[y]) \in Nat
                            /\ DOMAIN mem[y] = 1 .. Len(mem[y]) /\ Len(mem[y]) >= 1
      /\ DOMAIN mem = Objects
  BY Apart, SMT DEF MemoryType
<1>2. \A w \in Views : Moved(w, x, p) \in Views
  BY <1>1, MovedPlaces
<1>3. now \in Views
  BY <1>1, <1>2, PutView
<1>4. write \in Writes
  <2>1. Join(Moved(carried, x, p), IF Releases(o) THEN now ELSE At(x, p)) \in Views
    <3>1. At(x, p) \in Views /\ Moved(carried, x, p) \in Views
      BY <1>1, <1>2, OnePlaceView
    <3> HIDE DEF now
    <3> QED BY <3>1, <1>3, JoinView
  <2> QED BY <2>1, Zenon DEF Writes
<1> DEFINE newMem == [moved EXCEPT ![x] = InsertAt(@, p, write)]
           newView == [u \in Threads |-> IF u = t THEN now ELSE Moved(view[u], x, p)]
<1>5. mem' = newMem /\ view' = newView
  <2>1. PICK s : e.to = [mem |-> newMem, view |-> newView, sc |-> s]
    BY Zenon DEF AddWrite
  <2>2. mem' = e.to.mem /\ view' = e.to.view
    BY DEF Does
  <2> HIDE DEF newMem, newView
  <2>3. e.to.mem = newMem /\ e.to.view = newView
    BY <2>1, EffectParts
  <2> QED BY <2>2, <2>3, Zenon
<1>6. ASSUME NEW y \in Objects
      PROVE  /\ moved[y] = Shifted(y)
             /\ moved[y] \in Seq(Writes) /\ Len(moved[y]) = Len(mem[y])
  <2>1. ASSUME NEW i \in DOMAIN mem[y]
        PROVE  /\ mem[y][i] \in Writes
               /\ [mem[y][i] EXCEPT !.view = Moved(@, x, p)] \in Writes
    <3>1. mem[y][i] \in Writes
      BY <1>1, SMT
    <3> QED BY <3>1, <1>2, Zenon DEF Writes
  <2>2. Shifted(y) \in Seq(Writes) /\ Len(Shifted(y)) = Len(mem[y])
    <3>1. Shifted(y) \in [1 .. Len(mem[y]) -> Writes]
      BY <2>1, <1>1, Zenon
    <3> HIDE DEF Shifted
    <3> QED BY <3>1, <1>1, SMT
  <2>3. CASE p > Len(mem[x])
    <3>1. moved = mem
      BY <2>3, Zenon
    <3>2. ASSUME NEW i \in DOMAIN mem[y]
          PROVE  [mem[y][i] EXCEPT !.view = Moved(@, x, p)] = mem[y][i]
      <4>1. \A w : Moved(w, x, p) = w
        <5>1. ~(p <= Len(mem[x]))
          BY <2>3, <1>1, SMT
        <5> QED BY <5>1, Zenon DEF Moved
      <4> QED BY <4>1, <2>1, Zenon DEF Writes
    <3>3. mem[y] = [i \in DOMAIN mem[y] |-> mem[y][i]]
      BY <1>1, SMT
    <3>4. mem[y] = Shifted(y)
      BY <3>2, <3>3, Zenon
    <3> QED BY <3>1, <3>4, <2>2, Zenon
  <2>4. CASE ~(p > Len(mem[x]))
    <3>1. moved[y] = Shifted(y)
      BY <2>4, <1>1, Zenon
    <3> QED BY <3>1, <2>2, Zenon
  <2> QED BY <2>3, <2>4
<1>7. DOMAIN moved = Objects
  BY <1>1, Zenon
<1>8. \A y \in Objects \ {x} : mem'[y] = Shifted(y)
  <2> SUFFICES ASSUME NEW y \in Objects, y # x PROVE mem'[y] = Shifted(y)
    BY Zenon
  <2>1. moved[y] = Shifted(y)
    BY <1>6
  <2>2. mem'[y] = moved[y]
    <3> HIDE DEF moved, write
    <3> QED BY <1>5, <1>7, Zenon
  <2> QED BY <2>1, <2>2, Zenon
<1>9. mem'[x] = InsertAt(Shifted(x), p, write) /\ DOMAIN mem' = Objects
  <2>1. mem'[x] = InsertAt(moved[x], p, write) /\ DOMAIN mem' = Objects
    <3> HIDE DEF moved, write, Shifted
    <3> QED BY <1>5, <1>7, Zenon
  <2>2. moved[x] = Shifted(x)
    BY <1>6
  <2> QED BY <2>1, <2>2, Zenon
<1>10. /\ Shifted(x) \in Seq(Writes) /\ Len(Shifted(x)) = Len(mem[x])
       /\ \A y \in Objects : Shifted(y) \in Seq(Writes) /\ Len(Shifted(y)) = Len(mem[y])
  <2> HIDE DEF moved, write, Shifted
  <2> QED BY <1>6
<1>11. /\ mem'[x] \in Seq(Writes)
       /\ Len(mem'[x]) = Len(mem[x]) + 1
       /\ mem'[x][p] = write
       /\ \A i \in 1 .. Len(mem[x]) : mem'[x][IF i < p THEN i ELSE i + 1] = Shifted(x)[i]
  <2> HIDE DEF write, Shifted
  <2> QED BY <1>4, <1>9, <1>10, Inserted
<1>12. Kept(x, p)
  <2>1. \A y \in Objects : Len(mem'[y]) = IF y = x THEN Len(mem[y]) + 1 ELSE Len(mem[y])
    <3> HIDE DEF write, Shifted
    <3> QED BY <1>8, <1>10, <1>11, Zenon
  <2>2. ASSUME NEW y \in Objects, NEW i \in DOMAIN mem[y]
        PROVE  mem'[y][NewPlace(y, i, x, p)] = [mem[y][i] EXCEPT !.view = Moved(@, x, p)]
    <3>1. Shifted(y)[i] = [mem[y][i] EXCEPT !.view = Moved(@, x, p)]
      OBVIOUS
    <3>2. CASE y = x
      <4>1. i \in 1 .. Len(mem[x]) /\ NewPlace(y, i, x, p) = IF i < p THEN i ELSE i + 1
        BY <3>2, <1>1, SMT DEF NewPlace
      <4> HIDE DEF Shifted, write
      <4> QED BY <4>1, <3>1, <3>2, <1>11
    <3>3. CASE y # x
      <4>1. NewPlace(y, i, x, p) = i
        BY <3>3, Zenon DEF NewPlace
      <4>2. mem'[y] = Shifted(y)
        BY <3>3, <1>8
      <4> HIDE DEF Shifted
      <4> QED BY <4>1, <4>2, <3>1
    <3> QED BY <3>2, <3>3
  <2> QED BY <2>1, <2>2, Zenon DEF Kept
<1>13. MemoryType'
  <2>1. mem' \in [Objects -> Seq(Writes)]
    <3>1. \A y \in Objects : mem'[y] \in Seq(Writes)
      <4> HIDE DEF Shifted, write
      <4> QED BY <1>8, <1>10, <1>11
    <3>2. mem' = [y \in Objects |-> mem'[y]]
      <4> HIDE DEF Shifted, write, moved
      <4> QED BY <1>5, <1>7, Zenon
    <3> QED BY <3>1, <3>2, Zenon
  <2>2. \A y \in Objects : Len(mem'[y]) >= 1
    BY <1>12, <1>1, SMT DEF Kept
  <2>3. view' \in [Threads -> Views]
    <3>1. \A u \in Threads : Moved(view[u], x, p) \in Views
      BY <1>2 DEF MemoryType
    <3> HIDE DEF now
    <3> QED BY <3>1, <1>3, <1>5, Zenon
  <2> QED BY <2>1, <2>2, <2>3 DEF MemoryType, Objects, Cells, Views, Writes, Locations
<1>14. view'[t] = now /\ \A u \in Threads \ {t} : view'[u] = Moved(view[u], x, p)
  <2> HIDE DEF now
  <2> QED BY <1>5, Zenon
<1>15. /\ write.val = v /\ write.rmw = rmw
       /\ write.view = Join(Moved(carried, x, p), IF Releases(o) THEN now ELSE At(x, p))
  <2> HIDE DEF now
  <2> QED BY Zenon
<1>16. /\ mem'[x][p].val = v /\ mem'[x][p].rmw = rmw
       /\ mem'[x][p].view =
            Join(Moved(carried, x, p), IF Releases(o) THEN view'[t] ELSE At(x, p))
  <2> HIDE DEF now, write
  <2> QED BY <1>11, <1>14, <1>15, Zenon
<1> QED BY <1>12, <1>13, <1>14, <1>16, Zenon DEF Written

\* Every write is either the one made or one there was.
LEMMA NewOrOld ==
    ASSUME MemoryType, NEW x \in Objects, NEW p \in 2 .. Len(mem[x]) + 1, Kept(x, p),
           MemoryType', NEW y \in Objects, NEW j \in DOMAIN mem'[y]
    PROVE  \/ y = x /\ j = p
           \/ \E i \in DOMAIN mem[y] : j = NewPlace(y, i, x, p)
<1>1. /\ Len(mem[y]) \in Nat /\ DOMAIN mem[y] = 1 .. Len(mem[y])
      /\ DOMAIN mem'[y] = 1 .. Len(mem'[y])
  BY SMT DEF MemoryType
<1>2. CASE y # x
  <2>1. j \in DOMAIN mem[y] /\ j = NewPlace(y, j, x, p)
    BY <1>1, <1>2 DEF Kept, NewPlace
  <2> QED BY <2>1
<1>3. CASE y = x /\ j < p
  <2>1. j \in DOMAIN mem[y] /\ j = NewPlace(y, j, x, p)
    BY <1>1, <1>3, SMT DEF NewPlace
  <2> QED BY <2>1
<1>4. CASE y = x /\ j > p
  <2>0. Len(mem'[y]) = Len(mem[y]) + 1
    BY <1>4 DEF Kept
  <2>1. j - 1 \in DOMAIN mem[y] /\ j = NewPlace(y, j - 1, x, p)
    BY <2>0, <1>1, <1>4, SMT DEF NewPlace
  <2> QED BY <2>1
<1> QED BY <1>1, <1>2, <1>3, <1>4, SMT

\* What a view of the memory knows after a write that comes in.
LEMMA MovedInTime ==
    ASSUME MemoryType, NEW x \in Objects, NEW p \in 2 .. Len(mem[x]) + 1, Kept(x, p),
           NEW w \in Views, ViewInTime(w)
    PROVE  /\ \A y \in Objects : Place(Moved(w, x, p), y) <= Len(mem'[y])
           /\ \A v \in Payloads : Place(Moved(w, x, p), Payload(v)) <= 2
<1>1. /\ p \in Nat /\ p >= 2
      /\ \A y \in Objects : Len(mem[y]) \in Nat
  BY SMT DEF MemoryType
<1>2. \A y : Place(Moved(w, x, p), y) =
                IF y = x /\ p <= Len(mem[x]) /\ Place(w, x) >= p
                THEN Place(w, x) + 1 ELSE Place(w, y)
  BY <1>1, MovedPlaces
<1>3. \A y \in Objects : Place(w, y) \in Nat
  BY ViewPlace
<1>4. ASSUME NEW y \in Objects
      PROVE  Place(Moved(w, x, p), y) <= Len(mem'[y])
  <2>1. Len(mem'[y]) = IF y = x THEN Len(mem[y]) + 1 ELSE Len(mem[y])
    BY DEF Kept
  <2>2. Place(w, y) <= Len(mem[y])
    BY DEF ViewInTime
  <2> QED BY <1>1, <1>2, <1>3, <2>1, <2>2, SMT
<1>5. ASSUME NEW v \in Payloads
      PROVE  Place(Moved(w, x, p), Payload(v)) <= 2
  <2>1. Payload(v) # x
    BY Apart
  <2>2. Place(w, Payload(v)) <= 2
    BY DEF ViewInTime
  <2> QED BY <1>2, <2>1, <2>2, Zenon
<1> QED BY <1>4, <1>5

\* No view gets ahead of the memory when a write comes in.
LEMMA WriteInTime ==
    ASSUME MemoryType, ~Interleaved, ViewsInTime, MemoryType',
           NEW t \in Threads, NEW x \in Objects, NEW p \in 2 .. Len(mem[x]) + 1, NEW v, NEW o,
           NEW knows \in Views, NEW carried \in Views, ViewInTime(knows),
           x = back => ViewInTime(carried),
           NEW rmw, Written(t, x, p, v, o, knows, carried, rmw)
    PROVE  ViewsInTime'
<1> DEFINE Fits(w) == /\ \A y \in Objects : Place(w, y) <= Len(mem'[y])
                      /\ \A e \in Payloads : Place(w, Payload(e)) <= 2
<1>0. /\ Kept(x, p) /\ view'[t] = Put(Moved(knows, x, p), x, p)
      /\ mem'[x][p].view = Join(Moved(carried, x, p), IF Releases(o) THEN view'[t] ELSE At(x, p))
      /\ \A u \in Threads \ {t} : view'[u] = Moved(view[u], x, p)
  BY DEF Written
<1> USE <1>0
<1>1. /\ p \in Nat \ {0} /\ p \in Nat /\ p >= 2 /\ x \in Locations
      /\ \A y \in Objects : Len(mem[y]) \in Nat /\ Len(mem[y]) >= 1
  BY Apart, SMT DEF MemoryType
<1>2. \A w \in Views : Moved(w, x, p) \in Views /\ (ViewInTime(w) => Fits(Moved(w, x, p)))
  BY <1>1, MovedInTime, MovedPlaces
<1>3. \A y \in Objects : Len(mem'[y]) \in Nat /\ Len(mem'[y]) >= 1
  BY SMT DEF MemoryType, Objects, Cells
<1>4. p <= Len(mem'[x])
  BY <1>1, SMT DEF Kept
<1>5. \A e \in Payloads : Payload(e) # x
  BY Apart
<1>6. ASSUME NEW w \in Views, Fits(w)
      PROVE  Fits(Put(w, x, p))
  <2>1. \A y : Place(Put(w, x, p), y) = IF y = x THEN p ELSE Place(w, y)
    BY <1>1, PutView
  <2> QED BY <2>1, <1>4, <1>5, <1>6, Zenon
<1>7. Fits(At(x, p))
  <2>1. \A y : Place(At(x, p), y) = IF y = x THEN p ELSE 1
    BY <1>1, OnePlaceView
  <2>2. 1 <= 2
    BY SMT
  <2>3. \A y \in Objects : 1 <= Len(mem'[y])
    BY <1>3, SMT
  <2>4. \A y \in Objects : Place(At(x, p), y) <= Len(mem'[y])
    BY <2>1, <2>3, <1>4, Zenon
  <2>5. \A e \in Payloads : Place(At(x, p), Payload(e)) <= 2
    BY <2>1, <2>2, <1>5, Zenon
  <2> QED BY <2>4, <2>5, Zenon
<1>8. ASSUME NEW w \in Views, NEW z \in Views, Fits(w), Fits(z)
      PROVE  Fits(Join(w, z))
  <2>1. \A y : Place(Join(w, z), y) =
                  IF Place(w, y) >= Place(z, y) THEN Place(w, y) ELSE Place(z, y)
    BY ONLY w \in Views, z \in Views, JoinView
  <2>2. \A y : Place(Join(w, z), y) = Place(w, y) \/ Place(Join(w, z), y) = Place(z, y)
    BY ONLY <2>1, Zenon
  <2> QED BY <2>2, <1>8, Zenon
<1>9. view'[t] \in Views /\ Fits(view'[t])
  <2>1. Moved(knows, x, p) \in Views /\ Fits(Moved(knows, x, p))
    BY <1>2
  <2> HIDE DEF Fits
  <2> QED BY <2>1, <1>1, <1>6, PutView
<1>10. \A u \in Threads : Fits(view'[u])
  <2>1. \A u \in Threads : view[u] \in Views /\ ViewInTime(view[u])
    BY Zenon DEF ViewsInTime, Known, MemoryType
  <2> HIDE DEF Fits
  <2> QED BY <2>1, <1>2, <1>9, Zenon
<1>11. x = back => Fits(mem'[x][p].view)
  <2>1. /\ Moved(carried, x, p) \in Views /\ At(x, p) \in Views
        /\ x = back => Fits(Moved(carried, x, p))
    BY <1>1, <1>2, OnePlaceView
  <2> HIDE DEF Fits
  <2> QED BY <2>1, <1>7, <1>8, <1>9
<1>12. ASSUME NEW j \in DOMAIN mem'[back]
       PROVE  Fits(mem'[back][j].view)
  <2>1. back \in Objects
    BY Apart
  <2>2. CASE back = x /\ j = p
    BY <2>2, <1>11
  <2>3. CASE \E i \in DOMAIN mem[back] : j = NewPlace(back, i, x, p)
    <3>1. PICK i \in DOMAIN mem[back] : j = NewPlace(back, i, x, p)
      BY <2>3
    <3>2. mem[back][i] \in Writes
      BY <2>1, SMT DEF MemoryType
    <3>3. mem'[back][j] = [mem[back][i] EXCEPT !.view = Moved(@, x, p)]
      BY <2>1, <3>1 DEF Kept
    <3>4. mem'[back][j].view = Moved(mem[back][i].view, x, p) /\ mem[back][i].view \in Views
      BY <3>2, <3>3, Zenon DEF Writes
    <3>5. ViewInTime(mem[back][i].view)
      BY <3>4 DEF ViewsInTime, Known
    <3> HIDE DEF Fits
    <3> QED BY <3>4, <3>5, <1>2
  <2> QED BY <2>1, <2>2, <2>3, NewOrOld
<1>13. \A w \in Views : Known(w)' => Fits(w)
  <2> HIDE DEF Fits
  <2> QED BY <1>10, <1>12, Zenon DEF Known
<1> QED BY <1>13 DEF ViewsInTime, ViewInTime, Known, Views, Locations, Objects, Cells

\* A write that comes last leaves the others where they are.
LEMMA AppendEffect ==
    ASSUME MemoryType, NEW x \in Objects, Kept(x, Len(mem[x]) + 1)
    PROVE  /\ \A w : Moved(w, x, Len(mem[x]) + 1) = w
           /\ \A y \in Objects :
                /\ Len(mem'[y]) = IF y = x THEN Len(mem[y]) + 1 ELSE Len(mem[y])
                /\ \A i \in DOMAIN mem[y] : mem'[y][i] = mem[y][i]
<1> DEFINE p == Len(mem[x]) + 1
<1>1. /\ Len(mem[x]) \in Nat /\ ~(p <= Len(mem[x]))
      /\ \A y \in Objects : DOMAIN mem[y] = 1 .. Len(mem[y])
  BY SMT DEF MemoryType
<1>2. \A w : Moved(w, x, p) = w
  BY <1>1, Zenon DEF Moved
<1>3. ASSUME NEW y \in Objects, NEW i \in DOMAIN mem[y]
      PROVE  mem'[y][i] = mem[y][i]
  <2>1. NewPlace(y, i, x, p) = i
    BY <1>1, SMT DEF NewPlace
  <2>2. mem[y][i] \in Writes
    BY SMT DEF MemoryType
  <2>3. mem'[y][i] = [mem[y][i] EXCEPT !.view = Moved(@, x, p)]
    BY <2>1 DEF Kept
  <2>4. mem'[y][i] = [mem[y][i] EXCEPT !.view = @]
    BY <1>2, <2>3, Zenon
  <2> QED BY <2>2, <2>4, Zenon DEF Writes
<1> QED BY <1>2, <1>3 DEF Kept

\* In the build "SEQ" no view is ahead of the memory.
LEMMA OneWriteInTime ==
    ASSUME MemoryType, Interleaved, OneWrite
    PROVE  ViewsInTime
<1>1. ViewInTime(Nothing)
  <2>1. 1 <= 2 /\ \A y \in Objects : 1 <= Len(mem[y])
    BY SMT DEF OneWrite
  <2> QED BY <2>1, NothingView, Zenon DEF ViewInTime
<1>2. \A t \in Threads : view[t] = Nothing
  BY DEF OneWrite
<1>3. \A i \in DOMAIN mem[back] : mem[back][i].view = Nothing
  <2>1. back \in Objects
    BY Apart
  <2>2. DOMAIN mem[back] = {1}
    BY <2>1, SMT DEF OneWrite, MemoryType
  <2> QED BY <2>1, <2>2, Zenon DEF OneWrite
<1> QED BY <1>1, <1>2, <1>3, Zenon DEF ViewsInTime, Known

\* The write of v has taken the place of the one there was.
Replaced(x, v) ==
    /\ view' = view
    /\ \A y \in Objects \ {x} : mem'[y] = mem[y]
    /\ mem'[x][1].val = v

\* That is what a write does in the build "SEQ".
LEMMA StrongEffect ==
    ASSUME MemoryType, OneWrite, Interleaved,
           NEW e, NEW t, NEW x, NEW p, NEW v, NEW o, NEW knows, NEW carried, NEW rmw,
           WriteStep(e, t, x, p, v, o, knows, carried, rmw)
    PROVE  MemoryType' /\ OneWrite' /\ ViewsInTime' /\ Replaced(x, v)
<1>0. /\ Does(e) /\ e.to = AddWrite(t, x, p, v, o, knows, carried, rmw)
      /\ x \in Objects /\ v \in Payloads \cup Nat
  BY DEF WriteStep
<1> USE <1>0
<1> DEFINE newMem == [mem EXCEPT ![x] = FirstWrite(v)]
<1>1. mem' = newMem /\ view' = view
  <2>1. e.to = [mem |-> newMem, view |-> view, sc |-> scView]
    BY Zenon DEF AddWrite
  <2>2. mem' = e.to.mem /\ view' = e.to.view
    BY DEF Does
  <2> HIDE DEF newMem
  <2>3. e.to.mem = newMem /\ e.to.view = view
    BY <2>1, EffectParts
  <2> QED BY <2>2, <2>3, Zenon
<1>2. Interleaved'
  BY DEF Interleaved, Does
<1>3. FirstWrite(v) \in Seq(Writes) /\ Len(FirstWrite(v)) = 1 /\ FirstWrite(v)[1].val = v
      /\ FirstWrite(v)[1].view = Nothing
  <2>1. [val |-> v, view |-> Nothing, rmw |-> FALSE] \in Writes
    BY NothingView, Zenon DEF Writes
  <2> QED BY <2>1, SMT DEF FirstWrite
<1>4. mem \in [Objects -> Seq(Writes)]
  BY DEF MemoryType
<1>5. /\ mem' \in [Objects -> Seq(Writes)] /\ mem'[x] = FirstWrite(v)
      /\ \A y \in Objects \ {x} : mem'[y] = mem[y]
  BY <1>1, <1>3, <1>4, Zenon
<1>6. OneWrite'
  <2>1. \A y \in Objects : Len(mem'[y]) = 1 /\ mem'[y][1].view = Nothing
    BY <1>3, <1>5, Zenon DEF OneWrite
  <2>2. \A u \in Threads : view'[u] = Nothing
    BY <1>1, Zenon DEF OneWrite
  <2> QED BY <2>1, <2>2 DEF OneWrite, Objects, Cells, Nothing
<1>7. MemoryType'
  <2>1. \A y \in Objects : Len(mem'[y]) >= 1
    BY <1>3, <1>5, SMT DEF OneWrite
  <2>2. view' \in [Threads -> Views]
    BY <1>1 DEF MemoryType
  <2> QED BY <2>1, <2>2, <1>5 DEF MemoryType, Objects, Cells, Views, Writes, Locations
<1>8. ViewsInTime'
  BY <1>6, <1>7, <1>2, OneWriteInTime, PTL
<1> QED BY <1>1, <1>3, <1>5, <1>6, <1>7, <1>8 DEF Replaced

-----------------------------------------------------------------------------
\* Reads, in a build with weak orders, and the first step of a call.

\* What a thread knows after it has read the i-th write to x.
LEMMA ReadView ==
    ASSUME MemoryType, ~Interleaved, ViewsInTime,
           NEW t \in Threads, NEW x \in Objects, NEW o, NEW i \in Readable(t, x, o),
           Acquires(o) => x = back,
           NEW w, w = ViewAfterRead(t, x, i, o)
    PROVE  /\ i \in 1 .. Len(mem[x]) /\ i >= Place(view[t], x)
           /\ w \in Views /\ ViewInTime(w)
           /\ Place(w, x) >= i
           /\ \A y : Place(view[t], y) <= Place(w, y)
           /\ ~Acquires(o) => \A y : Place(w, y) = IF y = x THEN i ELSE Place(view[t], y)
           /\ Acquires(o) => \A y : /\ Place(mem[x][i].view, y) <= Place(w, y)
                                    /\ \/ y = x \/ Place(w, y) = Place(view[t], y)
                                       \/ Place(w, y) = Place(mem[x][i].view, y)
<1> DEFINE seen == Join(view[t], At(x, i))
<1>1. /\ i \in 1 .. Len(mem[x]) /\ i >= Place(view[t], x) /\ i \in Nat \ {0}
      /\ Len(mem[x]) \in Nat /\ mem[x][i] \in Writes
  BY SMT DEF MemoryType, Readable
<1>2. view[t] \in Views /\ ViewInTime(view[t])
  BY Zenon DEF ViewsInTime, Known, MemoryType
<1>3. /\ At(x, i) \in Views
      /\ \A y : Place(At(x, i), y) = IF y = x THEN i ELSE 1
  BY <1>1, Apart, OnePlaceView
<1>4. /\ seen \in Views
      /\ \A y : Place(seen, y) = IF y = x THEN i ELSE Place(view[t], y)
  <2>1. /\ seen \in Views
        /\ \A y : Place(seen, y) = IF Place(view[t], y) >= Place(At(x, i), y)
                                   THEN Place(view[t], y) ELSE Place(At(x, i), y)
    BY <1>2, <1>3, JoinView
  <2>2. \A y : Place(view[t], y) \in Nat \ {0}
    BY <1>2, ViewPlace
  <2> HIDE DEF seen
  <2>3. ASSUME NEW y
        PROVE  Place(seen, y) = IF y = x THEN i ELSE Place(view[t], y)
    <3>1. CASE y = x
      BY <3>1, <2>1, <2>2, <1>1, <1>3, SMT
    <3>2. CASE y # x
      BY <3>2, <2>1, <2>2, <1>1, <1>3, SMT
    <3> QED BY <3>1, <3>2
  <2> QED BY <2>1, <2>3
<1> HIDE DEF seen
<1>5. ViewInTime(seen)
  <2>1. \A v \in Payloads : Payload(v) # x
    BY Apart
  <2> QED BY <1>1, <1>2, <1>4, <2>1, SMT DEF ViewInTime
<1>6. \A y : Place(view[t], y) \in Nat /\ Place(seen, y) \in Nat
             /\ Place(view[t], y) <= Place(seen, y)
  <2>1. \A y : Place(view[t], y) \in Nat
    BY <1>2, ViewPlace
  <2> QED BY <2>1, <1>1, <1>4, SMT
<1>7. CASE ~Acquires(o)
  <2>1. w = seen
    BY <1>7, Zenon DEF ViewAfterRead, seen
  <2> QED BY <2>1, <1>1, <1>4, <1>5, <1>6, <1>7, SMT
<1>8. CASE Acquires(o)
  <2> DEFINE m == mem[x][i].view
  <2>1. w = Join(seen, m)
    BY <1>8, Zenon DEF ViewAfterRead, seen
  <2>2. m \in Views
    BY <1>1, Zenon DEF Writes
  <2>3. ViewInTime(m)
    <3>1. Known(m)
      BY <1>1, <1>8, SMT DEF Known
    <3> QED BY <3>1, <2>2, Zenon DEF ViewsInTime
  <2> HIDE DEF m
  <2>4. /\ w \in Views
        /\ \A y : Place(w, y) = IF Place(seen, y) >= Place(m, y) THEN Place(seen, y)
                                ELSE Place(m, y)
    BY <2>1, <2>2, <1>4, JoinView
  <2>5. \A y : Place(m, y) \in Nat
    BY <2>2, ViewPlace
  <2>6. ViewInTime(w)
    <3>1. \A y : Place(w, y) = Place(seen, y) \/ Place(w, y) = Place(m, y)
      BY <2>4, Zenon
    <3> QED BY <3>1, <2>3, <1>5, Zenon DEF ViewInTime
  <2>7. \A y : Place(seen, y) <= Place(w, y) /\ Place(m, y) <= Place(w, y)
    BY <2>4, <2>5, <1>6, SMT
  <2>8. \A y : Place(view[t], y) <= Place(w, y) /\ Place(w, x) >= i
    <3>1. \A y : Place(w, y) \in Nat
      BY <2>4, <2>5, <1>6, SMT
    <3>2. Place(seen, x) = i
      BY <1>4
    <3> QED BY <3>1, <3>2, <2>7, <1>6, <1>1, SMT
  <2>9. \A y : y = x \/ Place(w, y) = Place(view[t], y) \/ Place(w, y) = Place(m, y)
    BY <2>4, <1>4, Zenon
  <2> QED BY <2>4, <2>6, <2>7, <2>8, <2>9, <1>1, <1>8 DEF m
<1> QED BY <1>7, <1>8

\* What a thread knows that starts a call: its payload, and what others knew.
LEMMA StartView ==
    ASSUME MemoryType, ViewsInTime, NEW t \in Threads, NEW ts, ts \subseteq Threads,
           NEW own, own \in Views, ViewInTime(own), Starts(t, ts, own)
    PROVE  /\ view' \in [Threads -> Views] /\ \A u \in Threads \ {t} : view'[u] = view[u]
           /\ ViewInTime(view'[t])
           /\ \A w \in {own, view[t]} : \A y : Place(w, y) <= Place(view'[t], y)
           /\ \A y : \E w \in {own} \cup {view[u] : u \in Threads} :
                        /\ Place(view'[t], y) = Place(w, y)
                        /\ \A z : Place(w, z) <= Place(view'[t], z)
<1> DEFINE vs == {own, view[t]} \cup {view[u] : u \in ts}
<1>1. vs \subseteq Views /\ vs # {} /\ own \in vs /\ view[t] \in vs
  BY Zenon DEF MemoryType
<1>2. \A w \in vs : ViewInTime(w)
  BY Zenon DEF ViewsInTime, Known, MemoryType
<1>3. vs \subseteq {own} \cup {view[u] : u \in Threads}
  OBVIOUS
<1>4. view' = [view EXCEPT ![t] = JoinAll(vs)] /\ view \in [Threads -> Views]
  <2>1. view' = [view EXCEPT ![t] = JoinAll({own, @} \cup {view[u] : u \in ts})]
    BY DEF Starts
  <2> QED BY <2>1, Zenon DEF MemoryType
<1> HIDE DEF vs
<1>5. ASSUME NEW x
      PROVE  \E b \in Nat : \A w \in vs : Place(w, x) <= b
  <2>1. CASE x \in Objects
    <3>1. Len(mem[x]) \in Nat
      BY <2>1, SMT DEF MemoryType
    <3> QED BY <2>1, <3>1, <1>2, Zenon DEF ViewInTime
  <2>2. CASE \E v \in Payloads : x = Payload(v)
    <3>1. 2 \in Nat
      BY SMT
    <3> QED BY <2>2, <3>1, <1>2, Zenon DEF ViewInTime
  <2>3. CASE x \notin Objects /\ ~\E v \in Payloads : x = Payload(v)
    <3>1. x \notin Locations
      BY <2>3, Zenon DEF Locations
    <3>2. \A w \in vs : Place(w, x) = 1
      <4> SUFFICES ASSUME NEW w \in vs PROVE Place(w, x) = 1
        BY Zenon
      <4>1. PICK D \in SUBSET Locations : w \in [D -> Nat \ {0}]
        BY <1>1, Zenon DEF Views
      <4>2. x \notin DOMAIN w
        BY <4>1, <3>1, Zenon
      <4> QED BY <4>2, Zenon DEF Place
    <3>3. 1 \in Nat /\ 1 <= 1
      BY SMT
    <3> QED BY <3>2, <3>3, Zenon
  <2> QED BY <2>1, <2>2, <2>3
<1>6. /\ JoinAll(vs) \in Views
      /\ \A x : /\ \E w \in vs : Place(JoinAll(vs), x) = Place(w, x)
                /\ \A w \in vs : Place(w, x) <= Place(JoinAll(vs), x)
  BY <1>1, <1>5, JoinAllView
<1>7. view' \in [Threads -> Views] /\ view'[t] = JoinAll(vs)
      /\ \A u \in Threads \ {t} : view'[u] = view[u]
  BY <1>4, <1>6, Zenon
<1>8. ViewInTime(view'[t])
  BY <1>2, <1>6, <1>7, Zenon DEF ViewInTime
<1> QED BY <1>1, <1>3, <1>6, <1>7, <1>8, Zenon

\* In the build "SEQ" there is nothing to know.
LEMMA StrongStart ==
    ASSUME MemoryType, Interleaved, OneWrite, NEW t \in Threads, Starts(t, {}, Nothing)
    PROVE  view' = view
<1>1. view' = [view EXCEPT ![t] = JoinAll({Nothing, @} \cup {view[u] : u \in {}})]
      /\ view[t] = Nothing /\ view \in [Threads -> Views]
  BY Zenon DEF Starts, OneWrite, MemoryType
<1>2. {Nothing, view[t]} \cup {view[u] : u \in {}} = {Nothing}
  BY <1>1, Zenon
<1>3. JoinAll({Nothing}) = Nothing
  <2>1. UNION {DOMAIN v : v \in {Nothing}} = {}
    <3>1. DOMAIN Nothing = {}
      BY SMT DEF Nothing
    <3> QED BY <3>1, Zenon
  <2>2. JoinAll({Nothing}) = [x \in {} |-> Max({Place(v, x) : v \in {Nothing}})]
    BY <2>1, Zenon DEF JoinAll
  <2> DEFINE f == [x \in {} |-> Max({Place(v, x) : v \in {Nothing}})]
  <2>3. f \in [{} -> Nat]
    OBVIOUS
  <2> HIDE DEF f
  <2>4. f = Nothing
    BY <2>3, SMT DEF Nothing
  <2> QED BY <2>2, <2>4 DEF f
<1> QED BY <1>1, <1>2, <1>3, Zenon

-----------------------------------------------------------------------------
\* What each action does to the memory, in either build.

\* The writes to y keep their values.
SameWrites(y) ==
    /\ Len(mem'[y]) = Len(mem[y])
    /\ \A i \in DOMAIN mem[y] :
          mem'[y][i].val = mem[y][i].val /\ mem'[y][i].rmw = mem[y][i].rmw

\* The parts of an access.
LEMMA AccessParts ==
    ASSUME NEW r, NEW a, NEW b, r = [val |-> a, to |-> b]
    PROVE  r.val = a /\ r.to = b
BY SMT

\* The start of a call.
LEMMA CallMemory ==
    ASSUME MemoryType, ViewsInTime, OneWrite, NEW t \in Threads, NEW own,
           own = Nothing \/ \E v \in Payloads : own = Filled(Payload(v)),
           NEW ts \in FlagsRead(t), Starts(t, ts, own)
    PROVE  /\ MemoryType' /\ ViewsInTime' /\ OneWrite' /\ mem' = mem /\ build' = build
           /\ \A u \in Threads \ {t} : view'[u] = view[u]
           /\ ~Interleaved =>
                /\ ViewInTime(view'[t])
                /\ \A w \in {own, view[t]} : \A y : Place(w, y) <= Place(view'[t], y)
                /\ \A y : \E w \in {own} \cup {view[u] : u \in Threads} :
                        /\ Place(view'[t], y) = Place(w, y)
                        /\ \A z : Place(w, z) <= Place(view'[t], z)
<1>1. mem' = mem /\ build' = build
  BY DEF Starts
<1>2. \A y \in Objects : Len(mem[y]) \in Nat /\ Len(mem[y]) >= 1
  BY SMT DEF MemoryType
<1>3. own \in Views /\ ViewInTime(own)
  <2>1. CASE own = Nothing
    <3>1. 1 <= 2 /\ \A y \in Objects : 1 <= Len(mem[y])
      BY <1>2, SMT
    <3> QED BY <2>1, <3>1, NothingView, Zenon DEF ViewInTime
  <2>2. CASE own # Nothing
    <3>1. PICK v \in Payloads : own = At(Payload(v), 2)
      BY <2>2, Zenon DEF Filled
    <3>2. Payload(v) \in Locations /\ Payload(v) \notin Objects /\ 2 \in Nat \ {0}
      BY Apart, SMT
    <3>3. own \in Views /\ \A y : Place(own, y) = IF y = Payload(v) THEN 2 ELSE 1
      BY <3>1, <3>2, OnePlaceView
    <3>4. 1 <= 2 /\ 2 <= 2 /\ \A y \in Objects : 1 <= Len(mem[y])
      BY <1>2, SMT
    <3> QED BY <3>2, <3>3, <3>4, Zenon DEF ViewInTime
  <2> QED BY <2>1, <2>2
<1>4. CASE Interleaved
  <2>1. ts = {} /\ own = Nothing
    BY <1>4, Zenon DEF FlagsRead, Filled
  <2>2. view' = view
    BY <2>1, <1>4, StrongStart
  <2>3. MemoryType' /\ ViewsInTime' /\ OneWrite'
    BY <1>1, <2>2 DEF MemoryType, ViewsInTime, OneWrite, Known, Objects, Cells, Locations,
                      Views, Writes, Nothing, ViewInTime, Interleaved
  <2> QED BY <1>1, <1>4, <2>2, <2>3
<1>5. CASE ~Interleaved
  <2>1. ts \subseteq Threads
    BY WaitsAssumption, SMT DEF FlagsRead
  <2>2. /\ view' \in [Threads -> Views] /\ \A u \in Threads \ {t} : view'[u] = view[u]
        /\ ViewInTime(view'[t])
        /\ \A w \in {own, view[t]} : \A y : Place(w, y) <= Place(view'[t], y)
        /\ \A y : \E w \in {own} \cup {view[u] : u \in Threads} :
                        /\ Place(view'[t], y) = Place(w, y)
                        /\ \A z : Place(w, z) <= Place(view'[t], z)
    BY <2>1, <1>3, StartView
  <2>3. MemoryType'
    BY <1>1, <2>2 DEF MemoryType, Objects, Cells, Locations, Views, Writes
  <2>4. OneWrite'
    BY <1>1, <1>5 DEF OneWrite, Interleaved
  <2>5. ViewsInTime'
    <3>1. \A w \in Views : Known(w)' => ViewInTime(w)
      BY <1>1, <2>2, Zenon DEF Known, ViewsInTime
    <3> QED BY <3>1, <1>1 DEF ViewsInTime, Views, Locations, Objects, Cells, ViewInTime, Known
  <2> QED BY <1>1, <2>2, <2>3, <2>4, <2>5
<1> QED BY <1>4, <1>5

\* The newest write to a location is the last.
LEMMA LastWrite ==
    ASSUME MemoryType, NEW x \in Objects
    PROVE  /\ Len(mem[x]) \in Nat /\ Len(mem[x]) >= 1 /\ DOMAIN mem[x] = 1 .. Len(mem[x])
           /\ Len(mem[x]) \in DOMAIN mem[x]
           /\ Newest(x) = mem[x][Len(mem[x])].val
           /\ \A i \in DOMAIN mem[x] : mem[x][i] \in Writes
<1>1. mem[x] \in Seq(Writes) /\ Len(mem[x]) >= 1
  BY DEF MemoryType
<1>2. Newest(x) = mem[x][Len(mem[x])].val
  BY Zenon DEF Newest, Last
<1> QED BY <1>1, <1>2, SMT

\* back counts up to its newest value.
LEMMA NewestBack ==
    ASSUME MemoryType, OneWrite, BackCounts
    PROVE  /\ Newest(back) \in Nat
           /\ ~Interleaved => Newest(back) = Len(mem[back]) - 1
           /\ \A i \in DOMAIN mem[back] : mem[back][i].val \in 0 .. Newest(back)
<1>1. back \in Objects
  BY Apart
<1>2. /\ Len(mem[back]) \in Nat /\ Len(mem[back]) >= 1 /\ DOMAIN mem[back] = 1 .. Len(mem[back])
      /\ Len(mem[back]) \in DOMAIN mem[back]
      /\ Newest(back) = mem[back][Len(mem[back])].val
  BY <1>1, LastWrite
<1>3. Newest(back) \in Nat /\ (~Interleaved => Newest(back) = Len(mem[back]) - 1)
  BY <1>2, Zenon DEF BackCounts
<1>4. ASSUME NEW i \in DOMAIN mem[back]
      PROVE  mem[back][i].val \in 0 .. Newest(back)
  <2>1. CASE Interleaved
    <3>1. Len(mem[back]) = 1
      BY <2>1, <1>1 DEF OneWrite
    <3>2. i = Len(mem[back])
      BY <3>1, <1>2, SMT
    <3> QED BY <3>2, <1>2, <1>3, SMT
  <2>2. CASE ~Interleaved
    <3>1. mem[back][i].val = i - 1
      BY <2>2 DEF BackCounts
    <3> QED BY <3>1, <2>2, <1>2, <1>3, SMT
  <2> QED BY <2>1, <2>2
<1> QED BY <1>3, <1>4

\* The load of back: any index the thread may read.
LEMMA LoadMemory ==
    ASSUME ArrayIInv, NEW t \in Threads, DeqLoadBack(t)
    PROVE  /\ MemoryType' /\ ViewsInTime' /\ OneWrite' /\ mem' = mem /\ build' = build
           /\ \A u \in Threads \ {t} : view'[u] = view[u] /\ lback'[u] = lback[u]
           /\ lback'[t] \in 0 .. Newest(back)
           /\ IF 0 < lback'[t] THEN Goto(t, "d_xchg") ELSE Return(t, Empty)
           /\ Interleaved => view' = view /\ lback'[t] = Newest(back)
           /\ ~Interleaved => \E i \in 1 .. Len(mem[back]) :
                /\ lback'[t] = i - 1
                /\ i >= Place(view[t], back) /\ Place(view'[t], back) >= i
                /\ ViewInTime(view'[t])
                /\ \A y : /\ Place(view[t], y) <= Place(view'[t], y)
                          /\ Place(mem[back][i].view, y) <= Place(view'[t], y)
                          /\ \/ y = back \/ Place(view'[t], y) = Place(view[t], y)
                             \/ Place(view'[t], y) = Place(mem[back][i].view, y)
<1> USE DEF ArrayIInv
<1>0. back \in Objects
  BY Apart
<1>1. PICK e \in Load(t, back, "acquire") :
            /\ Does(e)
            /\ lback' = [lback EXCEPT ![t] = e.val]
            /\ IF MoreCells(0, e.val) THEN Goto(t, "d_xchg") ELSE Return(t, Empty)
  BY DEF DeqLoadBack, LoadBackOrder, SweepFrom
<1>2. PICK i \in Readable(t, back, "acquire") :
        e = [val |-> mem[back][i].val,
             to |-> [mem |-> mem,
                     view |-> [view EXCEPT ![t] = ViewAfterRead(t, back, i, "acquire")],
                     sc |-> scView]]
  BY <1>1, Zenon DEF Load
<1> DEFINE w == ViewAfterRead(t, back, i, "acquire")
           newView == [view EXCEPT ![t] = w]
<1>3. e.val = mem[back][i].val /\ mem' = mem /\ view' = newView /\ build' = build
  <2> HIDE DEF newView
  <2>1. e.val = mem[back][i].val /\ e.to = [mem |-> mem, view |-> newView, sc |-> scView]
    BY <1>2, AccessParts DEF newView
  <2>2. e.to.mem = mem /\ e.to.view = newView
    BY <2>1, EffectParts
  <2> QED BY <1>1, <2>1, <2>2, Zenon DEF Does
<1>4. i \in DOMAIN mem[back] /\ Acquires("acquire")
  BY Zenon DEF Readable, Acquires
<1>5. mem[back][i].val \in 0 .. Newest(back)
  BY <1>4, NewestBack
<1>6. /\ lback'[t] = mem[back][i].val
      /\ \A u \in Threads \ {t} : lback'[u] = lback[u]
  <2>1. lback \in [Threads -> Nat]
    BY DEF Indices
  <2> QED BY <2>1, <1>1, <1>3, Zenon
<1>7. IF 0 < lback'[t] THEN Goto(t, "d_xchg") ELSE Return(t, Empty)
  BY <1>1, <1>3, <1>6, Zenon DEF MoreCells
<1>8. view \in [Threads -> Views]
  BY DEF MemoryType
<1> HIDE DEF w
<1>9. view'[t] = w /\ \A u \in Threads \ {t} : view'[u] = view[u]
  BY <1>3, <1>8, Zenon
<1>10. CASE Interleaved
  <2>1. w = view[t]
    BY <1>10, Zenon DEF ViewAfterRead, w
  <2>2. view' = view
    BY <2>1, <1>3, <1>8, Zenon
  <2>3. MemoryType' /\ ViewsInTime' /\ OneWrite'
    BY <1>3, <2>2 DEF MemoryType, ViewsInTime, OneWrite, Known, Objects, Cells, Locations,
                      Views, Writes, Nothing, ViewInTime, Interleaved
  <2>4. lback'[t] = Newest(back)
    <3>1. Len(mem[back]) = 1
      BY <1>0, <1>10 DEF OneWrite
    <3> QED BY <3>1, <1>0, <1>4, <1>6, LastWrite, SMT
  <2> QED BY <1>3, <1>5, <1>6, <1>7, <1>9, <1>10, <2>2, <2>3, <2>4
<1>11. CASE ~Interleaved
  <2>1. /\ i \in 1 .. Len(mem[back]) /\ i >= Place(view[t], back)
        /\ w \in Views /\ ViewInTime(w)
        /\ Place(w, back) >= i
        /\ \A y : Place(view[t], y) <= Place(w, y)
        /\ \A y : /\ Place(mem[back][i].view, y) <= Place(w, y)
                  /\ \/ y = back \/ Place(w, y) = Place(view[t], y)
                     \/ Place(w, y) = Place(mem[back][i].view, y)
    BY <1>0, <1>4, <1>11, ReadView DEF w
  <2>2. view' \in [Threads -> Views]
    BY <2>1, <1>3, <1>8, Zenon
  <2>3. MemoryType'
    BY <1>3, <2>2 DEF MemoryType, Objects, Cells, Locations, Views, Writes
  <2>4. OneWrite'
    BY <1>3, <1>11 DEF OneWrite, Interleaved
  <2>5. ViewsInTime'
    <3>1. \A v \in Views : Known(v)' => ViewInTime(v)
      BY <1>3, <1>9, <2>1, Zenon DEF Known, ViewsInTime
    <3> QED BY <3>1, <1>3 DEF ViewsInTime, Views, Locations, Objects, Cells, ViewInTime, Known
  <2>6. lback'[t] = i - 1
    BY <1>4, <1>6, <1>11 DEF BackCounts
  <2>7. /\ Place(view'[t], back) >= i /\ ViewInTime(view'[t])
        /\ \A y : /\ Place(view[t], y) <= Place(view'[t], y)
                  /\ Place(mem[back][i].view, y) <= Place(view'[t], y)
                  /\ \/ y = back \/ Place(view'[t], y) = Place(view[t], y)
                     \/ Place(view'[t], y) = Place(mem[back][i].view, y)
    BY <1>9, <2>1, Zenon
  <2> QED BY <1>3, <1>5, <1>6, <1>7, <1>9, <1>11, <2>1, <2>3, <2>4, <2>5, <2>6, <2>7
<1> QED BY <1>10, <1>11

\* The fetch-and-add: it comes last, and takes the index back has.
LEMMA FetchAddMemory ==
    ASSUME ArrayIInv, NEW t \in Threads, EnqFetchAdd(t)
    PROVE  /\ MemoryType' /\ ViewsInTime' /\ OneWrite' /\ BackCounts' /\ build' = build
           /\ Newest(back) \in Nat /\ Newest(back)' = Newest(back) + 1
           /\ k' = [k EXCEPT ![t] = Newest(back)]
           /\ \A c \in Cells : mem'[AR(c)] = mem[AR(c)]
           /\ Interleaved => view' = view
           /\ ~Interleaved =>
                /\ \A i \in DOMAIN mem[back] : mem'[back][i] = mem[back][i]
                /\ Len(mem'[back]) = Len(mem[back]) + 1
                /\ mem'[back][Len(mem[back]) + 1].view =
                        Join(mem[back][Len(mem[back])].view, view'[t])
                /\ \A y : Place(view'[t], y) = IF y = back THEN Len(mem[back]) + 1
                                               ELSE Place(view[t], y)
                /\ \A u \in Threads \ {t} : view'[u] = view[u]
<1> USE DEF ArrayIInv
<1> DEFINE n == Len(mem[back])
           new == Newest(back) + 1
<1>0. /\ back \in Objects /\ \A c \in Cells : AR(c) \in Objects /\ AR(c) # back
      /\ n \in Nat /\ n >= 1 /\ DOMAIN mem[back] = 1 .. n /\ n \in DOMAIN mem[back]
      /\ Newest(back) = mem[back][n].val
      /\ \A i \in DOMAIN mem[back] : mem[back][i] \in Writes
  BY Apart, LastWrite, Zenon
<1>1. Newest(back) \in Nat /\ (~Interleaved => Newest(back) = n - 1)
  BY NewestBack
<1>2. PICK e \in Update(t, back, BackAfter, "release") :
            Does(e) /\ k' = [k EXCEPT ![t] = e.val]
  BY DEF EnqFetchAdd, FetchAddOrder
<1>3. PICK i \in {j \in Readable(t, back, "release") : FreePlace(back, j + 1)} :
        e = [val |-> mem[back][i].val,
             to |-> AddWrite(t, back, i + 1, BackAfter[mem[back][i].val], "release",
                             ViewAfterRead(t, back, i, "release"), mem[back][i].view, TRUE)]
  BY <1>2, Zenon DEF Update
<1>4. i \in 1 .. n /\ FreePlace(back, i + 1) /\ i \in Readable(t, back, "release")
  <2>1. i \in DOMAIN mem[back]
    BY Zenon DEF Readable
  <2> QED BY <2>1, <1>0
<1>5. i = n
  <2>1. CASE Interleaved
    <3>1. n = 1
      BY <2>1, <1>0 DEF OneWrite
    <3> QED BY <3>1, <1>4, SMT
  <2>2. CASE ~Interleaved
    <3> SUFFICES ASSUME i # n PROVE FALSE
      OBVIOUS
    <3>1. i + 1 \in 1 .. n /\ i + 1 >= 2 /\ ~(i + 1 > n)
      BY <1>0, <1>4, SMT
    <3>2. mem[back][i + 1].rmw
      BY <3>1, <2>2, <1>0 DEF BackCounts
    <3> QED BY <3>1, <3>2, <1>4, Zenon DEF FreePlace
  <2> QED BY <2>1, <2>2
<1> DEFINE knows == ViewAfterRead(t, back, n, "release")
           carried == mem[back][n].view
<1>6. /\ e.val = Newest(back)
      /\ e.to = AddWrite(t, back, n + 1, new, "release", knows, carried, TRUE)
  <2>1. BackAfter[mem[back][n].val] = new
    BY <1>0, <1>1, Zenon DEF BackAfter
  <2>2. e = [val |-> Newest(back),
             to |-> AddWrite(t, back, n + 1, new, "release", knows, carried, TRUE)]
    BY <1>0, <1>3, <1>5, <2>1, Zenon
  <2> QED BY <2>2, AccessParts
<1>7. k' = [k EXCEPT ![t] = Newest(back)] /\ build' = build
  BY <1>2, <1>6, Zenon DEF Does
<1>8. new \in Payloads \cup Nat /\ new \in Nat
  BY <1>1, SMT
<1>9. CASE Interleaved
  <2>1. /\ MemoryType' /\ OneWrite' /\ ViewsInTime' /\ view' = view
        /\ \A y \in Objects \ {back} : mem'[y] = mem[y]
        /\ mem'[back][1].val = new
    <3>1. WriteStep(e, t, back, n + 1, new, "release", knows, carried, TRUE)
      BY <1>0, <1>2, <1>6, <1>8, <1>9 DEF WriteStep
    <3> HIDE DEF new, knows, carried
    <3>2. MemoryType' /\ OneWrite' /\ ViewsInTime' /\ Replaced(back, new)
      BY <3>1, <1>9, StrongEffect, Zenon
    <3> QED BY <3>2 DEF Replaced
  <2>2. Interleaved'
    BY <1>7, <1>9 DEF Interleaved
  <2>3. Len(mem'[back]) = 1
    BY <2>1, <2>2, <1>0 DEF OneWrite, Objects, Cells
  <2>4. Newest(back)' = new
    BY <2>1, <2>3, Zenon DEF Newest, Last, back
  <2>5. BackCounts'
    <3>1. mem'[back] \in Seq(Writes)
      BY <2>1, <1>0 DEF MemoryType, Objects, Cells, Writes, Views, Locations
    <3>2. \A j \in DOMAIN mem'[back] : mem'[back][j].val \in Nat
      <4>1. DOMAIN mem'[back] = {1}
        BY <3>1, <2>3, SMT
      <4> QED BY <4>1, <2>1, <1>8, Zenon
    <3> QED BY <3>2, <2>2 DEF BackCounts, back
  <2> QED BY <2>1, <2>4, <2>5, <1>0, <1>1, <1>7, <1>9, Zenon
<1>10. CASE ~Interleaved
  <2>1. /\ knows \in Views /\ ViewInTime(knows)
        /\ \A y : Place(knows, y) = IF y = back THEN n ELSE Place(view[t], y)
    <3>1. ~Acquires("release")
      BY Zenon DEF Acquires
    <3> QED BY <3>1, <1>0, <1>4, <1>5, <1>10, ReadView
  <2>2. carried \in Views /\ ViewInTime(carried)
    <3>1. carried \in Views
      BY <1>0, Zenon DEF Writes
    <3>2. Known(carried)
      BY <1>0, Zenon DEF Known
    <3> QED BY <3>1, <3>2, Zenon DEF ViewsInTime
  <2>3. n + 1 \in 2 .. n + 1 /\ TRUE \in BOOLEAN
    BY <1>0, SMT
  <2>4. /\ MemoryType' /\ Kept(back, n + 1)
        /\ Written(t, back, n + 1, new, "release", knows, carried, TRUE)
        /\ mem'[back][n + 1].val = new /\ mem'[back][n + 1].rmw = TRUE
        /\ mem'[back][n + 1].view =
             Join(Moved(carried, back, n + 1),
                  IF Releases("release") THEN view'[t] ELSE At(back, n + 1))
        /\ view'[t] = Put(Moved(knows, back, n + 1), back, n + 1)
        /\ \A u \in Threads \ {t} : view'[u] = Moved(view[u], back, n + 1)
    <3> HIDE DEF new, knows, carried
    <3>1. WriteStep(e, t, back, n + 1, new, "release", knows, carried, TRUE)
      BY <1>0, <1>2, <1>6, <1>8, <2>1, <2>2, <2>3, Zenon DEF WriteStep
    <3>2. MemoryType' /\ Written(t, back, n + 1, new, "release", knows, carried, TRUE)
      BY <3>1, <1>10, WriteEffect, Zenon
    <3> QED BY <3>2 DEF Written
  <2>5. ViewsInTime'
    <3> HIDE DEF knows, carried, new
    <3> QED BY <1>0, <1>10, <2>1, <2>2, <2>3, <2>4, WriteInTime
  <2>6. /\ \A w : Moved(w, back, n + 1) = w
        /\ \A y \in Objects :
              /\ Len(mem'[y]) = IF y = back THEN Len(mem[y]) + 1 ELSE Len(mem[y])
              /\ \A j \in DOMAIN mem[y] : mem'[y][j] = mem[y][j]
    BY <1>0, <2>4, AppendEffect
  <2>7. Releases("release")
    BY Zenon DEF Releases
  <2>8. OneWrite' /\ ~Interleaved'
    BY <1>7, <1>10 DEF OneWrite, Interleaved
  <2>9. \A y : Place(view'[t], y) = IF y = back THEN n + 1 ELSE Place(view[t], y)
    <3>1. view'[t] = Put(knows, back, n + 1)
      BY <2>4, <2>6, Zenon
    <3>2. n + 1 \in Nat \ {0} /\ back \in Locations
      BY <1>0, Apart, SMT
    <3>3. \A y : Place(view'[t], y) = IF y = back THEN n + 1 ELSE Place(knows, y)
      <4> HIDE DEF knows
      <4> QED BY <3>1, <3>2, <2>1, PutView
    <3> QED BY <3>3, <2>1, Zenon
  <2>10. /\ mem'[back][n + 1].view = Join(carried, view'[t])
         /\ \A u \in Threads \ {t} : view'[u] = view[u]
    BY <2>4, <2>6, <2>7, Zenon
  <2>11. Len(mem'[back]) = n + 1 /\ mem'[back] \in Seq(Writes)
    BY <2>4, <2>6, <1>0 DEF MemoryType, Objects, Cells, Writes, Views, Locations
  <2>12. Newest(back)' = new
    BY <2>4, <2>11, Zenon DEF Newest, Last, back
  <2>13. BackCounts'
    <3>1. ASSUME NEW j \in 1 .. n + 1
          PROVE  mem'[back][j].val = j - 1 /\ (j >= 2 => mem'[back][j].rmw)
      <4>1. CASE j = n + 1
        BY <4>1, <2>4, <1>1, <1>10, <1>0, SMT
      <4>2. CASE j # n + 1
        <5>1. j \in DOMAIN mem[back]
          BY <4>2, <1>0, SMT
        <5> QED BY <5>1, <2>6, <1>0, <1>10 DEF BackCounts
      <4> QED BY <4>1, <4>2
    <3>2. DOMAIN mem'[back] = 1 .. n + 1
      BY <2>11, SMT
    <3>3. \A j \in 1 .. n + 1 : j - 1 \in Nat
      BY <1>0, SMT
    <3>4. \A j \in DOMAIN mem'[back] : /\ mem'[back][j].val \in Nat
                                       /\ mem'[back][j].val = j - 1
                                       /\ j >= 2 => mem'[back][j].rmw
      BY <3>1, <3>2, <3>3, Zenon
    <3> QED BY <3>4, <2>8 DEF BackCounts, back
  <2>14. \A c \in Cells : mem'[AR(c)] = mem[AR(c)]
    <3> SUFFICES ASSUME NEW c \in Cells PROVE mem'[AR(c)] = mem[AR(c)]
      OBVIOUS
    <3> DEFINE y == AR(c)
    <3>1. mem[y] \in Seq(Writes) /\ mem'[y] \in Seq(Writes)
      BY <2>4, <1>0 DEF MemoryType, Objects, Cells, Writes, Views, Locations
    <3>2. Len(mem'[y]) = Len(mem[y]) /\ \A j \in DOMAIN mem[y] : mem'[y][j] = mem[y][j]
      BY <2>6, <1>0
    <3> HIDE DEF y
    <3>3. mem'[y] = mem[y]
      BY <3>1, <3>2, SMT
    <3> QED BY <3>3 DEF y
  <2> QED BY <2>4, <2>5, <2>6, <2>8, <2>9, <2>10, <2>11, <2>12, <2>13, <2>14,
             <1>0, <1>1, <1>7, <1>10, Zenon
<1> QED BY <1>9, <1>10

\* The value of a call of an enqueuer.
LEMMA CallValue ==
    ASSUME ArrayIInv, NEW t \in Threads, InCall(t)
    PROVE  Current(t).val \in Payloads
<1>1. Current(t) \in Calls
  BY CurrentIsCall DEF ArrayIInv, ArrayTypeOK
<1> QED BY <1>1, SMT DEF Calls

\* The item is the last of n + 1 writes to x, or in the build "SEQ" the only one.
ItemStored(t, x, n) ==
    /\ n \in Nat /\ n >= 1
    /\ \A y \in Objects \ {x} : mem'[y] = mem[y]
    /\ Interleaved => view' = view /\ mem'[x][1].val = Current(t).val
    /\ ~Interleaved =>
            /\ \A i \in DOMAIN mem[x] : mem'[x][i] = mem[x][i]
            /\ Len(mem'[x]) = n + 1 /\ mem'[x][n + 1].val = Current(t).val
            /\ \A y : Place(view'[t], y) = IF y = x THEN n + 1 ELSE Place(view[t], y)
            /\ \A u \in Threads \ {t} : view'[u] = view[u]

\* The store of an item: it comes last, in a cell that has had none.
LEMMA StoreMemory ==
    ASSUME ArrayIInv, NEW t \in Threads, EnqStore(t),
           NEW x, x = AR(k[t]), NEW n, n = Len(mem[x])
    PROVE  /\ MemoryType' /\ ViewsInTime' /\ OneWrite' /\ build' = build
           /\ k[t] \in Cells /\ ItemStored(t, x, n)
<1> USE DEF ArrayIInv
<1> DEFINE v == Current(t).val
<1>0. /\ k[t] \in Cells /\ x \in Objects /\ pc[t] = "e_store" /\ Untouched(k[t])
      /\ v \in Payloads
  <2>1. pc[t] = "e_store" /\ InCall(t)
    BY DEF EnqStore, InCall
  <2> QED BY <2>1, CallValue, Apart DEF ArrayTypeOK, CellsFill
<1>1. /\ n \in Nat /\ n >= 1 /\ DOMAIN mem[x] = 1 .. n /\ n \in DOMAIN mem[x]
      /\ \A i \in DOMAIN mem[x] : mem[x][i] \in Writes
  BY <1>0, LastWrite, Zenon
<1>2. PICK e \in Store(t, x, v, "relaxed") : Does(e)
  BY DEF EnqStore
<1>3. PICK i \in {j \in Readable(t, x, "relaxed") : FreePlace(x, j + 1)} :
        e = [to |-> AddWrite(t, x, i + 1, v, "relaxed", view[t], Nothing, FALSE)]
  BY <1>2, Zenon DEF Store
<1>4. i \in 1 .. n /\ FreePlace(x, i + 1)
  <2>1. i \in DOMAIN mem[x]
    BY Zenon DEF Readable
  <2> QED BY <2>1, <1>1
<1>5. i = n
  <2> SUFFICES ASSUME i # n PROVE FALSE
    OBVIOUS
  <2>1. i + 1 \in DOMAIN mem[x] /\ i + 1 >= 2 /\ ~(i + 1 > n)
    BY <1>1, <1>4, SMT
  <2>2. mem[x][i + 1].rmw
    BY <2>1, <1>0 DEF Untouched
  <2> QED BY <2>1, <2>2, <1>4, Zenon DEF FreePlace
<1> DEFINE knows == view[t]
<1>6. e.to = AddWrite(t, x, n + 1, v, "relaxed", knows, Nothing, FALSE)
  <2>1. \A z : [to |-> z].to = z
    BY SMT
  <2> QED BY <2>1, <1>3, <1>5, Zenon
<1>7. build' = build
  BY <1>2, Zenon DEF Does
<1> HIDE DEF v
<1>8. v \in Payloads \cup Nat /\ FALSE \in BOOLEAN /\ n + 1 \in 2 .. n + 1
  BY <1>0, <1>1, SMT
<1>9. CASE Interleaved
  <2>1. WriteStep(e, t, x, n + 1, v, "relaxed", knows, Nothing, FALSE)
    BY <1>0, <1>2, <1>6, <1>8, <1>9, Zenon DEF WriteStep
  <2>2. MemoryType' /\ OneWrite' /\ ViewsInTime' /\ Replaced(x, v)
    BY <2>1, <1>9, StrongEffect, Zenon
  <2> QED BY <2>2, <1>0, <1>1, <1>7, <1>9, Zenon DEF Replaced, ItemStored, v
<1>10. CASE ~Interleaved
  <2>1. knows \in Views /\ ViewInTime(knows)
    BY Zenon DEF ViewsInTime, Known, MemoryType
  <2>2. Nothing \in Views /\ ViewInTime(Nothing)
    <3>1. 1 <= 2 /\ \A y \in Objects : 1 <= Len(mem[y])
      BY SMT DEF MemoryType
    <3> QED BY <3>1, NothingView, Zenon DEF ViewInTime
  <2> HIDE DEF knows
  <2>3. WriteStep(e, t, x, n + 1, v, "relaxed", knows, Nothing, FALSE)
    BY <1>0, <1>2, <1>6, <1>8, <1>10, <2>1, <2>2, Zenon DEF WriteStep
  <2>4. MemoryType' /\ Written(t, x, n + 1, v, "relaxed", knows, Nothing, FALSE)
    BY <2>3, <1>10, WriteEffect, Zenon
  <2>5. ViewsInTime'
    BY <1>0, <1>8, <1>10, <2>1, <2>2, <2>4, WriteInTime
  <2>6. /\ \A w : Moved(w, x, n + 1) = w
        /\ \A y \in Objects :
              /\ Len(mem'[y]) = IF y = x THEN Len(mem[y]) + 1 ELSE Len(mem[y])
              /\ \A j \in DOMAIN mem[y] : mem'[y][j] = mem[y][j]
    <3>1. Kept(x, n + 1)
      BY <2>4 DEF Written
    <3> QED BY <1>0, <3>1, AppendEffect
  <2>7. OneWrite'
    BY <1>7, <1>10 DEF OneWrite, Interleaved
  <2>8. \A y : Place(view'[t], y) = IF y = x THEN n + 1 ELSE Place(view[t], y)
    <3>1. view'[t] = Put(knows, x, n + 1)
      BY <2>4, <2>6, Zenon DEF Written
    <3>2. n + 1 \in Nat \ {0} /\ x \in Locations
      BY <1>0, <1>1, Apart, SMT
    <3> QED BY <3>1, <3>2, <2>1, PutView DEF knows
  <2>9. \A u \in Threads \ {t} : view'[u] = view[u]
    BY <2>4, <2>6, Zenon DEF Written
  <2>10. \A y \in Objects \ {x} : mem'[y] = mem[y]
    <3> SUFFICES ASSUME NEW y \in Objects, y # x PROVE mem'[y] = mem[y]
      BY Zenon
    <3>1. mem[y] \in Seq(Writes) /\ mem'[y] \in Seq(Writes)
      BY <2>4 DEF MemoryType, Objects, Cells, Writes, Views, Locations
    <3>2. Len(mem'[y]) = Len(mem[y]) /\ \A j \in DOMAIN mem[y] : mem'[y][j] = mem[y][j]
      BY <2>6
    <3> QED BY <3>1, <3>2, SMT
  <2> QED BY <2>4, <2>5, <2>6, <2>7, <2>8, <2>9, <2>10, <1>0, <1>1, <1>7, <1>10, Zenon
          DEF Written, ItemStored, v
<1> QED BY <1>9, <1>10

\* got is read, and a null comes in after it, at place p of x.
PutsNull(t, x, p, got) ==
    /\ p > Place(view[t], x) /\ FreePlace(x, p)
    /\ got = mem[x][p - 1].val
    /\ Kept(x, p) /\ mem'[x][p].val = Null /\ mem'[x][p].rmw
    /\ \A y : Place(view'[t], y) = IF y = x THEN p ELSE Place(view[t], y)
    /\ \A u \in Threads \ {t} : view'[u] = Moved(view[u], x, p)

\* The exchange: null comes in next to the write that is read, wherever that is.
LEMMA ExchangeMemory ==
    ASSUME ArrayIInv, NEW t \in Threads, DeqExchange(t), NEW x, x = AR(k[t])
    PROVE  \E got \in Payloads :
           /\ MemoryType' /\ ViewsInTime' /\ OneWrite' /\ build' = build
           /\ k[t] \in Cells
           /\ IF got # Null THEN Return(t, got)
              ELSE IF k[t] + 1 < lback[t] THEN Goto(t, "d_xchg") ELSE Return(t, Empty)
           /\ Interleaved => /\ view' = view /\ got = mem[x][1].val /\ mem'[x][1].val = Null
                             /\ \A y \in Objects \ {x} : mem'[y] = mem[y]
           /\ ~Interleaved => \E p \in 2 .. Len(mem[x]) + 1 : PutsNull(t, x, p, got)
<1> USE DEF ArrayIInv
<1>0. k[t] \in Cells /\ x \in Objects /\ x \in Locations /\ pc[t] = "d_xchg" /\ x # back
  <2>1. pc[t] = "d_xchg"
    BY DEF DeqExchange
  <2> QED BY <2>1, Apart DEF ArrayTypeOK
<1>1. /\ Len(mem[x]) \in Nat /\ Len(mem[x]) >= 1 /\ DOMAIN mem[x] = 1 .. Len(mem[x])
      /\ \A i \in DOMAIN mem[x] : mem[x][i] \in Writes /\ mem[x][i].val \in Payloads
  BY <1>0, LastWrite, Zenon DEF CellsFill
<1>2. PICK e \in Update(t, x, CellAfter, "relaxed") :
          /\ Does(e)
          /\ IF e.val # Null THEN Return(t, e.val)
             ELSE IF MoreCells(k[t] + 1, lback[t]) THEN Goto(t, "d_xchg")
             ELSE Return(t, Empty)
  BY DEF DeqExchange
<1>3. PICK i \in {j \in Readable(t, x, "relaxed") : FreePlace(x, j + 1)} :
        e = [val |-> mem[x][i].val,
             to |-> AddWrite(t, x, i + 1, CellAfter[mem[x][i].val], "relaxed",
                             ViewAfterRead(t, x, i, "relaxed"), mem[x][i].view, TRUE)]
  BY <1>2, Zenon DEF Update
<1>4. /\ i \in 1 .. Len(mem[x]) /\ FreePlace(x, i + 1) /\ i \in Readable(t, x, "relaxed")
      /\ mem[x][i] \in Writes /\ mem[x][i].val \in Payloads
  <2>1. i \in DOMAIN mem[x]
    BY Zenon DEF Readable
  <2> QED BY <2>1, <1>1
<1> DEFINE knows == ViewAfterRead(t, x, i, "relaxed")
           carried == mem[x][i].view
           got == mem[x][i].val
           p == i + 1
<1>5. e.val = got /\ e.to = AddWrite(t, x, p, Null, "relaxed", knows, carried, TRUE)
  <2>1. CellAfter[mem[x][i].val] = Null
    BY <1>4, Zenon DEF CellAfter
  <2>2. e = [val |-> got, to |-> AddWrite(t, x, p, Null, "relaxed", knows, carried, TRUE)]
    BY <1>3, <2>1, Zenon
  <2> QED BY <2>2, AccessParts
<1>6. /\ build' = build
      /\ IF got # Null THEN Return(t, got)
         ELSE IF k[t] + 1 < lback[t] THEN Goto(t, "d_xchg") ELSE Return(t, Empty)
  BY <1>2, <1>5, Zenon DEF Does, MoreCells
<1>7. /\ Null \in Payloads \cup Nat /\ TRUE \in BOOLEAN /\ p \in 2 .. Len(mem[x]) + 1
      /\ p - 1 = i
  BY <1>1, <1>4, SMT DEF Payloads
<1>8. got \in Payloads
  BY <1>4
<1>9. CASE Interleaved
  <2> HIDE DEF knows, carried, got, p
  <2>1. WriteStep(e, t, x, p, Null, "relaxed", knows, carried, TRUE)
    BY <1>0, <1>2, <1>5, <1>7, <1>9, Zenon DEF WriteStep
  <2>2. MemoryType' /\ OneWrite' /\ ViewsInTime' /\ Replaced(x, Null)
    BY <2>1, <1>9, StrongEffect, Zenon
  <2>3. got = mem[x][1].val
    <3>1. Len(mem[x]) = 1
      BY <1>0, <1>9 DEF OneWrite
    <3>2. i = 1
      BY <3>1, <1>4, SMT
    <3> QED BY <3>2 DEF got
  <2> QED BY <2>2, <2>3, <1>0, <1>6, <1>8, <1>9, Zenon DEF Replaced
<1>10. CASE ~Interleaved
  <2>1. /\ i >= Place(view[t], x) /\ knows \in Views /\ ViewInTime(knows)
        /\ \A y : Place(knows, y) = IF y = x THEN i ELSE Place(view[t], y)
    <3>1. ~Acquires("relaxed")
      BY Zenon DEF Acquires
    <3> HIDE DEF knows
    <3> QED BY <3>1, <1>0, <1>4, <1>10, ReadView DEF knows
  <2>2. carried \in Views
    BY <1>4, Zenon DEF Writes
  <2>3. p > Place(view[t], x)
    <3>1. view[t] \in Views
      BY DEF MemoryType
    <3>2. Place(view[t], x) \in Nat
      BY <3>1, ViewPlace
    <3> QED BY <3>2, <2>1, <1>4, SMT
  <2> HIDE DEF knows, carried, got, p
  <2>4. WriteStep(e, t, x, p, Null, "relaxed", knows, carried, TRUE)
    BY <1>0, <1>2, <1>5, <1>7, <1>10, <2>1, <2>2, Zenon DEF WriteStep
  <2>5. MemoryType' /\ Written(t, x, p, Null, "relaxed", knows, carried, TRUE)
    BY <2>4, <1>10, WriteEffect, Zenon
  <2>6. /\ Kept(x, p) /\ mem'[x][p].val = Null /\ mem'[x][p].rmw
        /\ view'[t] = Put(Moved(knows, x, p), x, p)
        /\ \A u \in Threads \ {t} : view'[u] = Moved(view[u], x, p)
    BY <2>5, Zenon DEF Written
  <2>7. p \in Nat /\ p >= 2 /\ p \in Nat \ {0}
    BY <1>7, SMT
  <2>8. \A y : Place(view'[t], y) = IF y = x THEN p ELSE Place(view[t], y)
    <3>1. Moved(knows, x, p) \in Views
          /\ \A y : y # x => Place(Moved(knows, x, p), y) = Place(knows, y)
      BY <1>0, <1>1, <2>1, <2>7, MovedPlaces
    <3>2. \A y : Place(view'[t], y) = IF y = x THEN p ELSE Place(Moved(knows, x, p), y)
      BY <1>0, <2>6, <2>7, <3>1, PutView
    <3> QED BY <3>1, <3>2, <2>1, Zenon
  <2>9. OneWrite'
    BY <1>6, <1>10 DEF OneWrite, Interleaved
  <2>10. ViewsInTime'
    BY <1>0, <1>7, <1>10, <2>1, <2>2, <2>5, WriteInTime
  <2>11. got = mem[x][p - 1].val /\ FreePlace(x, p)
    BY <1>4, <1>7 DEF got, p
  <2>12. PutsNull(t, x, p, got)
    BY <2>3, <2>6, <2>8, <2>11, Zenon DEF PutsNull
  <2> QED BY <2>5, <2>9, <2>10, <2>12, <1>0, <1>6, <1>7, <1>8, <1>10, Zenon
<1> QED BY <1>9, <1>10

-----------------------------------------------------------------------------
\* The values of the writes, and the count of the indices taken.

\* A location whose writes keep their values.
LEMMA SameLocation ==
    ASSUME MemoryType, MemoryType', NEW y \in Objects, SameWrites(y)
    PROVE  DOMAIN mem'[y] = DOMAIN mem[y] /\ Newest(y)' = Newest(y)
<1>1. mem[y] \in Seq(Writes) /\ mem'[y] \in Seq(Writes) /\ Len(mem[y]) >= 1
  BY DEF MemoryType, Objects, Cells, Writes, Views, Locations
<1>2. DOMAIN mem'[y] = DOMAIN mem[y] /\ Len(mem[y]) \in DOMAIN mem[y]
  BY <1>1, SMT DEF SameWrites
<1>3. Newest(y)' = mem'[y][Len(mem'[y])].val /\ Newest(y) = mem[y][Len(mem[y])].val
  BY Zenon DEF Newest, Last
<1> QED BY <1>2, <1>3, Zenon DEF SameWrites

\* A cell whose writes keep their values.
LEMMA SameCell ==
    ASSUME MemoryType, MemoryType', NEW c \in Cells, SameWrites(AR(c))
    PROVE  /\ DOMAIN mem'[AR(c)] = DOMAIN mem[AR(c)]
           /\ \A j \in DOMAIN mem[AR(c)] : mem'[AR(c)][j].val = mem[AR(c)][j].val
           /\ Untouched(c)' <=> Untouched(c)
           /\ Newest(AR(c))' = Newest(AR(c))
<1>1. DOMAIN mem'[AR(c)] = DOMAIN mem[AR(c)] /\ Newest(AR(c))' = Newest(AR(c))
  BY Apart, SameLocation
<1>2. \A j \in DOMAIN mem[AR(c)] : mem'[AR(c)][j].val = mem[AR(c)][j].val
                                   /\ mem'[AR(c)][j].rmw = mem[AR(c)][j].rmw
  BY DEF SameWrites
<1>3. Untouched(c)' <=> Untouched(c)
  BY <1>1, <1>2, Zenon DEF Untouched, AR
<1> QED BY <1>1, <1>2, <1>3

\* back keeps counting when its writes keep their values.
LEMMA SameBack ==
    ASSUME MemoryType, MemoryType', BackCounts, SameWrites(back), build' = build
    PROVE  BackCounts' /\ Newest(back)' = Newest(back)
<1>1. DOMAIN mem'[back] = DOMAIN mem[back] /\ Newest(back)' = Newest(back)
  BY Apart, SameLocation
<1>2. \A j \in DOMAIN mem[back] : mem'[back][j].val = mem[back][j].val
                                   /\ mem'[back][j].rmw = mem[back][j].rmw
  BY DEF SameWrites
<1>3. BackCounts'
  BY <1>1, <1>2, Zenon DEF BackCounts, Interleaved, back
<1> QED BY <1>1, <1>3

\* What an exchange leaves in the cells.
LEMMA ExchangeValues ==
    ASSUME ArrayIInv, NEW t \in Threads, DeqExchange(t), NEW x, x = AR(k[t])
    PROVE  /\ k[t] \in Cells /\ MemoryType'
           /\ \A y \in Objects \ {x} : SameWrites(y)
           /\ \A j \in DOMAIN mem'[x] : mem'[x][j].val \in Payloads
           /\ \A c \in Cells : c = k[t] /\ Untouched(c) => Untouched(c)'
           /\ \A i, j \in DOMAIN mem'[x] :
                mem'[x][i].val # Null /\ mem'[x][j].val # Null => i = j
           /\ \A j \in DOMAIN mem'[x] : mem'[x][j].val # Null =>
                \E i \in DOMAIN mem[x] : mem[x][i].val = mem'[x][j].val
<1> USE DEF ArrayIInv
<1>1. /\ k[t] \in Cells /\ MemoryType' /\ OneWrite' /\ build' = build
      /\ Interleaved => mem'[x][1].val = Null /\ \A y \in Objects \ {x} : mem'[y] = mem[y]
      /\ ~Interleaved => \E p \in 2 .. Len(mem[x]) + 1 :
                Kept(x, p) /\ mem'[x][p].val = Null /\ mem'[x][p].rmw
  BY ExchangeMemory DEF PutsNull
<1>2. x \in Objects /\ Null \in Payloads
  BY <1>1, Apart DEF Payloads
<1>3. \A y \in Objects : \A i \in DOMAIN mem[y] : mem[y][i] \in Writes
  BY LastWrite
<1>4. \A i \in DOMAIN mem[x] : mem[x][i].val \in Payloads
  BY <1>1 DEF CellsFill
<1>5. CASE Interleaved
  <2>1. DOMAIN mem'[x] = {1}
    <3>1. mem'[x] \in Seq(Writes)
      BY <1>1, <1>2 DEF MemoryType, Objects, Cells, Writes, Views, Locations
    <3>2. Len(mem'[x]) = 1
      BY <1>1, <1>2, <1>5 DEF OneWrite, Objects, Cells, Interleaved
    <3> QED BY <3>1, <3>2, SMT
  <2>2. \A y \in Objects \ {x} : SameWrites(y)
    BY <1>1, <1>5, Zenon DEF SameWrites
  <2>3. \A c \in Cells : c = k[t] => Untouched(c)'
    <3>1. \A j \in DOMAIN mem'[x] : mem'[x][j].val = Null /\ ~(j >= 2)
      BY <2>1, <1>1, <1>5, SMT
    <3> QED BY <3>1, Zenon DEF Untouched, AR
  <2> QED BY <2>1, <2>2, <2>3, <1>1, <1>2, <1>5, Zenon
<1>6. CASE ~Interleaved
  <2>1. PICK p \in 2 .. Len(mem[x]) + 1 :
            Kept(x, p) /\ mem'[x][p].val = Null /\ mem'[x][p].rmw
    BY <1>1, <1>6
  <2>2. ASSUME NEW y \in Objects, NEW i \in DOMAIN mem[y]
        PROVE  /\ mem'[y][NewPlace(y, i, x, p)].val = mem[y][i].val
               /\ mem'[y][NewPlace(y, i, x, p)].rmw = mem[y][i].rmw
    <3>1. mem'[y][NewPlace(y, i, x, p)] = [mem[y][i] EXCEPT !.view = Moved(@, x, p)]
      BY <2>1 DEF Kept
    <3>2. mem[y][i] \in Writes
      BY <1>3
    <3> QED BY <3>1, <3>2, Zenon DEF Writes
  <2>3. \A y \in Objects \ {x} : SameWrites(y)
    <3> SUFFICES ASSUME NEW y \in Objects, y # x PROVE SameWrites(y)
      BY Zenon
    <3>1. \A i : NewPlace(y, i, x, p) = i
      BY Zenon DEF NewPlace
    <3>2. Len(mem'[y]) = Len(mem[y])
      BY <2>1 DEF Kept
    <3> QED BY <2>2, <3>1, <3>2, Zenon DEF SameWrites
  <2>4. ASSUME NEW j \in DOMAIN mem'[x], j # p
        PROVE  \E i \in DOMAIN mem[x] :
                    /\ j = NewPlace(x, i, x, p)
                    /\ mem'[x][j].val = mem[x][i].val /\ mem'[x][j].rmw = mem[x][i].rmw
    <3>1. PICK i \in DOMAIN mem[x] : j = NewPlace(x, i, x, p)
      BY <1>1, <1>2, <2>1, <2>4, NewOrOld
    <3> QED BY <3>1, <2>2, <1>2
  <2>5. \A j \in DOMAIN mem'[x] : mem'[x][j].val \in Payloads
    BY <2>1, <2>4, <1>2, <1>4, Zenon
  <2>6. ASSUME NEW c \in Cells, c = k[t], Untouched(c)
        PROVE  Untouched(c)'
    <3>1. ASSUME NEW j \in DOMAIN mem'[x]
          PROVE  mem'[x][j].val = Null /\ (j >= 2 => mem'[x][j].rmw)
      <4>1. CASE j = p
        BY <4>1, <2>1
      <4>2. CASE j # p
        <5>1. PICK i \in DOMAIN mem[x] :
                    /\ j = NewPlace(x, i, x, p)
                    /\ mem'[x][j].val = mem[x][i].val /\ mem'[x][j].rmw = mem[x][i].rmw
          BY <4>2, <2>4
        <5>2. mem[x][i].val = Null /\ (i >= 2 => mem[x][i].rmw)
          BY <2>6 DEF Untouched
        <5>3. i \in Nat /\ p \in Nat /\ p >= 2
          BY <1>2, LastWrite, SMT
        <5>4. j >= 2 => i >= 2
          BY <5>1, <5>3, SMT DEF NewPlace
        <5> QED BY <5>1, <5>2, <5>4, Zenon
      <4> QED BY <4>1, <4>2
    <3>2. x = AR(c)
      BY <2>6
    <3> QED BY <3>1, <3>2, Zenon DEF Untouched, AR
  <2>7. ASSUME NEW i \in DOMAIN mem'[x], NEW j \in DOMAIN mem'[x],
               mem'[x][i].val # Null, mem'[x][j].val # Null
        PROVE  i = j
    <3>0. i # p /\ j # p
      BY <2>1, <2>7
    <3>1. PICK a \in DOMAIN mem[x] :
                i = NewPlace(x, a, x, p) /\ mem'[x][i].val = mem[x][a].val
      BY <3>0, <2>4
    <3>2. PICK b \in DOMAIN mem[x] :
                j = NewPlace(x, b, x, p) /\ mem'[x][j].val = mem[x][b].val
      BY <3>0, <2>4
    <3>3. a = b
      <4>1. mem[x][a].val # Null /\ mem[x][b].val # Null
        BY <3>1, <3>2, <2>7
      <4> QED BY <4>1, <1>1 DEF OneItem
    <3> QED BY <3>1, <3>2, <3>3
  <2>8. \A j \in DOMAIN mem'[x] : mem'[x][j].val # Null =>
                \E i \in DOMAIN mem[x] : mem[x][i].val = mem'[x][j].val
    BY <2>1, <2>4, Zenon
  <2> QED BY <2>3, <2>5, <2>6, <2>7, <2>8, <1>1
<1> QED BY <1>5, <1>6

\* An enqueue of a script.
LEMMA EnqueueIs ==
    ASSUME NEW e \in Enqueues
    PROVE  /\ e[1] \in Threads /\ e[2] \in Nat /\ e[2] >= 1 /\ e = <<e[1], e[2]>>
           /\ Script[e[1]][e[2]].kind = "enq"
<1>1. PICK t \in Threads :
            \E i \in DOMAIN Script[t] : e = <<t, i>> /\ Script[t][i].kind = "enq"
  BY Zenon DEF Enqueues
<1>0. PICK i \in DOMAIN Script[t] : e = <<t, i>> /\ Script[t][i].kind = "enq"
  BY <1>1
<1>2. Script[t] \in Seq(Calls)
  BY ScriptAssumption
<1>3. i \in Nat /\ i >= 1
  BY <1>2, SMT
<1>4. e[1] = t /\ e[2] = i
  BY <1>0, SMT
<1> QED BY <1>0, <1>3, <1>4

\* An enqueue keeps its index; who is not at the fetch-and-add takes none.
LEMMA CountedSame ==
    ASSUME ip' = ip, \A u \in Threads : pc'[u] = "e_faa" <=> pc[u] = "e_faa"
    PROVE  Counted' = Counted
<1>1. \A e \in Enqueues : HasIndex(e)' <=> HasIndex(e)
  <2>1. \A e \in Enqueues : e[1] \in Threads
    BY EnqueueIs
  <2> QED BY <2>1, Zenon DEF HasIndex
<1> QED BY <1>1, Zenon DEF Counted, Enqueues

\* The script has the calls that are to be made.
LEMMA CallsOf ==
    ASSUME ArrayTypeOK, NEW t \in Threads
    PROVE  /\ ip[t] \in Nat /\ DOMAIN Script[t] = 1 .. Len(Script[t]) /\ Len(Script[t]) \in Nat
           /\ ip[t] <= Len(Script[t]) /\ (InCall(t) => ip[t] \in DOMAIN Script[t])
<1>1. ip[t] \in Nat /\ ip[t] <= Len(Script[t]) /\ (InCall(t) => ip[t] >= 1)
  BY DEF ArrayTypeOK, ClientTypeOK
<1>2. Script[t] \in Seq(Calls)
  BY ScriptAssumption
<1> QED BY <1>1, <1>2, SMT

\* A call that starts has no index yet.
LEMMA CountedCall ==
    ASSUME ArrayIInv, NEW t \in Threads, NEW kind, NEW entry, Invoke(t, kind, entry),
           kind = "enq" => entry = "e_faa", entry # "e_faa" => kind # "enq"
    PROVE  Counted' = Counted
<1> USE DEF ArrayIInv
<1>1. /\ ip[t] \in Nat /\ pc[t] = "idle" /\ Script[t][ip[t] + 1].kind = kind
      /\ ip'[t] = ip[t] + 1 /\ \A u \in Threads \ {t} : ip'[u] = ip[u]
      /\ pc'[t] = entry /\ \A u \in Threads \ {t} : pc'[u] = pc[u]
  BY Zenon DEF Invoke, InCall, ArrayTypeOK, ClientTypeOK
<1>2. ASSUME NEW e \in Enqueues
      PROVE  HasIndex(e)' <=> HasIndex(e)
  <2>1. e[1] \in Threads /\ e[2] \in Nat /\ Script[e[1]][e[2]].kind = "enq"
    BY EnqueueIs
  <2>2. CASE e[1] # t
    BY <2>1, <2>2, <1>1, Zenon DEF HasIndex
  <2>3. CASE e[1] = t
    <3>1. HasIndex(e) <=> e[2] <= ip[t]
      BY <2>1, <2>3, <1>1, SMT DEF HasIndex
    <3>2. HasIndex(e)' <=> (e[2] < ip[t] + 1 \/ (e[2] = ip[t] + 1 /\ entry # "e_faa"))
      BY <2>3, <1>1 DEF HasIndex
    <3>3. e[2] = ip[t] + 1 => entry = "e_faa"
      BY <2>1, <2>3, <1>1
    <3>4. e[2] <= ip[t] <=> e[2] < ip[t] + 1
      BY <2>1, <1>1, SMT
    <3> QED BY <3>1, <3>2, <3>3, <3>4
  <2> QED BY <2>2, <2>3
<1> QED BY <1>2, Zenon DEF Counted, Enqueues

\* The fetch-and-add takes one more index, and there is a cell for it.
LEMMA CountedFetchAdd ==
    ASSUME ArrayIInv, EnoughCells, NEW t \in Threads, pc[t] = "e_faa",
           ip' = ip, pc' = [pc EXCEPT ![t] = "e_store"]
    PROVE  /\ Cardinality(Counted') = Cardinality(Counted) + 1
           /\ Cardinality(Counted) \in Nat /\ Cardinality(Counted) < MAX
<1> USE DEF ArrayIInv
<1> DEFINE e == <<t, ip[t]>>
<1>1. e \in Enqueues \ Counted
  <2>1. InCall(t) /\ Script[t][ip[t]].kind = "enq"
    BY SMT DEF InOwnArrayCall, InCallOf, InCall, Current
  <2>2. ip[t] \in Nat /\ ip[t] \in DOMAIN Script[t]
    BY <2>1, CallsOf
  <2>3. e \in Enqueues
    BY <2>1, <2>2, SMT DEF Enqueues
  <2>4. ~HasIndex(e)
    BY <2>2, SMT DEF HasIndex
  <2> QED BY <2>3, <2>4, Zenon DEF Counted
<1>2. /\ pc'[t] = "e_store" /\ \A u \in Threads \ {t} : pc'[u] = pc[u]
  BY Zenon DEF ArrayTypeOK, ClientTypeOK
<1>3. Counted' = Counted \cup {e}
  <2>1. ASSUME NEW f \in Enqueues
        PROVE  HasIndex(f)' <=> HasIndex(f) \/ f = e
    <3>1. f[1] \in Threads /\ f[2] \in Nat /\ f = <<f[1], f[2]>>
      BY EnqueueIs
    <3>2. CASE f[1] # t
      <4>1. f # e
        BY <3>2, SMT
      <4> QED BY <4>1, <3>1, <3>2, <1>2, Zenon DEF HasIndex
    <3>3. CASE f[1] = t
      <4>1. HasIndex(f) <=> f[2] < ip[t]
        BY <3>3 DEF HasIndex
      <4>2. HasIndex(f)' <=> (f[2] < ip[t] \/ f[2] = ip[t])
        BY <3>3, <1>2, SMT DEF HasIndex
      <4>3. f = e <=> f[2] = ip[t]
        BY <3>1, <3>3, SMT
      <4> QED BY <4>1, <4>2, <4>3
    <3> QED BY <3>2, <3>3
  <2>2. Counted' = {f \in Enqueues : HasIndex(f)'}
    BY DEF Counted, Enqueues
  <2>3. Counted' = {f \in Enqueues : HasIndex(f) \/ f = e}
    BY <2>1, <2>2, Zenon
  <2> HIDE DEF e
  <2> QED BY <2>3, <1>1, Zenon DEF Counted
<1> HIDE DEF e
<1>4. IsFiniteSet(Counted) /\ Cardinality(Counted) \in Nat
  <2>1. Counted \subseteq Enqueues
    BY DEF Counted
  <2> QED BY <2>1, FS_Subset, FS_CardinalityType DEF EnoughCells
<1>5. Cardinality(Counted') = Cardinality(Counted) + 1
  BY <1>1, <1>3, <1>4, FS_AddElement
<1>6. Cardinality(Counted') <= Cardinality(Enqueues)
  <2>1. Counted' \subseteq Enqueues
    BY <1>1, <1>3, Zenon DEF Counted
  <2> QED BY <2>1, FS_Subset DEF EnoughCells
<1>7. Cardinality(Enqueues) \in Nat
  BY FS_CardinalityType DEF EnoughCells
<1> QED BY <1>4, <1>5, <1>6, <1>7, SMT DEF EnoughCells

-----------------------------------------------------------------------------
\* The invariant of the indices and cells.

\* What the last writes are follows from what all writes are.
LEMMA NewestCells ==
    ASSUME MemoryType, CellsFill
    PROVE  \A c \in Cells : Newest(AR(c)) \in Payloads
<1> SUFFICES ASSUME NEW c \in Cells PROVE Newest(AR(c)) \in Payloads
  OBVIOUS
<1>1. AR(c) \in Objects
  BY Apart
<1>2. Len(mem[AR(c)]) \in DOMAIN mem[AR(c)] /\ Newest(AR(c)) = mem[AR(c)][Len(mem[AR(c)])].val
  BY <1>1, LastWrite
<1> QED BY <1>2, Zenon DEF CellsFill

\* Where every write keeps its value and nobody gets to a store, the cells are
\* as they should be.
LEMMA SameCells ==
    ASSUME ArrayIInv, MemoryType', build' = build, mem' = mem,
           NEW t \in Threads, NEW l, l # "e_store", pc' = [pc EXCEPT ![t] = l],
           \A u \in Threads \ {t} : k'[u] = k[u]
    PROVE  BackCounts' /\ Newest(back)' = Newest(back) /\ CellsFill' /\ OneItem'
<1> USE DEF ArrayIInv
<1>1. \A y \in Objects : SameWrites(y)
  BY Zenon DEF SameWrites
<1>2. BackCounts' /\ Newest(back)' = Newest(back)
  BY <1>1, SameBack, Apart
<1>3. OneItem'
  BY Zenon DEF OneItem, AR, Cells
<1>4. \A c \in Cells : Untouched(c)' <=> Untouched(c)
  BY Zenon DEF Untouched, AR
<1>5. pc'[t] = l /\ \A u \in Threads \ {t} : pc'[u] = pc[u]
  BY Zenon DEF ArrayTypeOK, ClientTypeOK
<1>6. /\ \A c \in Cells : \A j \in DOMAIN mem'[AR(c)] : mem'[AR(c)][j].val \in Payloads
      /\ \A c \in Cells : c >= Newest(back)' => Untouched(c)'
  BY <1>2, <1>4, Zenon DEF CellsFill
<1>7. ASSUME NEW u \in Threads, pc'[u] = "e_store"
      PROVE  /\ k'[u] = k[u] /\ pc[u] = "e_store" /\ u # t
             /\ k'[u] < Newest(back)' /\ k[u] \in Cells
  BY <1>2, <1>5, <1>7, Zenon DEF CellsFill, ArrayTypeOK
<1>8. \A u \in Threads : pc'[u] = "e_store" => Untouched(k[u])
  BY <1>7, Zenon DEF CellsFill
<1>9. \A u \in Threads : pc'[u] = "e_store" =>
         \A j \in DOMAIN mem'[AR(k'[u])] : /\ mem'[AR(k'[u])][j].val = Null
                                           /\ j >= 2 => mem'[AR(k'[u])][j].rmw
  <2> SUFFICES ASSUME NEW u \in Threads, pc'[u] = "e_store",
                      NEW j \in DOMAIN mem'[AR(k'[u])]
               PROVE  /\ mem'[AR(k'[u])][j].val = Null
                      /\ j >= 2 => mem'[AR(k'[u])][j].rmw
    OBVIOUS
  <2>1. k'[u] = k[u] /\ Untouched(k[u])
    BY <1>7, <1>8
  <2>2. mem'[AR(k'[u])] = mem[AR(k[u])]
    BY <2>1
  <2> QED BY <2>1, <2>2, Zenon DEF Untouched
<1>10. \A u \in Threads : pc'[u] = "e_store" => Untouched(k[u])'
  BY <1>9 DEF Untouched, AR
<1>11. \A u, v \in Threads : pc'[u] = "e_store" /\ pc'[v] = "e_store" /\ u # v => k'[u] # k'[v]
  BY <1>7, Zenon DEF CellsFill
<1>12. CellsFill'
  BY <1>6, <1>7, <1>10, <1>11 DEF CellsFill, AR, Cells, Payloads, back
<1> QED BY <1>2, <1>3, <1>12

\* The invariant holds at the start.
LEMMA ArrayStarts ==
    ASSUME EnoughCells, ArrayInit
    PROVE  ArrayIInv
<1> DEFINE v(x) == IF x = back THEN 0 ELSE Null
<1>1. /\ mem = [x \in Objects |-> FirstWrite(v(x))]
      /\ view = [t \in Threads |-> Nothing]
      /\ \A t \in Threads : pc[t] = "idle" /\ ip[t] = 0 /\ k[t] = 0 /\ lback[t] = 0
      /\ k \in [Threads -> Nat] /\ lback \in [Threads -> Nat]
  BY SMT DEF ArrayInit, MemInit, MemOf, ClientInit, Objects
<1>2. ASSUME NEW x \in Objects
      PROVE  /\ mem[x] = FirstWrite(v(x)) /\ v(x) \in Payloads \cup Nat
             /\ mem[x] \in Seq(Writes) /\ Len(mem[x]) = 1 /\ DOMAIN mem[x] = {1}
             /\ mem[x][1].val = v(x) /\ mem[x][1].view = Nothing
  <2>1. v(x) \in Payloads \cup Nat
    BY SMT DEF Payloads
  <2>2. mem[x] = FirstWrite(v(x))
    BY <1>1
  <2> HIDE DEF v
  <2>3. [val |-> v(x), view |-> Nothing, rmw |-> FALSE] \in Writes
    BY <2>1, NothingView, Zenon DEF Writes
  <2>4. /\ FirstWrite(v(x)) \in Seq(Writes) /\ Len(FirstWrite(v(x))) = 1
        /\ DOMAIN FirstWrite(v(x)) = {1}
        /\ FirstWrite(v(x))[1].val = v(x) /\ FirstWrite(v(x))[1].view = Nothing
    BY <2>3, SMT DEF FirstWrite
  <2> QED BY <2>1, <2>2, <2>4, Zenon
<1>3. MemoryType /\ OneWrite
  <2>1. view \in [Threads -> Views]
    BY <1>1, NothingView, Zenon
  <2>2. mem \in [Objects -> Seq(Writes)]
    BY <1>1, <1>2, Zenon
  <2>3. \A x \in Objects : Len(mem[x]) >= 1
    BY <1>2, SMT
  <2>4. OneWrite
    BY <1>1, <1>2, Zenon DEF OneWrite
  <2> QED BY <2>1, <2>2, <2>3, <2>4 DEF MemoryType
<1>4. back \in Objects /\ v(back) = 0 /\ \A c \in Cells : AR(c) \in Objects /\ v(AR(c)) = Null
  BY Apart
<1> HIDE DEF v
<1>5. ViewsInTime
  <2>1. ViewInTime(Nothing)
    <3>1. 1 <= 2 /\ \A x \in Objects : 1 <= Len(mem[x])
      BY <1>2, SMT
    <3> QED BY <3>1, NothingView, Zenon DEF ViewInTime
  <2>2. \A t \in Threads : view[t] = Nothing
    BY <1>1, Zenon
  <2>3. \A i \in DOMAIN mem[back] : mem[back][i].view = Nothing
    BY <1>2, <1>4, Zenon
  <2> QED BY <2>1, <2>2, <2>3, Zenon DEF ViewsInTime, Known
<1>6. BackCounts /\ Newest(back) = 0
  <2>1. \A i \in DOMAIN mem[back] : mem[back][i].val = 0 /\ i = 1
    BY <1>2, <1>4, Zenon
  <2>2. 0 \in Nat /\ 1 - 1 = 0 /\ ~(1 >= 2)
    BY SMT
  <2>3. BackCounts
    BY <2>1, <2>2, Zenon DEF BackCounts
  <2>4. Newest(back) = 0
    BY <1>2, <1>4, Zenon DEF Newest, Last
  <2> QED BY <2>3, <2>4
<1>7. \A c \in Cells : \A j \in DOMAIN mem[AR(c)] : mem[AR(c)][j].val = Null /\ j = 1
  BY <1>2, <1>4, Zenon
<1>8. CellsFill /\ OneItem
  <2>1. \A c \in Cells : Untouched(c)
    BY <1>7, SMT DEF Untouched
  <2>2. CellsFill
    BY <2>1, <1>1, <1>7, Zenon DEF CellsFill, Payloads
  <2>3. OneItem
    BY <1>7, Zenon DEF OneItem
  <2> QED BY <2>2, <2>3
<1>9. ArrayTypeOK /\ Indices
  <2>1. ClientTypeOK(ArrayLabels)
    BY InitType DEF ArrayInit
  <2>2. 0 \in 0 .. MAX /\ 0 \in 0 .. 0
    BY SMT DEF EnoughCells
  <2>3. \A c \in Cells : Newest(AR(c)) \in Payloads
    BY <1>3, <1>8, NewestCells
  <2> QED BY <2>1, <2>2, <2>3, <1>1, <1>6, Zenon DEF ArrayTypeOK, Indices
<1>10. InOwnArrayCall
  BY <1>1, Zenon DEF InOwnArrayCall, InCallOf
<1>11. BackIsCount
  <2>1. Counted = {}
    <3>1. ASSUME NEW e \in Enqueues
          PROVE  ~HasIndex(e)
      <4>1. e[1] \in Threads /\ e[2] \in Nat /\ e[2] >= 1
        BY EnqueueIs
      <4> QED BY <4>1, <1>1, SMT DEF HasIndex
    <3> QED BY <3>1, Zenon DEF Counted
  <2> QED BY <2>1, <1>6, FS_EmptySet DEF BackIsCount
<1> QED BY <1>3, <1>5, <1>6, <1>8, <1>9, <1>10, <1>11 DEF ArrayIInv

\* The cells after a step, from what is known of each.
LEMMA CellsAfter ==
    ASSUME \A c \in Cells : \A j \in DOMAIN mem'[AR(c)] : mem'[AR(c)][j].val \in Payloads,
           \A c \in Cells : c >= Newest(back)' => Untouched(c)',
           \A u \in Threads : pc'[u] = "e_store" => k'[u] \in Cells /\ k'[u] < Newest(back)',
           \A c \in Cells, u \in Threads : pc'[u] = "e_store" /\ k'[u] = c => Untouched(c)',
           \A u, v \in Threads : pc'[u] = "e_store" /\ pc'[v] = "e_store" /\ u # v =>
                                    k'[u] # k'[v]
    PROVE  CellsFill'
<1>1. ASSUME NEW u \in Threads, pc'[u] = "e_store"
      PROVE  Untouched(k[u])'
  <2>1. PICK c \in Cells : k'[u] = c
    BY <1>1
  <2>2. \A j \in DOMAIN mem'[AR(c)] : /\ mem'[AR(c)][j].val = Null
                                      /\ j >= 2 => mem'[AR(c)][j].rmw
    <3>1. Untouched(c)'
      BY <1>1, <2>1
    <3> QED BY <3>1 DEF Untouched, AR
  <2>3. \A j \in DOMAIN mem'[AR(k'[u])] : /\ mem'[AR(k'[u])][j].val = Null
                                          /\ j >= 2 => mem'[AR(k'[u])][j].rmw
    BY <2>1, <2>2, Zenon
  <2> QED BY <2>3 DEF Untouched, AR
<1> QED BY <1>1 DEF CellsFill, AR, Cells, Payloads, back

\* The types after a step, from what is known of its parts.
LEMMA TypesAfter ==
    ASSUME ClientTypeOK(ArrayLabels)', MemoryType', CellsFill', Newest(back)' \in 0 .. MAX,
           \A u \in Threads : k'[u] \in 0 .. MAX /\ lback'[u] \in 0 .. Newest(back)',
           \A u \in Threads : pc'[u] \in {"e_store", "d_xchg"} => k'[u] \in Cells
    PROVE  ArrayTypeOK'
<1>1. \A c \in Cells : Newest(AR(c))' \in Payloads
  <2>1. (\A c \in Cells : Newest(AR(c)) \in Payloads)'
    BY NewestCells, PTL
  <2> QED BY <2>1
<1> QED BY <1>1 DEF ArrayTypeOK, Cells, Payloads, back

\* The start of a call keeps the invariant.
LEMMA CallInv ==
    ASSUME EnoughCells, ArrayIInv, NEW t \in Threads, EnqCall(t) \/ DeqCall(t)
    PROVE  ArrayIInv'
<1> USE DEF ArrayIInv
<1>1. \E kind, entry : /\ Invoke(t, kind, entry)
                       /\ \/ kind = "enq" /\ entry = "e_faa"
                          \/ kind = "deq" /\ entry = "d_back"
  BY Zenon DEF EnqCall, DeqCall
<1>2. PICK kind, entry : /\ Invoke(t, kind, entry)
                         /\ \/ kind = "enq" /\ entry = "e_faa"
                            \/ kind = "deq" /\ entry = "d_back"
  BY <1>1
<1>3. k' = k /\ lback' = lback
  BY DEF EnqCall, DeqCall
<1>4. entry \in ArrayLabels /\ entry # "e_store" /\ entry # "d_xchg"
  BY <1>2 DEF ArrayLabels
<1>5. ClientTypeOK(ArrayLabels)'
  BY <1>2, <1>4, InvokeType DEF ArrayTypeOK
<1>6. \E own : /\ own = Nothing \/ \E v \in Payloads : own = Filled(Payload(v))
               /\ \E ts \in FlagsRead(t) : Starts(t, ts, own)
  <2>1. CASE DeqCall(t)
    BY <2>1, Zenon DEF DeqCall
  <2>2. CASE EnqCall(t)
    <3>1. InCall(t)'
      BY <1>2, SMT DEF Invoke, InCall, ArrayTypeOK, ClientTypeOK
    <3>2. Current(t)' \in Calls
      <4>1. ip'[t] \in 1 .. Len(Script[t]) /\ Script[t] \in Seq(Calls)
        BY <1>5, <3>1, ScriptAssumption, SMT DEF ClientTypeOK
      <4> QED BY <4>1, SMT DEF Current
    <3>3. Current(t)'.val \in Payloads
      BY <3>2, SMT DEF Calls
    <3>4. \E ts \in FlagsRead(t) : Starts(t, ts, Filled(Payload(Current(t)'.val)))
      BY <2>2 DEF EnqCall
    <3>5. PICK v \in Payloads : v = Current(t)'.val
      BY <3>3
    <3>6. \E ts \in FlagsRead(t) : Starts(t, ts, Filled(Payload(v)))
      BY <3>4, <3>5
    <3> QED BY <3>6, Zenon
  <2> QED BY <2>1, <2>2
<1>7. MemoryType' /\ ViewsInTime' /\ OneWrite' /\ mem' = mem /\ build' = build
  <2>1. PICK own : /\ own = Nothing \/ \E v \in Payloads : own = Filled(Payload(v))
                   /\ \E ts \in FlagsRead(t) : Starts(t, ts, own)
    BY <1>6
  <2>2. PICK ts \in FlagsRead(t) : Starts(t, ts, own)
    BY <2>1
  <2> QED BY <2>1, <2>2, CallMemory
<1>8. /\ pc[t] = "idle" /\ pc' = [pc EXCEPT ![t] = entry]
      /\ pc'[t] = entry /\ \A u \in Threads \ {t} : pc'[u] = pc[u]
  BY <1>2, Zenon DEF Invoke, InCall, ArrayTypeOK, ClientTypeOK
<1>9. BackCounts' /\ Newest(back)' = Newest(back) /\ CellsFill' /\ OneItem'
  BY <1>3, <1>4, <1>7, <1>8, SameCells
<1>10. InOwnArrayCall'
  <2>1. entry \in {"e_faa", "e_store"} => kind = "enq"
    BY <1>2
  <2>2. entry \in {"d_back", "d_xchg"} => kind = "deq"
    BY <1>2
  <2> QED BY <2>1, <2>2, <1>2, CallBegins DEF ArrayTypeOK, InOwnArrayCall
<1>11. Indices'
  BY <1>3, <1>4, <1>8, Zenon DEF Indices
<1>12. ArrayTypeOK'
  <2>1. \A u \in Threads : pc'[u] \in {"e_store", "d_xchg"} => k'[u] \in Cells
    BY <1>3, <1>4, <1>8, Zenon DEF ArrayTypeOK
  <2>2. \A u \in Threads : k'[u] \in 0 .. MAX /\ lback'[u] \in 0 .. Newest(back)'
    BY <1>3, <1>9, Zenon DEF ArrayTypeOK
  <2>3. Newest(back)' \in 0 .. MAX
    BY <1>9 DEF ArrayTypeOK
  <2> QED BY <2>1, <2>2, <2>3, <1>5, <1>7, <1>9, TypesAfter
<1>13. BackIsCount'
  <2>1. Counted' = Counted
    BY <1>2, CountedCall
  <2>2. Newest(back)' = Cardinality(Counted')
    BY <2>1, <1>9 DEF BackIsCount
  <2> QED BY <2>2 DEF BackIsCount, back, Counted, Enqueues
<1> QED BY <1>7, <1>9, <1>10, <1>11, <1>12, <1>13

\* The load of back keeps the invariant.
LEMMA LoadInv ==
    ASSUME EnoughCells, ArrayIInv, NEW t \in Threads, DeqLoadBack(t)
    PROVE  ArrayIInv'
<1> USE DEF ArrayIInv
<1>1. /\ MemoryType' /\ ViewsInTime' /\ OneWrite' /\ mem' = mem /\ build' = build
      /\ \A u \in Threads \ {t} : view'[u] = view[u] /\ lback'[u] = lback[u]
      /\ lback'[t] \in 0 .. Newest(back)
      /\ IF 0 < lback'[t] THEN Goto(t, "d_xchg") ELSE Return(t, Empty)
  BY LoadMemory
<1>2. /\ pc[t] = "d_back" /\ k' = [k EXCEPT ![t] = 0]
      /\ k'[t] = 0 /\ \A u \in Threads \ {t} : k'[u] = k[u]
      /\ k' \in [Threads -> Nat]
      /\ \E n : lback' = [lback EXCEPT ![t] = n]
  <2>1. pc[t] = "d_back" /\ k' = [k EXCEPT ![t] = 0]
    BY DEF DeqLoadBack, SweepFrom
  <2>2. k \in [Threads -> Nat] /\ 0 \in Nat
    BY DEF Indices
  <2>3. \E n : lback' = [lback EXCEPT ![t] = n]
    BY Zenon DEF DeqLoadBack
  <2> QED BY <2>1, <2>2, <2>3, Zenon
<1>3. /\ ip' = ip
      /\ \E l \in {"d_xchg", "idle"} : /\ pc' = [pc EXCEPT ![t] = l]
                                       /\ l = "d_xchg" => 0 < lback'[t]
  BY <1>1, Zenon DEF Goto, Return
<1>4. PICK l \in {"d_xchg", "idle"} : /\ pc' = [pc EXCEPT ![t] = l]
                                      /\ l = "d_xchg" => 0 < lback'[t]
  BY <1>3
<1>5. l # "e_store" /\ l # "e_faa" /\ pc'[t] = l /\ \A u \in Threads \ {t} : pc'[u] = pc[u]
  BY <1>4, Zenon DEF ArrayTypeOK, ClientTypeOK
<1>6. BackCounts' /\ Newest(back)' = Newest(back) /\ CellsFill' /\ OneItem'
  BY <1>1, <1>2, <1>4, <1>5, SameCells
<1>7. ClientTypeOK(ArrayLabels)'
  <2>1. InCall(t) /\ "d_xchg" \in ArrayLabels /\ Empty \in Results
    BY <1>2, SMT DEF InCall, ArrayLabels, Results
  <2> QED BY <2>1, <1>1, GotoType, ReturnType DEF ArrayTypeOK
<1>8. InOwnArrayCall'
  <2>1. pc[t] \in {"d_back", "d_xchg"} /\ l \notin {"e_faa", "e_store"}
    BY <1>2, <1>4
  <2> QED BY <2>1, <1>3, <1>4, CallGoesOn DEF ArrayTypeOK, InOwnArrayCall
<1>9. \A u \in Threads : lback'[u] \in 0 .. Newest(back)'
  BY <1>1, <1>6, Zenon DEF ArrayTypeOK
<1>10. Indices'
  <2>1. lback' \in [Threads -> Nat]
    <3>1. \A u \in Threads : lback'[u] \in Nat
      BY <1>9, <1>6, NewestBack, SMT
    <3>2. PICK n : lback' = [lback EXCEPT ![t] = n]
      BY <1>2
    <3>3. lback' = [u \in Threads |-> lback'[u]]
      BY <3>2, Zenon DEF Indices
    <3> QED BY <3>1, <3>3, Zenon
  <2>2. \A u \in Threads : pc'[u] = "d_xchg" => k'[u] < lback'[u]
    BY <1>1, <1>2, <1>4, <1>5, Zenon DEF Indices
  <2> QED BY <2>1, <2>2, <1>2 DEF Indices
<1>11. ArrayTypeOK'
  <2>1. 0 \in 0 .. MAX /\ (0 < lback'[t] => 0 \in Cells)
    <3>1. Newest(back) \in Nat /\ Newest(back) \in 0 .. MAX
      BY NewestBack DEF ArrayTypeOK
    <3> QED BY <3>1, <1>1, SMT DEF Cells, EnoughCells
  <2>2. \A u \in Threads : pc'[u] \in {"e_store", "d_xchg"} => k'[u] \in Cells
    <3>1. CASE l = "d_xchg"
      BY <3>1, <2>1, <1>2, <1>4, <1>5, Zenon DEF ArrayTypeOK
    <3>2. CASE l = "idle"
      BY <3>2, <1>2, <1>5, Zenon DEF ArrayTypeOK
    <3> QED BY <3>1, <3>2
  <2>3. \A u \in Threads : k'[u] \in 0 .. MAX /\ lback'[u] \in 0 .. Newest(back)'
    BY <1>2, <1>9, <2>1, Zenon DEF ArrayTypeOK
  <2>4. Newest(back)' \in 0 .. MAX
    BY <1>6 DEF ArrayTypeOK
  <2> QED BY <2>2, <2>3, <2>4, <1>1, <1>6, <1>7, TypesAfter
<1>12. BackIsCount'
  <2>1. Counted' = Counted
    <3>1. \A u \in Threads : pc'[u] = "e_faa" <=> pc[u] = "e_faa"
      BY <1>2, <1>5, Zenon
    <3> QED BY <3>1, <1>3, CountedSame
  <2>2. Newest(back)' = Cardinality(Counted')
    BY <2>1, <1>6 DEF BackIsCount
  <2> QED BY <2>2 DEF BackIsCount, back, Counted, Enqueues
<1> QED BY <1>1, <1>6, <1>8, <1>10, <1>11, <1>12

\* The fetch-and-add keeps the invariant: the index it takes is a cell's, nobody
\* has it, and nothing has been stored there.
LEMMA FetchAddInv ==
    ASSUME EnoughCells, ArrayIInv, NEW t \in Threads, EnqFetchAdd(t)
    PROVE  ArrayIInv'
<1> USE DEF ArrayIInv
<1>1. /\ MemoryType' /\ ViewsInTime' /\ OneWrite' /\ BackCounts' /\ build' = build
      /\ Newest(back) \in Nat /\ Newest(back)' = Newest(back) + 1
      /\ k' = [k EXCEPT ![t] = Newest(back)]
      /\ \A c \in Cells : mem'[AR(c)] = mem[AR(c)]
  BY FetchAddMemory
<1>2. /\ pc[t] = "e_faa" /\ pc' = [pc EXCEPT ![t] = "e_store"] /\ ip' = ip /\ lback' = lback
      /\ Goto(t, "e_store")
  BY DEF EnqFetchAdd, Goto
<1>3. /\ pc'[t] = "e_store" /\ \A u \in Threads \ {t} : pc'[u] = pc[u]
      /\ k'[t] = Newest(back) /\ \A u \in Threads \ {t} : k'[u] = k[u]
      /\ k' \in [Threads -> Nat]
  BY <1>1, <1>2, Zenon DEF ArrayTypeOK, ClientTypeOK, Indices
<1>4. /\ Cardinality(Counted') = Cardinality(Counted) + 1
      /\ Cardinality(Counted) \in Nat /\ Cardinality(Counted) < MAX
  BY <1>2, CountedFetchAdd
<1>5. /\ BackIsCount' /\ Newest(back) \in Cells /\ Newest(back) \in 0 .. MAX
      /\ Newest(back)' \in 0 .. MAX /\ Newest(back) < Newest(back)'
  <2>1. Newest(back) = Cardinality(Counted)
    BY DEF BackIsCount
  <2>2. Newest(back)' = Cardinality(Counted')
    BY <2>1, <1>1, <1>4
  <2>3. BackIsCount'
    BY <2>2 DEF BackIsCount, back, Counted, Enqueues
  <2> QED BY <2>1, <2>3, <1>1, <1>4, SMT DEF Cells, EnoughCells
<1>6. \A c \in Cells : Untouched(c) => Untouched(c)'
  BY <1>1, Zenon DEF Untouched, AR
<1>7. ASSUME NEW u \in Threads, pc'[u] = "e_store"
      PROVE  /\ k'[u] \in Cells /\ k'[u] < Newest(back)' /\ Untouched(k'[u])
             /\ u # t => k'[u] < Newest(back)
  <2>1. CASE u = t
    <3>1. Untouched(Newest(back))
      <4>1. Newest(back) >= Newest(back)
        BY <1>1, SMT
      <4> QED BY <4>1, <1>5, Zenon DEF CellsFill
    <3> QED BY <2>1, <3>1, <1>3, <1>5
  <2>2. CASE u # t
    <3>1. pc[u] = "e_store" /\ k'[u] = k[u]
      BY <2>2, <1>3, <1>7
    <3>2. k[u] < Newest(back) /\ Untouched(k[u]) /\ k[u] \in Cells
      BY <3>1, Zenon DEF CellsFill, ArrayTypeOK
    <3>3. k[u] \in Nat
      BY DEF Indices
    <3>4. k[u] < Newest(back)'
      BY <3>2, <3>3, <1>1, SMT
    <3> QED BY <3>1, <3>2, <3>4
  <2> QED BY <2>1, <2>2
<1>8. CellsFill'
  <2>1. \A c \in Cells : \A j \in DOMAIN mem'[AR(c)] : mem'[AR(c)][j].val \in Payloads
    BY <1>1, Zenon DEF CellsFill
  <2>2. \A c \in Cells : c >= Newest(back)' => Untouched(c)'
    <3>1. \A c \in Cells : c >= Newest(back)' => c >= Newest(back)
      BY <1>1, SMT DEF Cells
    <3> QED BY <3>1, <1>6, Zenon DEF CellsFill
  <2>3. \A u \in Threads : pc'[u] = "e_store" => k'[u] \in Cells /\ k'[u] < Newest(back)'
    BY <1>7
  <2>4. \A c \in Cells, u \in Threads : pc'[u] = "e_store" /\ k'[u] = c => Untouched(c)'
    BY <1>6, <1>7, Zenon
  <2>5. ASSUME NEW u \in Threads, NEW v \in Threads, pc'[u] = "e_store", pc'[v] = "e_store",
               u # v
        PROVE  k'[u] # k'[v]
    <3>1. CASE u # t /\ v # t
      <4>1. k'[u] = k[u] /\ k'[v] = k[v] /\ pc[u] = "e_store" /\ pc[v] = "e_store"
        BY <3>1, <2>5, <1>3
      <4> QED BY <4>1, <2>5, Zenon DEF CellsFill
    <3>2. CASE u = t
      <4>1. k'[v] < Newest(back) /\ k'[v] \in Nat
        BY <3>2, <2>5, <1>3, <1>7
      <4> QED BY <3>2, <4>1, <1>1, <1>3, SMT
    <3>3. CASE v = t
      <4>1. k'[u] < Newest(back) /\ k'[u] \in Nat
        BY <3>3, <2>5, <1>3, <1>7
      <4> QED BY <3>3, <4>1, <1>1, <1>3, SMT
    <3> QED BY <3>1, <3>2, <3>3
  <2>6. \A u, v \in Threads : pc'[u] = "e_store" /\ pc'[v] = "e_store" /\ u # v =>
                                    k'[u] # k'[v]
    BY <2>5
  <2> QED BY <2>1, <2>2, <2>3, <2>4, <2>6, CellsAfter
<1>9. OneItem'
  BY <1>1, Zenon DEF OneItem, AR, Cells
<1>10. InOwnArrayCall'
  <2>1. pc[t] \in {"e_faa", "e_store"} /\ "e_store" \notin {"d_back", "d_xchg"}
    BY <1>2
  <2> QED BY <2>1, <1>2, CallGoesOn DEF ArrayTypeOK, InOwnArrayCall
<1>11. Indices'
  BY <1>2, <1>3, Zenon DEF Indices
<1>12. ArrayTypeOK'
  <2>1. ClientTypeOK(ArrayLabels)'
    <3>1. InCall(t) /\ "e_store" \in ArrayLabels
      BY <1>2, SMT DEF InCall, ArrayLabels
    <3> QED BY <3>1, <1>2, GotoType DEF ArrayTypeOK
  <2>2. \A u \in Threads : pc'[u] \in {"e_store", "d_xchg"} => k'[u] \in Cells
    BY <1>3, <1>5, Zenon DEF ArrayTypeOK
  <2>3. \A u \in Threads : k'[u] \in 0 .. MAX
    BY <1>3, <1>5, Zenon DEF ArrayTypeOK
  <2>4. \A u \in Threads : lback'[u] \in 0 .. Newest(back)'
    <3>1. \A u \in Threads : lback[u] \in 0 .. Newest(back)
      BY DEF ArrayTypeOK
    <3> QED BY <3>1, <1>1, <1>2, SMT
  <2> QED BY <2>1, <2>2, <2>3, <2>4, <1>1, <1>5, <1>8, TypesAfter
<1> QED BY <1>1, <1>5, <1>8, <1>9, <1>10, <1>11, <1>12

\* The writes to a cell once its item has been stored.
LEMMA StoreValues ==
    ASSUME ArrayIInv, NEW t \in Threads, EnqStore(t), NEW x, x = AR(k[t])
    PROVE  /\ k[t] \in Cells /\ MemoryType' /\ build' = build
           /\ \A y \in Objects \ {x} : SameWrites(y)
           /\ \A j \in DOMAIN mem'[x] :
                mem'[x][j].val \in {Null, Current(t).val}
           /\ \A i, j \in DOMAIN mem'[x] :
                mem'[x][i].val # Null /\ mem'[x][j].val # Null => i = j
<1> USE DEF ArrayIInv
<1> DEFINE v == Current(t).val
<1>0. PICK n : n = Len(mem[x])
  BY Zenon
<1>1. /\ MemoryType' /\ OneWrite' /\ build' = build
      /\ k[t] \in Cells /\ n \in Nat /\ n >= 1
      /\ \A y \in Objects \ {x} : mem'[y] = mem[y]
      /\ Interleaved => mem'[x][1].val = v
      /\ ~Interleaved =>
            /\ \A i \in DOMAIN mem[x] : mem'[x][i] = mem[x][i]
            /\ Len(mem'[x]) = n + 1 /\ mem'[x][n + 1].val = v
  <2>1. MemoryType' /\ OneWrite' /\ build' = build /\ k[t] \in Cells /\ ItemStored(t, x, n)
    BY <1>0, StoreMemory
  <2> QED BY <2>1 DEF ItemStored
<1>2. x \in Objects /\ DOMAIN mem[x] = 1 .. n
  <2>1. x \in Objects
    BY <1>1, Apart
  <2> QED BY <1>0, <2>1, LastWrite
<1>3. mem'[x] \in Seq(Writes)
  BY <1>1, <1>2 DEF MemoryType, Objects, Cells, Writes, Views, Locations
<1>4. \A y \in Objects \ {x} : SameWrites(y)
  BY <1>1, Zenon DEF SameWrites
<1>5. \E q : /\ \A j \in DOMAIN mem'[x] : j # q => mem'[x][j].val = Null
             /\ \A j \in DOMAIN mem'[x] : j = q => mem'[x][j].val = v
  <2>1. CASE Interleaved
    <3>1. Len(mem'[x]) = 1
      BY <1>1, <1>2, <2>1 DEF OneWrite, Objects, Cells, Interleaved
    <3>2. DOMAIN mem'[x] = {1}
      BY <3>1, <1>3, SMT
    <3> QED BY <3>2, <1>1, <2>1, Zenon
  <2>2. CASE ~Interleaved
    <3>1. \A i \in DOMAIN mem[x] : mem[x][i].val = Null
      <4>1. pc[t] = "e_store"
        BY DEF EnqStore
      <4> QED BY <4>1, Zenon DEF CellsFill, Untouched
    <3>2. DOMAIN mem'[x] = 1 .. n + 1
      BY <1>1, <1>3, <2>2, SMT
    <3>3. \A j \in DOMAIN mem'[x] : j # n + 1 => j \in DOMAIN mem[x]
      BY <3>2, <1>1, <1>2, SMT
    <3>4. /\ \A j \in DOMAIN mem'[x] : j # n + 1 => mem'[x][j].val = Null
          /\ \A j \in DOMAIN mem'[x] : j = n + 1 => mem'[x][j].val = v
      <4> HIDE DEF v
      <4> QED BY <3>1, <3>3, <1>1, <2>2
    <3> QED BY <3>4, Zenon
  <2> QED BY <2>1, <2>2
<1>6. PICK q : /\ \A j \in DOMAIN mem'[x] : j # q => mem'[x][j].val = Null
               /\ \A j \in DOMAIN mem'[x] : j = q => mem'[x][j].val = v
  BY <1>5
<1> HIDE DEF v
<1>7. /\ \A j \in DOMAIN mem'[x] : mem'[x][j].val \in {Null, v}
      /\ \A i, j \in DOMAIN mem'[x] :
                mem'[x][i].val # Null /\ mem'[x][j].val # Null => i = j
  BY <1>6
<1> QED BY <1>1, <1>4, <1>7 DEF v

\* The store keeps the invariant: nobody else is about to store in that cell.
LEMMA StoreInv ==
    ASSUME EnoughCells, ArrayIInv, NEW t \in Threads, EnqStore(t)
    PROVE  ArrayIInv'
<1> USE DEF ArrayIInv
<1>1. PICK c \in Cells, x \in Objects : c = k[t] /\ x = AR(k[t])
  <2>1. pc[t] = "e_store"
    BY DEF EnqStore
  <2> QED BY <2>1, Apart, Zenon DEF ArrayTypeOK
<1>2. /\ MemoryType' /\ build' = build
      /\ \A y \in Objects \ {x} : SameWrites(y)
      /\ \A j \in DOMAIN mem'[x] : mem'[x][j].val \in {Null, Current(t).val}
      /\ \A i, j \in DOMAIN mem'[x] :
                mem'[x][i].val # Null /\ mem'[x][j].val # Null => i = j
  BY <1>1, StoreValues
<1>3. /\ pc[t] = "e_store" /\ pc' = [pc EXCEPT ![t] = "idle"] /\ ip' = ip /\ lback' = lback
      /\ k' = k /\ Return(t, Ok)
  BY DEF EnqStore, Return
<1>4. /\ pc'[t] = "idle" /\ \A u \in Threads \ {t} : pc'[u] = pc[u]
      /\ c < Newest(back)
  BY <1>1, <1>3, Zenon DEF ArrayTypeOK, ClientTypeOK, CellsFill
<1>5. ViewsInTime' /\ OneWrite'
  <2>1. PICK n : n = Len(mem[x])
    BY Zenon
  <2> QED BY <1>1, <2>1, StoreMemory
<1>6. back \in Objects /\ \A d \in Cells : AR(d) \in Objects /\ AR(d) # back
      /\ (d # c => AR(d) # x)
  BY <1>1, Apart
<1>7. BackCounts' /\ Newest(back)' = Newest(back)
  <2>1. SameWrites(back)
    BY <1>1, <1>2, <1>6
  <2> QED BY <2>1, <1>2, SameBack
<1>8. ASSUME NEW d \in Cells, d # c
      PROVE  /\ DOMAIN mem'[AR(d)] = DOMAIN mem[AR(d)]
             /\ \A j \in DOMAIN mem[AR(d)] : mem'[AR(d)][j].val = mem[AR(d)][j].val
             /\ Untouched(d)' <=> Untouched(d)
  <2>1. SameWrites(AR(d))
    BY <1>2, <1>6, <1>8
  <2> QED BY <2>1, <1>2, SameCell
<1>9. CellsFill'
  <2>1. ASSUME NEW d \in Cells, NEW j \in DOMAIN mem'[AR(d)]
        PROVE  mem'[AR(d)][j].val \in Payloads
    <3>1. CASE d = c
      <4>1. Current(t).val \in Payloads /\ Null \in Payloads
        BY <1>3, CallValue, SMT DEF InCall, Payloads
      <4> QED BY <3>1, <4>1, <1>1, <1>2
    <3>2. CASE d # c
      BY <3>2, <1>8, Zenon DEF CellsFill
    <3> QED BY <3>1, <3>2
  <2>2. \A d \in Cells : d >= Newest(back)' => Untouched(d)'
    <3>1. \A d \in Cells : d >= Newest(back)' => d # c /\ d >= Newest(back)
      BY <1>4, <1>7, NewestBack, SMT DEF Cells
    <3> QED BY <3>1, <1>8, Zenon DEF CellsFill
  <2>3. ASSUME NEW u \in Threads, pc'[u] = "e_store"
        PROVE  k'[u] \in Cells /\ k'[u] < Newest(back)' /\ pc[u] = "e_store" /\ k[u] # c
               /\ Untouched(k[u])
    <3>1. u # t /\ pc[u] = "e_store"
      BY <2>3, <1>4
    <3> QED BY <3>1, <1>1, <1>3, <1>7, Zenon DEF ArrayTypeOK, CellsFill
  <2>4. \A d \in Cells, u \in Threads : pc'[u] = "e_store" /\ k'[u] = d => Untouched(d)'
    BY <2>3, <1>3, <1>8, Zenon
  <2>5. \A u, v \in Threads : pc'[u] = "e_store" /\ pc'[v] = "e_store" /\ u # v =>
                                    k'[u] # k'[v]
    BY <2>3, <1>3, Zenon DEF CellsFill
  <2>6. \A d \in Cells : \A j \in DOMAIN mem'[AR(d)] : mem'[AR(d)][j].val \in Payloads
    BY <2>1
  <2>7. \A u \in Threads : pc'[u] = "e_store" => k'[u] \in Cells /\ k'[u] < Newest(back)'
    BY <2>3
  <2> QED BY <2>2, <2>4, <2>5, <2>6, <2>7, CellsAfter
<1>10. OneItem'
  <2>1. ASSUME NEW d \in Cells, NEW i \in DOMAIN mem'[AR(d)], NEW j \in DOMAIN mem'[AR(d)],
               mem'[AR(d)][i].val # Null, mem'[AR(d)][j].val # Null
        PROVE  i = j
    <3>1. CASE d = c
      BY <2>1, <3>1, <1>1, <1>2
    <3>2. CASE d # c
      BY <2>1, <3>2, <1>8, Zenon DEF OneItem
    <3> QED BY <3>1, <3>2
  <2> QED BY <2>1 DEF OneItem, AR, Cells
<1>11. InOwnArrayCall'
  <2>1. "idle" \notin {"e_faa", "e_store"} /\ "idle" \notin {"d_back", "d_xchg"}
    OBVIOUS
  <2> QED BY <2>1, <1>3, CallGoesOn DEF ArrayTypeOK, InOwnArrayCall
<1>12. Indices'
  BY <1>3, <1>4, Zenon DEF Indices
<1>13. ArrayTypeOK'
  <2>1. ClientTypeOK(ArrayLabels)'
    <3>1. Ok \in Results
      BY SMT DEF Results
    <3> QED BY <3>1, <1>3, ReturnType DEF ArrayTypeOK
  <2>2. \A u \in Threads : pc'[u] \in {"e_store", "d_xchg"} => k'[u] \in Cells
    BY <1>3, <1>4, Zenon DEF ArrayTypeOK
  <2>3. \A u \in Threads : k'[u] \in 0 .. MAX /\ lback'[u] \in 0 .. Newest(back)'
    BY <1>3, <1>7, Zenon DEF ArrayTypeOK
  <2>4. Newest(back)' \in 0 .. MAX
    BY <1>7 DEF ArrayTypeOK
  <2> QED BY <2>1, <2>2, <2>3, <2>4, <1>2, <1>9, TypesAfter
<1>14. BackIsCount'
  <2>1. Counted' = Counted
    <3>1. \A u \in Threads : pc'[u] = "e_faa" <=> pc[u] = "e_faa"
      BY <1>3, <1>4, Zenon
    <3> QED BY <3>1, <1>3, CountedSame
  <2>2. Newest(back)' = Cardinality(Counted')
    BY <2>1, <1>7 DEF BackIsCount
  <2> QED BY <2>2 DEF BackIsCount, back, Counted, Enqueues
<1> QED BY <1>2, <1>5, <1>7, <1>9, <1>10, <1>11, <1>12, <1>13, <1>14

\* The exchange keeps the invariant: a cell that has no item yet stays so.
LEMMA ExchangeInv ==
    ASSUME EnoughCells, ArrayIInv, NEW t \in Threads, DeqExchange(t)
    PROVE  ArrayIInv'
<1> USE DEF ArrayIInv
<1>1. PICK c \in Cells, x \in Objects : c = k[t] /\ x = AR(k[t])
  <2>1. pc[t] = "d_xchg"
    BY DEF DeqExchange
  <2> QED BY <2>1, Apart, Zenon DEF ArrayTypeOK
<1>2. /\ MemoryType'
      /\ \A y \in Objects \ {x} : SameWrites(y)
      /\ \A j \in DOMAIN mem'[x] : mem'[x][j].val \in Payloads
      /\ Untouched(c) => Untouched(c)'
      /\ \A i, j \in DOMAIN mem'[x] :
                mem'[x][i].val # Null /\ mem'[x][j].val # Null => i = j
  BY <1>1, ExchangeValues
<1>3. \E got \in Payloads :
           /\ ViewsInTime' /\ OneWrite' /\ build' = build
           /\ IF got # Null THEN Return(t, got)
              ELSE IF k[t] + 1 < lback[t] THEN Goto(t, "d_xchg") ELSE Return(t, Empty)
  BY <1>1, ExchangeMemory DEF PutsNull
<1>4. PICK got \in Payloads :
           /\ ViewsInTime' /\ OneWrite' /\ build' = build
           /\ IF got # Null THEN Return(t, got)
              ELSE IF k[t] + 1 < lback[t] THEN Goto(t, "d_xchg") ELSE Return(t, Empty)
  BY <1>3
<1>5. /\ pc[t] = "d_xchg" /\ k' = [k EXCEPT ![t] = @ + 1] /\ lback' = lback
      /\ k[t] \in Nat /\ k'[t] = k[t] + 1 /\ \A u \in Threads \ {t} : k'[u] = k[u]
      /\ k' \in [Threads -> Nat]
  <2>1. pc[t] = "d_xchg" /\ k' = [k EXCEPT ![t] = @ + 1] /\ lback' = lback
    BY DEF DeqExchange
  <2> QED BY <2>1, SMT DEF Indices
<1>6. ip' = ip /\ \E l \in {"d_xchg", "idle"} :
            pc' = [pc EXCEPT ![t] = l] /\ (l = "d_xchg" => k[t] + 1 < lback[t])
  BY <1>4, Zenon DEF Goto, Return
<1>7. PICK l \in {"d_xchg", "idle"} :
            pc' = [pc EXCEPT ![t] = l] /\ (l = "d_xchg" => k[t] + 1 < lback[t])
  BY <1>6
<1>8. l # "e_store" /\ l # "e_faa" /\ pc'[t] = l /\ \A u \in Threads \ {t} : pc'[u] = pc[u]
  BY <1>7, Zenon DEF ArrayTypeOK, ClientTypeOK
<1>9. back \in Objects /\ \A d \in Cells : AR(d) \in Objects /\ AR(d) # back
      /\ (d # c => AR(d) # x)
  BY <1>1, Apart
<1>10. BackCounts' /\ Newest(back)' = Newest(back)
  <2>1. SameWrites(back)
    BY <1>1, <1>2, <1>9
  <2> QED BY <2>1, <1>2, <1>4, SameBack
<1>11. ASSUME NEW d \in Cells, d # c
       PROVE  /\ DOMAIN mem'[AR(d)] = DOMAIN mem[AR(d)]
              /\ \A j \in DOMAIN mem[AR(d)] : mem'[AR(d)][j].val = mem[AR(d)][j].val
              /\ Untouched(d)' <=> Untouched(d)
  <2>1. SameWrites(AR(d))
    BY <1>2, <1>9, <1>11
  <2> QED BY <2>1, <1>2, SameCell
<1>12. \A d \in Cells : Untouched(d) => Untouched(d)'
  BY <1>2, <1>11
<1>13. CellsFill'
  <2>1. \A d \in Cells : \A j \in DOMAIN mem'[AR(d)] : mem'[AR(d)][j].val \in Payloads
    <3> SUFFICES ASSUME NEW d \in Cells, NEW j \in DOMAIN mem'[AR(d)]
                 PROVE  mem'[AR(d)][j].val \in Payloads
      OBVIOUS
    <3>1. CASE d = c
      BY <3>1, <1>1, <1>2
    <3>2. CASE d # c
      BY <3>2, <1>11, Zenon DEF CellsFill
    <3> QED BY <3>1, <3>2
  <2>2. \A d \in Cells : d >= Newest(back)' => Untouched(d)'
    BY <1>10, <1>12, Zenon DEF CellsFill
  <2>3. ASSUME NEW u \in Threads, pc'[u] = "e_store"
        PROVE  k'[u] = k[u] /\ k[u] \in Cells /\ k[u] < Newest(back)' /\ pc[u] = "e_store"
               /\ Untouched(k[u])
    <3>1. u # t /\ pc[u] = "e_store"
      BY <2>3, <1>8
    <3> QED BY <3>1, <1>5, <1>10, Zenon DEF ArrayTypeOK, CellsFill
  <2>4. \A d \in Cells, u \in Threads : pc'[u] = "e_store" /\ k'[u] = d => Untouched(d)'
    BY <2>3, <1>12, Zenon
  <2>5. \A u, v \in Threads : pc'[u] = "e_store" /\ pc'[v] = "e_store" /\ u # v =>
                                    k'[u] # k'[v]
    BY <2>3, Zenon DEF CellsFill
  <2>6. \A u \in Threads : pc'[u] = "e_store" => k'[u] \in Cells /\ k'[u] < Newest(back)'
    BY <2>3, Zenon
  <2> QED BY <2>1, <2>2, <2>4, <2>5, <2>6, CellsAfter
<1>14. OneItem'
  <2>1. ASSUME NEW d \in Cells, NEW i \in DOMAIN mem'[AR(d)], NEW j \in DOMAIN mem'[AR(d)],
               mem'[AR(d)][i].val # Null, mem'[AR(d)][j].val # Null
        PROVE  i = j
    <3>1. CASE d = c
      BY <2>1, <3>1, <1>1, <1>2
    <3>2. CASE d # c
      BY <2>1, <3>2, <1>11, Zenon DEF OneItem
    <3> QED BY <3>1, <3>2
  <2> QED BY <2>1 DEF OneItem, AR, Cells
<1>15. InOwnArrayCall'
  <2>1. pc[t] \in {"d_back", "d_xchg"} /\ l \notin {"e_faa", "e_store"}
    BY <1>5, <1>8, <1>7
  <2> QED BY <2>1, <1>6, <1>7, CallGoesOn DEF ArrayTypeOK, InOwnArrayCall
<1>16. Indices'
  <2>1. \A u \in Threads : pc'[u] = "d_xchg" => k'[u] < lback'[u]
    BY <1>5, <1>7, <1>8, Zenon DEF Indices
  <2> QED BY <2>1, <1>5 DEF Indices
<1>17. ArrayTypeOK'
  <2>1. ClientTypeOK(ArrayLabels)'
    <3>1. InCall(t) /\ "d_xchg" \in ArrayLabels /\ Empty \in Results /\ got \in Results
      BY <1>5, SMT DEF InCall, ArrayLabels, Results
    <3> QED BY <3>1, <1>4, GotoType, ReturnType DEF ArrayTypeOK
  <2>2. k[t] + 1 \in 0 .. MAX /\ (k[t] + 1 < lback[t] => k[t] + 1 \in Cells)
    <3>1. lback[t] \in 0 .. Newest(back) /\ Newest(back) \in 0 .. MAX
      BY DEF ArrayTypeOK
    <3> QED BY <3>1, <1>1, SMT DEF Cells, EnoughCells
  <2>3. \A u \in Threads : pc'[u] \in {"e_store", "d_xchg"} => k'[u] \in Cells
    <3>1. CASE l = "d_xchg"
      BY <3>1, <2>2, <1>5, <1>7, <1>8, Zenon DEF ArrayTypeOK
    <3>2. CASE l = "idle"
      BY <3>2, <1>5, <1>8, Zenon DEF ArrayTypeOK
    <3> QED BY <3>1, <3>2
  <2>4. \A u \in Threads : k'[u] \in 0 .. MAX /\ lback'[u] \in 0 .. Newest(back)'
    BY <2>2, <1>5, <1>10, Zenon DEF ArrayTypeOK
  <2>5. Newest(back)' \in 0 .. MAX
    BY <1>10 DEF ArrayTypeOK
  <2> QED BY <2>1, <2>3, <2>4, <2>5, <1>2, <1>13, TypesAfter
<1>18. BackIsCount'
  <2>1. Counted' = Counted
    <3>1. \A u \in Threads : pc'[u] = "e_faa" <=> pc[u] = "e_faa"
      BY <1>5, <1>8, Zenon
    <3> QED BY <3>1, <1>6, CountedSame
  <2>2. Newest(back)' = Cardinality(Counted')
    BY <2>1, <1>10 DEF BackIsCount
  <2> QED BY <2>2 DEF BackIsCount, back, Counted, Enqueues
<1> QED BY <1>2, <1>4, <1>10, <1>13, <1>14, <1>15, <1>16, <1>17, <1>18

\* Every step keeps the invariant.
LEMMA ArrayStepInv ==
    ASSUME EnoughCells, ArrayIInv, [ArrayNext]_arrayVars
    PROVE  ArrayIInv'
<1>1. CASE UNCHANGED arrayVars
  <2>1. /\ MemoryType' /\ ViewsInTime' /\ OneWrite' /\ InOwnArrayCall' /\ Indices'
    BY <1>1 DEF arrayVars, ArrayIInv, MemoryType, ViewsInTime, Known, ViewInTime, OneWrite,
                Interleaved, InOwnArrayCall, InCallOf, Current, Indices, Objects, Cells,
                Locations, Views, Writes, back
  <2>2. ArrayTypeOK'
    BY <1>1 DEF arrayVars, ArrayIInv, ArrayTypeOK, ClientTypeOK, InCall, Newest, back, Cells
  <2>3. BackCounts' /\ BackIsCount' /\ CellsFill' /\ OneItem'
    BY <1>1 DEF arrayVars, ArrayIInv, BackCounts, BackIsCount, Counted, HasIndex, Enqueues,
                CellsFill, OneItem, Untouched, Newest, back, Cells, AR, Interleaved, Payloads
  <2> QED BY <2>1, <2>2, <2>3 DEF ArrayIInv
<1>2. ASSUME NEW t \in Threads, ArrayStep(t)
      PROVE  ArrayIInv'
  BY <1>2, CallInv, LoadInv, FetchAddInv, StoreInv, ExchangeInv DEF ArrayStep
<1> QED BY <1>1, <1>2 DEF ArrayNext, ArrayDone

\* The indices of the calls are cells of AR, and each enqueuer's is its own: no
\* two enqueues of hwqueue-wrapper.h ever store in the same cell, and no index
\* is ever outside AR, for every test that has no more enqueues than MAX.
THEOREM ArrayCorrect ==
    ASSUME EnoughCells
    PROVE  ArraySpec => []ArrayInv
<1>1. ArrayInit => ArrayIInv
  BY ArrayStarts
<1>2. ArrayIInv /\ [ArrayNext]_arrayVars => ArrayIInv'
  BY ArrayStepInv
<1>3. ArrayIInv => ArrayInv
  <2> SUFFICES ASSUME ArrayIInv PROVE ClaimedCells
    BY DEF ArrayInv, ArrayIInv
  <2> QED BY Zenon DEF ArrayIInv, CellsFill, Untouched, ClaimedCells
<1> QED BY <1>1, <1>2, <1>3, PTL DEF ArraySpec

-----------------------------------------------------------------------------
\* What the payloads' readers know.

\* v is in cell c, or about to be stored there.
ItemOf(c, v) ==
    \/ \E t \in Threads : pc[t] = "e_store" /\ k[t] = c /\ v = Current(t).val
    \/ v # Null /\ \E j \in DOMAIN mem[AR(c)] : v = mem[AR(c)][j].val

\* The view w has the payload v.
Has(w, v) == Place(w, Payload(v)) = 2

\* Whoever acquires an index knows the payloads of all items in the cells below it.
PublishedWithIndex ==
    \A c \in Cells, v \in Payloads : ItemOf(c, v) =>
        \A i \in DOMAIN mem[back] : i >= c + 2 => Has(mem[back][i].view, v)

\* An enqueuer has filled its item, and a dequeuer has what its index carries;
\* who has got an item knows its payload.
CallerKnows(t) ==
    /\ pc[t] \in {"e_faa", "e_store"} => Has(view[t], Current(t).val)
    /\ pc[t] = "d_xchg" =>
          /\ lback[t] + 1 \in DOMAIN mem[back]
          /\ \A v \in Payloads : Has(mem[back][lback[t] + 1].view, v) => Has(view[t], v)
ResultKnown(t) == ret[t] \in Vals => Has(view[t], ret[t])

PayloadsShared ==
    /\ PublishedWithIndex
    /\ \A t \in Threads : CallerKnows(t) /\ ResultKnown(t)
PayloadsInv == ~Interleaved => PayloadsShared

\* Nobody forgets a payload, and the writes to back carry what they carried.
PayloadsGrow ==
    \A v \in Payloads :
        /\ \A u \in Threads : Has(view[u], v) => Has(view'[u], v)
        /\ \A i \in DOMAIN mem[back] :
              /\ i \in DOMAIN mem'[back]
              /\ Has(mem'[back][i].view, v) <=> Has(mem[back][i].view, v)

\* A view that knows at least as much, and nothing that has not been, has the
\* payloads of the other.
LEMMA LargerHas ==
    ASSUME NEW w \in Views, NEW z \in Views, ViewInTime(z), NEW v \in Payloads,
           Place(w, Payload(v)) <= Place(z, Payload(v)), Has(w, v)
    PROVE  Has(z, v)
<1>1. Place(z, Payload(v)) \in Nat /\ Place(z, Payload(v)) <= 2
  BY ViewPlace DEF ViewInTime
<1> QED BY <1>1, SMT DEF Has

\* The steps that leave the memory alone.
LEMMA CallsGrow ==
    ASSUME ArrayIInv, ~Interleaved, MemoryType', mem' = mem, NEW t \in Threads,
           \A u \in Threads \ {t} : view'[u] = view[u], ViewInTime(view'[t]),
           \A y : Place(view[t], y) <= Place(view'[t], y)
    PROVE  PayloadsGrow
<1>1. view[t] \in Views /\ view'[t] \in Views
  BY DEF ArrayIInv, MemoryType, Views, Locations, Objects, Cells
<1>2. \A v \in Payloads : Has(view[t], v) => Has(view'[t], v)
  BY <1>1, LargerHas
<1>3. \A v \in Payloads, u \in Threads : Has(view[u], v) => Has(view'[u], v)
  BY <1>2, Zenon
<1> QED BY <1>3, Zenon DEF PayloadsGrow

\* The start of a call, and what an enqueuer has filled.
LEMMA CallGrow ==
    ASSUME ArrayIInv, ~Interleaved, NEW t \in Threads, EnqCall(t) \/ DeqCall(t)
    PROVE  PayloadsGrow /\ (EnqCall(t) => Has(view'[t], Current(t)'.val))
<1> USE DEF ArrayIInv
<1>1. CASE DeqCall(t)
  <2>1. PICK ts \in FlagsRead(t) : Starts(t, ts, Nothing)
    BY <1>1 DEF DeqCall
  <2>2. /\ MemoryType' /\ mem' = mem /\ ViewInTime(view'[t])
        /\ \A u \in Threads \ {t} : view'[u] = view[u]
        /\ \A y : Place(view[t], y) <= Place(view'[t], y)
    BY <2>1, CallMemory
  <2>3. ~EnqCall(t)
    BY <1>1, SMT DEF EnqCall, DeqCall, Invoke
  <2> QED BY <2>2, <2>3, CallsGrow
<1>2. CASE EnqCall(t)
  <2>1. /\ ip' = [ip EXCEPT ![t] = @ + 1] /\ ip[t] \in Nat /\ ip[t] + 1 <= Len(Script[t])
        /\ ip \in [Threads -> Nat]
    BY <1>2, SMT DEF EnqCall, Invoke, ArrayTypeOK, ClientTypeOK, ScriptAssumption
  <2>2. Current(t)'.val \in Payloads
    <3>1. ip'[t] \in 1 .. Len(Script[t]) /\ Script[t] \in Seq(Calls)
      <4>1. Script[t] \in Seq(Calls) /\ ip'[t] = ip[t] + 1
        BY <2>1, ScriptAssumption, Zenon
      <4> QED BY <2>1, <4>1, SMT
    <3>2. Current(t)' \in Calls
      BY <3>1, SMT DEF Current
    <3> QED BY <3>2, SMT DEF Calls
  <2>3. PICK v \in Payloads : v = Current(t)'.val
    BY <2>2
  <2>4. PICK ts \in FlagsRead(t) : Starts(t, ts, Filled(Payload(v)))
    BY <1>2, <2>3 DEF EnqCall
  <2>5. PICK own : own = Filled(Payload(v))
    BY Zenon
  <2>6. /\ MemoryType' /\ mem' = mem /\ ViewInTime(view'[t])
        /\ \A u \in Threads \ {t} : view'[u] = view[u]
        /\ \A w \in {own, view[t]} : \A y : Place(w, y) <= Place(view'[t], y)
    BY <2>4, <2>5, CallMemory
  <2>7. own = At(Payload(v), 2)
    BY <2>5, Zenon DEF Filled
  <2>8. own \in Views /\ Has(own, v)
    <3>1. Payload(v) \in Locations /\ 2 \in Nat \ {0}
      BY Apart, SMT
    <3> QED BY <2>7, <3>1, OnePlaceView, Zenon DEF Has
  <2>9. Has(view'[t], v)
    <3>1. view'[t] \in Views
      BY <2>6 DEF MemoryType, Views, Locations, Objects, Cells
    <3> QED BY <2>6, <2>8, <3>1, LargerHas
  <2>10. Has(view'[t], Current(t)'.val)
    BY <2>3, <2>9
  <2>11. PayloadsGrow
    BY <2>6, CallsGrow
  <2> QED BY <2>10, <2>11
<1> QED BY <1>1, <1>2

\* The load of back: what the index carries is known to the dequeuer.
LEMMA LoadGrow ==
    ASSUME ArrayIInv, ~Interleaved, NEW t \in Threads, DeqLoadBack(t)
    PROVE  /\ PayloadsGrow
           /\ lback'[t] + 1 \in DOMAIN mem[back]
           /\ \A v \in Payloads : Has(mem[back][lback'[t] + 1].view, v) => Has(view'[t], v)
<1> USE DEF ArrayIInv
<1>1. PICK i \in 1 .. Len(mem[back]) :
            /\ MemoryType' /\ mem' = mem
            /\ \A u \in Threads \ {t} : view'[u] = view[u]
            /\ lback'[t] = i - 1 /\ ViewInTime(view'[t])
            /\ \A y : /\ Place(view[t], y) <= Place(view'[t], y)
                      /\ Place(mem[back][i].view, y) <= Place(view'[t], y)
  BY LoadMemory
<1>2. i \in DOMAIN mem[back] /\ lback'[t] + 1 = i /\ mem[back][i].view \in Views
  <2>1. back \in Objects
    BY Apart
  <2>2. i \in DOMAIN mem[back] /\ lback'[t] + 1 = i
    BY <1>1, <2>1, LastWrite, SMT
  <2>3. mem[back][i] \in Writes
    BY <2>1, <2>2, LastWrite
  <2> QED BY <2>2, <2>3, Zenon DEF Writes
<1>3. view'[t] \in Views
  BY <1>1 DEF MemoryType, Views, Locations, Objects, Cells
<1>4. \A v \in Payloads : Has(mem[back][i].view, v) => Has(view'[t], v)
  BY <1>1, <1>2, <1>3, LargerHas
<1>5. PayloadsGrow
  BY <1>1, CallsGrow
<1> QED BY <1>2, <1>4, <1>5

\* The fetch-and-add: the new index carries what the last one did, and what its
\* thread knows.
LEMMA FetchAddGrow ==
    ASSUME ArrayIInv, ~Interleaved, NEW t \in Threads, EnqFetchAdd(t)
    PROVE  /\ PayloadsGrow
           /\ Len(mem[back]) \in DOMAIN mem[back]
           /\ DOMAIN mem'[back] = DOMAIN mem[back] \cup {Len(mem[back]) + 1}
           /\ \A v \in Payloads :
                Has(view[t], v) \/ Has(mem[back][Len(mem[back])].view, v) =>
                    Has(mem'[back][Len(mem[back]) + 1].view, v)
<1> USE DEF ArrayIInv
<1> DEFINE n == Len(mem[back])
           last == mem[back][n].view
<1>1. /\ MemoryType' /\ ViewsInTime'
      /\ \A i \in DOMAIN mem[back] : mem'[back][i] = mem[back][i]
      /\ Len(mem'[back]) = n + 1
      /\ mem'[back][n + 1].view = Join(last, view'[t])
      /\ \A y : Place(view'[t], y) = IF y = back THEN n + 1 ELSE Place(view[t], y)
      /\ \A u \in Threads \ {t} : view'[u] = view[u]
  BY FetchAddMemory
<1>2. /\ back \in Objects /\ n \in Nat /\ DOMAIN mem[back] = 1 .. n /\ n \in DOMAIN mem[back]
      /\ mem[back][n] \in Writes
  BY Apart, LastWrite
<1>3. mem'[back] \in Seq(Writes) /\ view'[t] \in Views /\ last \in Views
  <2>1. last \in Views
    BY <1>2, Zenon DEF Writes
  <2> QED BY <2>1, <1>1, <1>2 DEF MemoryType, Objects, Cells, Writes, Views, Locations
<1>4. DOMAIN mem'[back] = 1 .. n + 1 /\ DOMAIN mem'[back] = DOMAIN mem[back] \cup {n + 1}
  BY <1>1, <1>2, <1>3, SMT
<1>5. \A v \in Payloads : Payload(v) # back
  BY Apart
<1>6. PayloadsGrow
  <2>1. \A v \in Payloads, u \in Threads : Has(view[u], v) => Has(view'[u], v)
    BY <1>1, <1>5, Zenon DEF Has
  <2>2. \A i \in DOMAIN mem[back] : i \in DOMAIN mem'[back]
    BY <1>4, Zenon
  <2> HIDE DEF n, last
  <2> QED BY <1>1, <2>1, <2>2, Zenon DEF PayloadsGrow
<1>7. ASSUME NEW v \in Payloads, Has(view[t], v) \/ Has(last, v)
      PROVE  Has(mem'[back][n + 1].view, v)
  <2>1. /\ Join(last, view'[t]) \in Views
        /\ Place(Join(last, view'[t]), Payload(v)) =
                IF Place(last, Payload(v)) >= Place(view'[t], Payload(v))
                THEN Place(last, Payload(v)) ELSE Place(view'[t], Payload(v))
    <3> HIDE DEF last
    <3> QED BY <1>3, JoinView
  <2>2. Place(view'[t], Payload(v)) = Place(view[t], Payload(v))
    BY <1>1, <1>5
  <2>3. Place(last, Payload(v)) \in Nat /\ Place(view'[t], Payload(v)) \in Nat
    <3> HIDE DEF last
    <3> QED BY <1>3, ViewPlace
  <2>4. Place(last, Payload(v)) <= 2 /\ Place(view'[t], Payload(v)) <= 2
    <3>1. ViewInTime(last) /\ ViewInTime(view[t])
      <4>1. Known(last) /\ Known(view[t]) /\ view[t] \in Views
        BY <1>2, Zenon DEF Known, MemoryType
      <4> QED BY <4>1, <1>3, Zenon DEF ViewsInTime
    <3> QED BY <3>1, <2>2 DEF ViewInTime
  <2> HIDE DEF last
  <2>5. Place(Join(last, view'[t]), Payload(v)) = 2
    BY <1>7, <2>1, <2>2, <2>3, <2>4, SMT DEF Has
  <2> QED BY <2>5, <1>1 DEF Has
<1> QED BY <1>2, <1>4, <1>6, <1>7

\* The store of an item.
LEMMA StoreGrow ==
    ASSUME ArrayIInv, ~Interleaved, NEW t \in Threads, EnqStore(t)
    PROVE  PayloadsGrow /\ mem'[back] = mem[back]
<1> USE DEF ArrayIInv
<1>1. PICK x, n : x = AR(k[t]) /\ n = Len(mem[x])
  BY Zenon
<1>2. k[t] \in Cells /\ ItemStored(t, x, n)
  BY <1>1, StoreMemory
<1>3. x # back /\ back \in Objects /\ \A v \in Payloads : Payload(v) # x
  BY <1>1, <1>2, Apart
<1>4. mem'[back] = mem[back]
  BY <1>2, <1>3, Zenon DEF ItemStored
<1>5. \A v \in Payloads, u \in Threads : Has(view[u], v) => Has(view'[u], v)
  BY <1>2, <1>3, Zenon DEF ItemStored, Has
<1> QED BY <1>4, <1>5, Zenon DEF PayloadsGrow

\* The exchange.
LEMMA ExchangeGrow ==
    ASSUME ArrayIInv, ~Interleaved, NEW t \in Threads, DeqExchange(t)
    PROVE  PayloadsGrow /\ DOMAIN mem'[back] = DOMAIN mem[back]
<1> USE DEF ArrayIInv
<1>1. PICK x : x = AR(k[t])
  BY Zenon
<1>2. PICK p \in 2 .. Len(mem[x]) + 1 :
        /\ k[t] \in Cells /\ Kept(x, p)
        /\ \A y : Place(view'[t], y) = IF y = x THEN p ELSE Place(view[t], y)
        /\ \A u \in Threads \ {t} : view'[u] = Moved(view[u], x, p)
        /\ MemoryType'
  BY <1>1, ExchangeMemory DEF PutsNull
<1>3. /\ x # back /\ back \in Objects /\ x \in Objects /\ \A v \in Payloads : Payload(v) # x
      /\ Len(mem[x]) \in Nat /\ p \in Nat /\ p >= 2
  <2>1. x # back /\ back \in Objects /\ x \in Objects /\ \A v \in Payloads : Payload(v) # x
    BY <1>1, <1>2, Apart
  <2>2. Len(mem[x]) \in Nat
    BY <2>1, LastWrite
  <2> QED BY <2>1, <2>2, SMT
<1>4. \A w \in Views, v \in Payloads : Place(Moved(w, x, p), Payload(v)) = Place(w, Payload(v))
  BY <1>3, MovedPlaces
<1>5. ASSUME NEW v \in Payloads, NEW u \in Threads, Has(view[u], v)
      PROVE  Has(view'[u], v)
  <2>1. CASE u = t
    BY <2>1, <1>2, <1>3, <1>5, Zenon DEF Has
  <2>2. CASE u # t
    <3>1. view[u] \in Views
      BY DEF MemoryType
    <3> QED BY <2>2, <3>1, <1>2, <1>4, <1>5, Zenon DEF Has
  <2> QED BY <2>1, <2>2
<1>6. ASSUME NEW i \in DOMAIN mem[back]
      PROVE  /\ mem[back][i].view \in Views
             /\ mem'[back][i].view = Moved(mem[back][i].view, x, p)
  <2>1. mem[back][i] \in Writes
    BY <1>3, LastWrite
  <2>2. NewPlace(back, i, x, p) = i
    BY <1>3, Zenon DEF NewPlace
  <2>3. mem'[back][i] = [mem[back][i] EXCEPT !.view = Moved(@, x, p)]
    BY <1>2, <1>3, <2>2 DEF Kept
  <2> QED BY <2>1, <2>3, Zenon DEF Writes
<1>7. DOMAIN mem'[back] = DOMAIN mem[back]
  <2>1. Len(mem'[back]) = Len(mem[back])
    BY <1>2, <1>3 DEF Kept
  <2>2. mem'[back] \in Seq(Writes) /\ mem[back] \in Seq(Writes)
    BY <1>2, <1>3 DEF MemoryType, Objects, Cells, Writes, Views, Locations
  <2> QED BY <2>1, <2>2, SMT
<1>8. \A v \in Payloads, i \in DOMAIN mem[back] :
            Has(mem'[back][i].view, v) <=> Has(mem[back][i].view, v)
  BY <1>4, <1>6, Zenon DEF Has
<1> QED BY <1>5, <1>7, <1>8, Zenon DEF PayloadsGrow

-----------------------------------------------------------------------------
\* The payloads of the items are known with the index.

\* What is in the cells after a step was theirs before it.
CellItems ==
    \A c \in Cells, v \in Payloads : \A j \in DOMAIN mem'[AR(c)] :
        v # Null /\ v = mem'[AR(c)][j].val => ItemOf(c, v)
\* No cell gets an item that was not its own.
ItemsStay == \A c \in Cells, v \in Payloads : ItemOf(c, v)' => ItemOf(c, v)

\* Where the writes to a cell keep their values, so do its items.
LEMMA SameItems ==
    ASSUME MemoryType, MemoryType', NEW c \in Cells, SameWrites(AR(c))
    PROVE  \A v \in Payloads : \A j \in DOMAIN mem'[AR(c)] :
                v # Null /\ v = mem'[AR(c)][j].val => ItemOf(c, v)
<1>1. /\ DOMAIN mem'[AR(c)] = DOMAIN mem[AR(c)]
      /\ \A j \in DOMAIN mem[AR(c)] : mem'[AR(c)][j].val = mem[AR(c)][j].val
  BY SameCell
<1> QED BY <1>1, Zenon DEF ItemOf

\* An item is one of the cells or of a thread about to store it.
LEMMA ItemsKept ==
    ASSUME CellItems,
           \A t \in Threads : pc'[t] = "e_store" =>
                pc[t] = "e_store" /\ k'[t] = k[t] /\ ip'[t] = ip[t]
    PROVE  ItemsStay
<1> SUFFICES ASSUME NEW c \in Cells, NEW v \in Payloads, ItemOf(c, v)' PROVE ItemOf(c, v)
  BY Zenon DEF ItemsStay
<1>1. CASE \E t \in Threads : pc'[t] = "e_store" /\ k'[t] = c /\ v = Current(t)'.val
  <2>1. PICK t \in Threads : pc'[t] = "e_store" /\ k'[t] = c /\ v = Current(t)'.val
    BY <1>1
  <2>2. Current(t)' = Current(t)
    BY <2>1, Zenon DEF Current
  <2> QED BY <2>1, <2>2, Zenon DEF ItemOf
<1>2. CASE v # Null /\ \E j \in DOMAIN mem'[AR(c)] : v = mem'[AR(c)][j].val
  BY <1>2, Zenon DEF CellItems
<1> QED BY <1>1, <1>2, Zenon DEF ItemOf, AR

\* A step that takes no index leaves the items as well published as they were.
LEMMA PublishedStays ==
    ASSUME PublishedWithIndex, PayloadsGrow, ItemsStay, DOMAIN mem'[back] = DOMAIN mem[back]
    PROVE  PublishedWithIndex'
<1>1. \A c \in Cells, v \in Payloads : ItemOf(c, v)' =>
            \A i \in DOMAIN mem'[back] : i >= c + 2 => Has(mem'[back][i].view, v)
  BY Zenon DEF PublishedWithIndex, PayloadsGrow, ItemsStay
<1> QED BY <1>1, Zenon DEF PublishedWithIndex, Has, back

\* A thread keeps what it knows of the call it is in.
LEMMA CallerStays ==
    ASSUME ArrayIInv, PayloadsGrow, NEW t \in Threads, CallerKnows(t),
           ip'[t] = ip[t], lback'[t] = lback[t],
           pc'[t] \in {"e_faa", "e_store"} => pc[t] \in {"e_faa", "e_store"},
           pc'[t] = "d_xchg" => pc[t] = "d_xchg"
    PROVE  CallerKnows(t)'
<1>1. pc'[t] \in {"e_faa", "e_store"} => Has(view'[t], Current(t)'.val)
  <2> SUFFICES ASSUME pc[t] \in {"e_faa", "e_store"} PROVE Has(view'[t], Current(t)'.val)
    BY Zenon
  <2>1. Current(t).val \in Payloads
    BY CallValue, SMT DEF InCall
  <2>2. Current(t)' = Current(t)
    BY Zenon DEF Current
  <2> QED BY <2>1, <2>2, Zenon DEF CallerKnows, PayloadsGrow
<1>2. pc'[t] = "d_xchg" =>
          /\ lback[t] + 1 \in DOMAIN mem'[back]
          /\ \A v \in Payloads : Has(mem'[back][lback[t] + 1].view, v) => Has(view'[t], v)
  <2> SUFFICES ASSUME pc[t] = "d_xchg"
               PROVE  /\ lback[t] + 1 \in DOMAIN mem'[back]
                      /\ \A v \in Payloads :
                            Has(mem'[back][lback[t] + 1].view, v) => Has(view'[t], v)
    BY Zenon
  <2>0. \E v : v \in Payloads
    BY DEF Payloads
  <2>1. PICK i : i = lback[t] + 1
    BY Zenon
  <2>2. i \in DOMAIN mem[back] /\ \A v \in Payloads : Has(mem[back][i].view, v) => Has(view[t], v)
    BY <2>1, Zenon DEF CallerKnows
  <2> QED BY <2>0, <2>1, <2>2, Zenon DEF PayloadsGrow
<1> QED BY <1>1, <1>2, Zenon DEF CallerKnows, Has, back

\* And what it knows of its result.
LEMMA ResultStays ==
    ASSUME PayloadsGrow, NEW t \in Threads, ResultKnown(t), ret'[t] = ret[t]
    PROVE  ResultKnown(t)'
<1>1. ret[t] \in Vals => ret[t] \in Payloads
  BY DEF Payloads
<1>2. ret'[t] \in Vals => Has(view'[t], ret'[t])
  BY <1>1, Zenon DEF ResultKnown, PayloadsGrow
<1> QED BY <1>2, Zenon DEF ResultKnown, Has

\* Results of another kind are no items.
LEMMA NoItem ==
    ASSUME ItemsApart, NEW t \in Threads, ret'[t] \in {Null, Ok, Empty, NoRet}
    PROVE  ResultKnown(t)'
<1>1. ret'[t] \notin Vals
  BY DEF ItemsApart
<1> QED BY <1>1, Zenon DEF ResultKnown

\* What the other threads know.
LEMMA OthersKnow ==
    ASSUME ArrayIInv, PayloadsGrow, NEW t \in Threads,
           \A u \in Threads : CallerKnows(u) /\ ResultKnown(u),
           \A u \in Threads \ {t} : ip'[u] = ip[u] /\ pc'[u] = pc[u] /\ ret'[u] = ret[u]
                                    /\ lback'[u] = lback[u]
    PROVE  \A u \in Threads \ {t} : CallerKnows(u)' /\ ResultKnown(u)'
<1> SUFFICES ASSUME NEW u \in Threads, u # t PROVE CallerKnows(u)' /\ ResultKnown(u)'
  BY Zenon
<1>1. CallerKnows(u)'
  BY CallerStays
<1>2. ResultKnown(u)'
  BY ResultStays
<1> QED BY <1>1, <1>2

\* What is left of the client's variables by a step of t.
LEMMA ClientSteps ==
    ASSUME ArrayTypeOK, NEW t \in Threads
    PROVE  /\ \A l : Goto(t, l) => /\ pc'[t] = l /\ ip' = ip /\ ret' = ret
                                   /\ \A u \in Threads \ {t} : pc'[u] = pc[u]
           /\ \A r : Return(t, r) => /\ pc'[t] = "idle" /\ ip' = ip /\ ret'[t] = r
                                     /\ \A u \in Threads \ {t} : pc'[u] = pc[u] /\ ret'[u] = ret[u]
           /\ \A kind, entry : Invoke(t, kind, entry) =>
                                  /\ pc'[t] = entry /\ ret' = ret
                                  /\ \A u \in Threads \ {t} : pc'[u] = pc[u] /\ ip'[u] = ip[u]
<1>1. /\ pc \in [Threads -> ArrayLabels \cup {"idle", "blocked", "assert"}]
      /\ ret \in [Threads -> Results] /\ ip \in [Threads -> Nat]
  BY Zenon DEF ArrayTypeOK, ClientTypeOK
<1> QED BY <1>1, Zenon DEF Goto, Return, Invoke

\* A call begins at its first access.
LEMMA InvokeEnters ==
    ASSUME ArrayTypeOK, NEW t \in Threads
    PROVE  \A kind, entry : Invoke(t, kind, entry) => pc'[t] = entry
<1>1. pc \in [Threads -> ArrayLabels \cup {"idle", "blocked", "assert"}]
  BY DEF ArrayTypeOK, ClientTypeOK
<1> QED BY <1>1, Zenon DEF Invoke

\* What is to be shown after a step of t.
LEMMA SharedAfter ==
    ASSUME PublishedWithIndex', NEW t \in Threads, CallerKnows(t)', ResultKnown(t)',
           \A u \in Threads \ {t} : CallerKnows(u)' /\ ResultKnown(u)'
    PROVE  PayloadsShared'
<1>1. ASSUME NEW u \in Threads PROVE CallerKnows(u)' /\ ResultKnown(u)'
  <2>1. CASE u = t
    BY <2>1
  <2>2. CASE u # t
    BY <2>2
  <2> QED BY <2>1, <2>2
<1> QED BY <1>1 DEF PayloadsShared

\* Where the memory stays as it is, so do the items.
LEMMA SameMemoryItems ==
    ASSUME ArrayIInv, MemoryType', mem' = mem
    PROVE  CellItems /\ DOMAIN mem'[back] = DOMAIN mem[back]
<1>1. MemoryType /\ \A c \in Cells : SameWrites(AR(c))
  BY Zenon DEF SameWrites, ArrayIInv
<1>2. ASSUME NEW c \in Cells
      PROVE  \A v \in Payloads : \A j \in DOMAIN mem'[AR(c)] :
                    v # Null /\ v = mem'[AR(c)][j].val => ItemOf(c, v)
  BY <1>1, SameItems
<1> QED BY <1>2, Zenon DEF CellItems

\* The start of a call.
LEMMA CallPayloads ==
    ASSUME ArrayIInv, ArrayIInv', ~Interleaved, PayloadsShared,
           NEW t \in Threads, EnqCall(t) \/ DeqCall(t)
    PROVE  PayloadsShared'
<1>1. PayloadsGrow /\ (EnqCall(t) => Has(view'[t], Current(t)'.val))
  BY CallGrow
<1>2. mem' = mem /\ lback' = lback
  BY Zenon DEF EnqCall, DeqCall, Starts
<1>3. /\ (EnqCall(t) /\ pc'[t] = "e_faa") \/ pc'[t] = "d_back"
      /\ ret' = ret
      /\ \A u \in Threads \ {t} : pc'[u] = pc[u] /\ ip'[u] = ip[u]
  <2>1. ArrayTypeOK
    BY DEF ArrayIInv
  <2>2. ASSUME NEW kind, NEW entry, Invoke(t, kind, entry)
        PROVE  /\ pc'[t] = entry /\ ret' = ret
               /\ \A u \in Threads \ {t} : pc'[u] = pc[u] /\ ip'[u] = ip[u]
    BY <2>1, <2>2, ClientSteps, Zenon
  <2>3. CASE EnqCall(t)
    <3>1. Invoke(t, "enq", "e_faa")
      BY <2>3 DEF EnqCall
    <3> QED BY <2>3, <3>1, <2>2
  <2>4. CASE DeqCall(t)
    <3>1. Invoke(t, "deq", "d_back")
      BY <2>4 DEF DeqCall
    <3> QED BY <3>1, <2>2
  <2> QED BY <2>3, <2>4
<1>4. ItemsStay /\ DOMAIN mem'[back] = DOMAIN mem[back]
  <2>1. CellItems /\ DOMAIN mem'[back] = DOMAIN mem[back]
    BY <1>2, SameMemoryItems DEF ArrayIInv
  <2>2. k' = k
    BY DEF EnqCall, DeqCall
  <2>3. \A u \in Threads : pc'[u] = "e_store" =>
                pc[u] = "e_store" /\ k'[u] = k[u] /\ ip'[u] = ip[u]
    <3>1. pc'[t] # "e_store"
      BY <1>3
    <3> QED BY <3>1, <1>3, <2>2, Zenon
  <2> QED BY <2>1, <2>3, ItemsKept
<1>5. PublishedWithIndex'
  BY <1>1, <1>4, PublishedStays DEF PayloadsShared
<1>6. \A u \in Threads : CallerKnows(u) /\ ResultKnown(u)
  BY DEF PayloadsShared
<1>7. \A u \in Threads \ {t} : CallerKnows(u)' /\ ResultKnown(u)'
  BY <1>1, <1>2, <1>3, <1>6, OthersKnow
<1>8. CallerKnows(t)'
  BY <1>1, <1>3 DEF CallerKnows
<1>9. ResultKnown(t)'
  BY <1>1, <1>3, <1>6, ResultStays
<1> QED BY <1>5, <1>7, <1>8, <1>9, SharedAfter

\* The load of back.
LEMMA LoadPayloads ==
    ASSUME ItemsApart, ArrayIInv, ArrayIInv', ~Interleaved, PayloadsShared,
           NEW t \in Threads, DeqLoadBack(t)
    PROVE  PayloadsShared'
<1>1. /\ PayloadsGrow
      /\ lback'[t] + 1 \in DOMAIN mem[back]
      /\ \A v \in Payloads : Has(mem[back][lback'[t] + 1].view, v) => Has(view'[t], v)
  BY LoadGrow
<1>2. /\ mem' = mem /\ \A u \in Threads \ {t} : lback'[u] = lback[u]
      /\ IF 0 < lback'[t] THEN Goto(t, "d_xchg") ELSE Return(t, Empty)
  BY LoadMemory
<1>3. /\ ip' = ip /\ \A u \in Threads \ {t} : pc'[u] = pc[u] /\ ret'[u] = ret[u]
      /\ \/ pc'[t] = "d_xchg" /\ ret'[t] = ret[t]
         \/ pc'[t] = "idle" /\ ret'[t] = Empty
  <2>1. ArrayTypeOK
    BY DEF ArrayIInv
  <2> QED BY <1>2, <2>1, ClientSteps, Zenon
<1>4. ItemsStay /\ DOMAIN mem'[back] = DOMAIN mem[back]
  <2>1. CellItems /\ DOMAIN mem'[back] = DOMAIN mem[back]
    BY <1>2, SameMemoryItems DEF ArrayIInv
  <2>2. \A u \in Threads \ {t} : k'[u] = k[u]
    BY Zenon DEF DeqLoadBack, ArrayIInv, Indices
  <2>3. \A u \in Threads : pc'[u] = "e_store" =>
                pc[u] = "e_store" /\ k'[u] = k[u] /\ ip'[u] = ip[u]
    <3>1. pc'[t] # "e_store"
      BY <1>3
    <3> QED BY <3>1, <1>3, <2>2, Zenon
  <2> QED BY <2>1, <2>3, ItemsKept
<1>5. PublishedWithIndex'
  BY <1>1, <1>4, PublishedStays DEF PayloadsShared
<1>6. \A u \in Threads : CallerKnows(u) /\ ResultKnown(u)
  BY DEF PayloadsShared
<1>7. \A u \in Threads \ {t} : CallerKnows(u)' /\ ResultKnown(u)'
  BY <1>1, <1>2, <1>3, <1>6, OthersKnow
<1>8. CallerKnows(t)'
  <2>1. pc'[t] \notin {"e_faa", "e_store"}
    BY <1>3
  <2> QED BY <1>1, <1>2, <2>1, Zenon DEF CallerKnows, Has, back
<1>9. ResultKnown(t)'
  BY <1>1, <1>3, <1>6, ResultStays, NoItem
<1> QED BY <1>5, <1>7, <1>8, <1>9, SharedAfter

\* The fetch-and-add: the new index carries the payload of its own item, and of
\* all items in the cells before.
LEMMA FetchAddPayloads ==
    ASSUME ArrayIInv, ArrayIInv', ~Interleaved, PayloadsShared,
           NEW t \in Threads, EnqFetchAdd(t)
    PROVE  PayloadsShared'
<1> DEFINE n == Len(mem[back])
<1>1. /\ PayloadsGrow
      /\ n \in DOMAIN mem[back] /\ DOMAIN mem'[back] = DOMAIN mem[back] \cup {n + 1}
      /\ \A v \in Payloads : Has(view[t], v) \/ Has(mem[back][n].view, v) =>
                                Has(mem'[back][n + 1].view, v)
  BY FetchAddGrow
<1>2. /\ Newest(back) \in Nat /\ k' = [k EXCEPT ![t] = Newest(back)]
      /\ \A c \in Cells : mem'[AR(c)] = mem[AR(c)]
  BY FetchAddMemory
<1>3. n \in Nat /\ DOMAIN mem[back] = 1 .. n /\ Newest(back) = n - 1
  <2>1. MemoryType /\ OneWrite /\ BackCounts /\ back \in Objects
    BY Apart DEF ArrayIInv
  <2> QED BY <2>1, LastWrite, NewestBack
<1>4. /\ ip' = ip /\ ret' = ret /\ lback' = lback /\ pc[t] = "e_faa" /\ pc'[t] = "e_store"
      /\ \A u \in Threads \ {t} : pc'[u] = pc[u]
  <2>1. ArrayTypeOK
    BY DEF ArrayIInv
  <2> QED BY <2>1, ClientSteps, Zenon DEF EnqFetchAdd, Goto
<1>5. \A u \in Threads : CallerKnows(u) /\ ResultKnown(u)
  BY DEF PayloadsShared
<1>6. k'[t] = n - 1 /\ \A u \in Threads \ {t} : k'[u] = k[u]
  BY <1>2, <1>3, Zenon DEF ArrayIInv, Indices
<1> HIDE DEF n
<1>7. ASSUME NEW c \in Cells, NEW v \in Payloads, ItemOf(c, v)
      PROVE  n >= c + 2
  <2>1. CellsFill /\ c \in Nat
    BY DEF ArrayIInv, Cells
  <2>2. c < Newest(back)
    <3>1. CASE \E u \in Threads : pc[u] = "e_store" /\ k[u] = c
      BY <3>1, <2>1, Zenon DEF CellsFill
    <3>2. CASE v # Null /\ \E j \in DOMAIN mem[AR(c)] : v = mem[AR(c)][j].val
      <4>1. ~Untouched(c)
        BY <3>2, Zenon DEF Untouched
      <4>2. ~(c >= Newest(back))
        BY <4>1, <2>1, Zenon DEF CellsFill
      <4> QED BY <4>2, <2>1, <1>2, SMT
    <3> QED BY <3>1, <3>2, <1>7, Zenon DEF ItemOf
  <2> QED BY <2>1, <2>2, <1>3, SMT
<1>8. ASSUME NEW c \in Cells, NEW v \in Payloads, ItemOf(c, v)'
      PROVE  ItemOf(c, v) \/ (c = n - 1 /\ Has(view[t], v))
  <2>1. CASE \E j \in DOMAIN mem'[AR(c)] : v # Null /\ v = mem'[AR(c)][j].val
    BY <2>1, <1>2, Zenon DEF ItemOf
  <2>2. CASE \E u \in Threads : pc'[u] = "e_store" /\ k'[u] = c /\ v = Current(u)'.val
    <3>1. PICK u \in Threads : pc'[u] = "e_store" /\ k'[u] = c /\ v = Current(u)'.val
      BY <2>2
    <3>2. Current(u)' = Current(u)
      BY <1>4, Zenon DEF Current
    <3>3. CASE u = t
      BY <3>1, <3>2, <3>3, <1>4, <1>5, <1>6, Zenon DEF CallerKnows
    <3>4. CASE u # t
      BY <3>1, <3>2, <3>4, <1>4, <1>6, Zenon DEF ItemOf
    <3> QED BY <3>3, <3>4
  <2> QED BY <2>1, <2>2, <1>8, Zenon DEF ItemOf, AR
<1>9. ASSUME NEW c \in Cells, NEW v \in Payloads, ItemOf(c, v)',
             NEW i \in DOMAIN mem'[back], i >= c + 2
      PROVE  Has(mem'[back][i].view, v)
  <2>1. c \in Nat
    BY DEF Cells
  <2>2. CASE i \in DOMAIN mem[back]
    <3>1. ~(c = n - 1)
      BY <2>1, <2>2, <1>3, <1>9, SMT
    <3>2. ItemOf(c, v)
      BY <3>1, <1>8, <1>9
    <3>3. Has(mem[back][i].view, v)
      BY <2>2, <3>2, <1>9, Zenon DEF PayloadsShared, PublishedWithIndex
    <3> QED BY <2>2, <3>3, <1>1, Zenon DEF PayloadsGrow
  <2>3. CASE i = n + 1
    <3>1. CASE ItemOf(c, v)
      <4>1. n >= c + 2
        BY <3>1, <1>7
      <4>2. Has(mem[back][n].view, v)
        BY <4>1, <3>1, <1>1, Zenon DEF PayloadsShared, PublishedWithIndex
      <4> QED BY <4>2, <2>3, <1>1, Zenon
    <3>2. CASE Has(view[t], v)
      BY <3>2, <2>3, <1>1, Zenon
    <3> QED BY <3>1, <3>2, <1>8, <1>9
  <2> QED BY <2>2, <2>3, <1>1, <1>9
<1>10. PublishedWithIndex'
  BY <1>9, Zenon DEF PublishedWithIndex, Has, back
<1>11. \A u \in Threads \ {t} : CallerKnows(u)' /\ ResultKnown(u)'
  BY <1>1, <1>4, <1>5, OthersKnow
<1>12. CallerKnows(t)'
  BY <1>1, <1>4, <1>5, CallerStays
<1>13. ResultKnown(t)'
  BY <1>1, <1>4, <1>5, ResultStays
<1> QED BY <1>10, <1>11, <1>12, <1>13, SharedAfter

\* The store of an item, which was known with its index.
LEMMA StorePayloads ==
    ASSUME ItemsApart, ArrayIInv, ArrayIInv', ~Interleaved, PayloadsShared,
           NEW t \in Threads, EnqStore(t)
    PROVE  PayloadsShared'
<1>1. PayloadsGrow /\ mem'[back] = mem[back]
  BY StoreGrow
<1>2. PICK x : x = AR(k[t])
  BY Zenon
<1>3. /\ k[t] \in Cells /\ \A y \in Objects \ {x} : SameWrites(y)
      /\ \A j \in DOMAIN mem'[x] : mem'[x][j].val \in {Null, Current(t).val}
  BY <1>2, StoreValues
<1>4. /\ pc[t] = "e_store" /\ pc'[t] = "idle" /\ ip' = ip /\ ret'[t] = Ok
      /\ \A u \in Threads \ {t} : pc'[u] = pc[u] /\ ret'[u] = ret[u]
      /\ k' = k /\ lback' = lback
  <2>1. ArrayTypeOK
    BY DEF ArrayIInv
  <2> QED BY <2>1, ClientSteps, Zenon DEF EnqStore
<1>5. ASSUME NEW c \in Cells
      PROVE  \A v \in Payloads : \A j \in DOMAIN mem'[AR(c)] :
                    v # Null /\ v = mem'[AR(c)][j].val => ItemOf(c, v)
  <2>1. CASE c = k[t]
    <3>1. \A v \in Payloads : v = Current(t).val => ItemOf(c, v)
      BY <2>1, <1>4, Zenon DEF ItemOf
    <3>2. \A v \in Payloads : \A j \in DOMAIN mem'[x] :
                v # Null /\ v = mem'[x][j].val => v = Current(t).val
      BY <1>3
    <3>3. x = AR(c)
      BY <2>1, <1>2
    <3> QED BY <3>1, <3>2, <3>3, Zenon
  <2>2. CASE c # k[t]
    <3>1. SameWrites(AR(c))
      BY <2>2, <1>2, <1>3, Apart
    <3> QED BY <3>1, SameItems DEF ArrayIInv
  <2> QED BY <2>1, <2>2
<1>6. ItemsStay
  <2>1. CellItems
    BY <1>5, Zenon DEF CellItems
  <2>2. \A u \in Threads : pc'[u] = "e_store" =>
                pc[u] = "e_store" /\ k'[u] = k[u] /\ ip'[u] = ip[u]
    BY <1>4, Zenon
  <2> QED BY <2>1, <2>2, ItemsKept
<1>7. PublishedWithIndex'
  BY <1>1, <1>6, PublishedStays DEF PayloadsShared
<1>8. \A u \in Threads : CallerKnows(u) /\ ResultKnown(u)
  BY DEF PayloadsShared
<1>9. \A u \in Threads \ {t} : CallerKnows(u)' /\ ResultKnown(u)'
  BY <1>1, <1>4, <1>8, OthersKnow
<1>10. CallerKnows(t)'
  BY <1>4 DEF CallerKnows
<1>11. ResultKnown(t)'
  BY <1>4, NoItem
<1> QED BY <1>7, <1>9, <1>10, <1>11, SharedAfter

\* The exchange: who gets an item has acquired an index after it.
LEMMA ExchangePayloads ==
    ASSUME ItemsApart, ArrayIInv, ArrayIInv', ~Interleaved, PayloadsShared,
           NEW t \in Threads, DeqExchange(t)
    PROVE  PayloadsShared'
<1>1. PayloadsGrow /\ DOMAIN mem'[back] = DOMAIN mem[back]
  BY ExchangeGrow
<1>2. PICK x : x = AR(k[t])
  BY Zenon
<1>3. /\ k[t] \in Cells /\ \A y \in Objects \ {x} : SameWrites(y)
      /\ \A j \in DOMAIN mem'[x] : mem'[x][j].val # Null =>
                \E i \in DOMAIN mem[x] : mem[x][i].val = mem'[x][j].val
  BY <1>2, ExchangeValues
<1>4. PICK got \in Payloads :
        /\ IF got # Null THEN Return(t, got)
           ELSE IF k[t] + 1 < lback[t] THEN Goto(t, "d_xchg") ELSE Return(t, Empty)
        /\ \E p \in 2 .. Len(mem[x]) + 1 : got = mem[x][p - 1].val
  BY <1>2, ExchangeMemory DEF PutsNull
<1>5. /\ ip' = ip /\ \A u \in Threads \ {t} : pc'[u] = pc[u] /\ ret'[u] = ret[u]
      /\ pc[t] = "d_xchg" /\ pc'[t] \in {"d_xchg", "idle"}
      /\ \/ got # Null /\ ret'[t] = got
         \/ ret'[t] = Empty
         \/ ret'[t] = ret[t]
      /\ lback' = lback
  <2>1. ArrayTypeOK
    BY DEF ArrayIInv
  <2>2. pc[t] = "d_xchg" /\ lback' = lback
    BY DEF DeqExchange
  <2> QED BY <1>4, <2>1, <2>2, ClientSteps, Zenon
<1>6. ASSUME NEW c \in Cells
      PROVE  \A v \in Payloads : \A j \in DOMAIN mem'[AR(c)] :
                    v # Null /\ v = mem'[AR(c)][j].val => ItemOf(c, v)
  <2>1. CASE c = k[t]
    <3>1. \A v \in Payloads :
            v # Null /\ (\E i \in DOMAIN mem[AR(c)] : v = mem[AR(c)][i].val) => ItemOf(c, v)
      BY Zenon DEF ItemOf
    <3>2. ASSUME NEW v \in Payloads, NEW j \in DOMAIN mem'[x], v # Null, v = mem'[x][j].val
          PROVE  \E i \in DOMAIN mem[x] : v = mem[x][i].val
      <4>1. \E i \in DOMAIN mem[x] : mem[x][i].val = mem'[x][j].val
        BY <1>3, <3>2
      <4> QED BY <4>1, <3>2
    <3>3. x = AR(c)
      BY <2>1, <1>2
    <3> QED BY <3>1, <3>2, <3>3, Zenon
  <2>2. CASE c # k[t]
    <3>1. SameWrites(AR(c))
      BY <2>2, <1>2, <1>3, Apart
    <3> QED BY <3>1, SameItems DEF ArrayIInv
  <2> QED BY <2>1, <2>2
<1>7. ItemsStay
  <2>1. CellItems
    BY <1>6, Zenon DEF CellItems
  <2>2. \A u \in Threads \ {t} : k'[u] = k[u]
    BY Zenon DEF DeqExchange, ArrayIInv, Indices
  <2>3. \A u \in Threads : pc'[u] = "e_store" =>
                pc[u] = "e_store" /\ k'[u] = k[u] /\ ip'[u] = ip[u]
    BY <1>5, <2>2, Zenon
  <2> QED BY <2>1, <2>3, ItemsKept
<1>8. PublishedWithIndex'
  BY <1>1, <1>7, PublishedStays DEF PayloadsShared
<1>9. \A u \in Threads : CallerKnows(u) /\ ResultKnown(u)
  BY DEF PayloadsShared
<1>10. \A u \in Threads \ {t} : CallerKnows(u)' /\ ResultKnown(u)'
  BY <1>1, <1>5, <1>9, OthersKnow
<1>11. CallerKnows(t)'
  BY <1>1, <1>5, <1>9, CallerStays
<1>12. got # Null => Has(view'[t], got)
  <2> SUFFICES ASSUME got # Null PROVE Has(view'[t], got)
    BY Zenon
  <2>1. ItemOf(k[t], got)
    <3>1. PICK p \in 2 .. Len(mem[x]) + 1 : got = mem[x][p - 1].val
      BY <1>4
    <3>2. p - 1 \in DOMAIN mem[x]
      <4>1. MemoryType /\ x \in Objects
        BY <1>2, <1>3, Apart DEF ArrayIInv
      <4> QED BY <4>1, LastWrite, SMT
    <3> QED BY <3>1, <3>2, <1>2, Zenon DEF ItemOf
  <2>2. PICK i : i = lback[t] + 1
    BY Zenon
  <2>3. /\ i \in DOMAIN mem[back]
        /\ \A v \in Payloads : Has(mem[back][i].view, v) => Has(view[t], v)
    BY <2>2, <1>5, <1>9, Zenon DEF CallerKnows
  <2>4. i >= k[t] + 2
    <3>1. k[t] \in Nat /\ lback[t] \in Nat /\ k[t] < lback[t]
      BY <1>5 DEF ArrayIInv, Indices
    <3> QED BY <3>1, <2>2, SMT
  <2>5. Has(mem[back][i].view, got)
    BY <1>3, <2>1, <2>3, <2>4, Zenon DEF PayloadsShared, PublishedWithIndex
  <2> QED BY <1>1, <2>3, <2>5, Zenon DEF PayloadsGrow
<1>13. ResultKnown(t)'
  <2>1. CASE got # Null /\ ret'[t] = got
    BY <2>1, <1>12, Zenon DEF ResultKnown, Has
  <2>2. CASE ret'[t] = Empty
    BY <2>2, NoItem
  <2>3. CASE ret'[t] = ret[t]
    BY <2>3, <1>1, <1>9, ResultStays
  <2> QED BY <2>1, <2>2, <2>3, <1>5
<1> QED BY <1>8, <1>10, <1>11, <1>13, SharedAfter

\* Every step keeps what is known of the payloads.
LEMMA PayloadsStep ==
    ASSUME ItemsApart, ArrayIInv, ArrayIInv', PayloadsInv, [ArrayNext]_arrayVars
    PROVE  PayloadsInv'
<1>1. CASE UNCHANGED arrayVars
  BY <1>1 DEF PayloadsInv, PayloadsShared, PublishedWithIndex, CallerKnows, ResultKnown, ItemOf,
              Current, Interleaved, arrayVars, Has, back, AR
<1>2. ASSUME NEW t \in Threads, ArrayStep(t)
      PROVE  PayloadsInv'
  <2>1. build' = build
    BY <1>2, Zenon DEF ArrayStep, EnqCall, EnqFetchAdd, EnqStore, DeqCall, DeqLoadBack, DeqExchange,
                       Starts, Does
  <2>2. ASSUME ~Interleaved PROVE PayloadsShared'
    <3>1. PayloadsShared
      BY <2>2 DEF PayloadsInv
    <3> QED BY <1>2, <2>2, <3>1, CallPayloads, FetchAddPayloads, StorePayloads, LoadPayloads,
               ExchangePayloads DEF ArrayStep
  <2> QED BY <2>1, <2>2, Zenon DEF PayloadsInv, Interleaved
<1> QED BY <1>1, <1>2 DEF ArrayNext, ArrayDone

\* Nobody has enqueued, and nothing is known.
LEMMA PayloadsStart ==
    ASSUME ItemsApart, ArrayIInv, ArrayInit
    PROVE  PayloadsInv
<1>1. /\ \A t \in Threads : pc[t] = "idle" /\ ret[t] = NoRet
      /\ Newest(back) = 0
  <2>1. \A t \in Threads : pc[t] = "idle" /\ ret[t] = NoRet
    BY DEF ArrayInit, ClientInit
  <2>2. Counted = {}
    <3>1. ASSUME NEW e \in Enqueues PROVE ~HasIndex(e)
      <4>1. e[1] \in Threads /\ e[2] \in Nat /\ e[2] >= 1
        BY EnqueueIs
      <4>2. ip[e[1]] = 0
        BY <4>1 DEF ArrayInit, ClientInit
      <4> QED BY <4>1, <4>2, SMT DEF HasIndex
    <3> QED BY <3>1, Zenon DEF Counted
  <2> QED BY <2>1, <2>2, FS_EmptySet DEF ArrayIInv, BackIsCount
<1>2. ASSUME NEW c \in Cells, NEW v \in Payloads
      PROVE  ~ItemOf(c, v)
  <2>1. Untouched(c)
    BY <1>1, SMT DEF ArrayIInv, CellsFill, Cells
  <2> QED BY <1>1, <2>1, Zenon DEF ItemOf, Untouched
<1>3. PublishedWithIndex
  BY <1>2 DEF PublishedWithIndex
<1>4. ASSUME NEW t \in Threads PROVE CallerKnows(t) /\ ResultKnown(t)
  <2>1. CallerKnows(t)
    BY <1>1 DEF CallerKnows
  <2>2. ResultKnown(t)
    BY <1>1, Zenon DEF ResultKnown, ItemsApart
  <2> QED BY <2>1, <2>2
<1> QED BY <1>3, <1>4 DEF PayloadsInv, PayloadsShared

\* Who gets an item from q_dequeue knows its payload, although the accesses to
\* the cells are relaxed: the release of the index before the item is stored and
\* the acquire of any later index are enough, in every execution of every test.
THEOREM PayloadsAcquired ==
    ASSUME EnoughCells, ItemsApart
    PROVE  ArraySpec => []PayloadsKnown
<1> DEFINE Inv == ArrayIInv /\ PayloadsInv
<1>1. ArrayInit => Inv
  BY ArrayStarts, PayloadsStart
<1>2. Inv /\ [ArrayNext]_arrayVars => Inv'
  <2> SUFFICES ASSUME ArrayIInv, PayloadsInv, [ArrayNext]_arrayVars PROVE Inv'
    BY Zenon
  <2>1. ArrayIInv'
    BY ArrayStepInv
  <2>2. PayloadsInv'
    BY <2>1, PayloadsStep
  <2> QED BY <2>1, <2>2
<1>3. Inv => PayloadsKnown
  BY Zenon DEF PayloadsInv, PayloadsShared, ResultKnown, PayloadsKnown, Knows, Has
<1> HIDE DEF Inv
<1> QED BY <1>1, <1>2, <1>3, PTL DEF ArraySpec

-----------------------------------------------------------------------------
\* A view that has an item has its index.

\* A view of the memory m that has the item of a cell has its index.
IndexBefore(m, w) ==
    \A c \in Cells : \A j \in DOMAIN m[AR(c)] :
        j <= Place(w, AR(c)) /\ m[AR(c)][j].val # Null => Place(w, back) >= c + 2

\* So do the thread that is to store an item and the thread that may read it.
IndexHeld(t) ==
    /\ pc[t] = "e_store" => Place(view[t], back) >= k[t] + 2
    /\ pc[t] = "d_xchg" => Place(view[t], back) >= lback[t] + 1
IndexShared ==
    /\ \A t \in Threads : IndexBefore(mem, view[t]) /\ IndexHeld(t)
    /\ \A i \in DOMAIN mem[back] : IndexBefore(mem, mem[back][i].view)
IndexInv == ~Interleaved => IndexShared

\* A view whose places in the cells come from views with an older index.
LEMMA IndexFrom ==
    ASSUME NEW m, \A c \in Cells : DOMAIN m[AR(c)] \subseteq Nat, NEW w \in Views,
           \A c \in Cells : \E v \in Views :
                /\ IndexBefore(m, v)
                /\ Place(w, AR(c)) <= Place(v, AR(c)) /\ Place(v, back) <= Place(w, back)
    PROVE  IndexBefore(m, w)
<1> SUFFICES ASSUME NEW c \in Cells, NEW j \in DOMAIN m[AR(c)],
                    j <= Place(w, AR(c)), m[AR(c)][j].val # Null
             PROVE  Place(w, back) >= c + 2
  BY Zenon DEF IndexBefore
<1>1. PICK v \in Views :
            /\ IndexBefore(m, v)
            /\ Place(w, AR(c)) <= Place(v, AR(c)) /\ Place(v, back) <= Place(w, back)
  OBVIOUS
<1>2. /\ Place(w, AR(c)) \in Nat /\ Place(v, AR(c)) \in Nat
      /\ Place(w, back) \in Nat /\ Place(v, back) \in Nat /\ j \in Nat /\ c \in Nat
  BY ViewPlace DEF Cells
<1>3. j <= Place(v, AR(c))
  BY <1>1, <1>2, SMT
<1>4. Place(v, back) >= c + 2
  BY <1>1, <1>3, Zenon DEF IndexBefore
<1> QED BY <1>1, <1>2, <1>4, SMT

\* Where the values in the cells are the same, views are as good as they were.
LEMMA IndexSame ==
    ASSUME MemoryType, MemoryType', NEW w, \A c \in Cells : SameWrites(AR(c)), IndexBefore(mem, w)
    PROVE  IndexBefore(mem', w)
<1>1. \A c \in Cells : /\ DOMAIN mem'[AR(c)] = DOMAIN mem[AR(c)]
                       /\ \A j \in DOMAIN mem[AR(c)] : mem'[AR(c)][j].val = mem[AR(c)][j].val
  BY SameCell
<1> QED BY <1>1, Zenon DEF IndexBefore

\* The places in a cell are numbers, and the views are views.
LEMMA CellPlaces ==
    ASSUME MemoryType
    PROVE  /\ \A c \in Cells : DOMAIN mem[AR(c)] \subseteq Nat
           /\ \A t \in Threads : view[t] \in Views
           /\ \A i \in DOMAIN mem[back] : mem[back][i].view \in Views
<1>1. \A c \in Cells : DOMAIN mem[AR(c)] \subseteq Nat
  <2> SUFFICES ASSUME NEW c \in Cells PROVE DOMAIN mem[AR(c)] \subseteq Nat
    OBVIOUS
  <2>1. DOMAIN mem[AR(c)] = 1 .. Len(mem[AR(c)]) /\ Len(mem[AR(c)]) \in Nat
    BY Apart, LastWrite
  <2> QED BY <2>1, SMT
<1>2. \A t \in Threads : view[t] \in Views
  BY Zenon DEF MemoryType
<1>3. \A i \in DOMAIN mem[back] : mem[back][i] \in Writes
  BY Apart, LastWrite
<1> QED BY <1>1, <1>2, <1>3, Zenon DEF Writes

\* What is to be shown after a step.
LEMMA IndexAfter ==
    ASSUME \A u \in Threads : IndexBefore(mem', view'[u]),
           \A u \in Threads : pc'[u] = "e_store" => Place(view'[u], back) >= k'[u] + 2,
           \A u \in Threads : pc'[u] = "d_xchg" => Place(view'[u], back) >= lback'[u] + 1,
           \A i \in DOMAIN mem'[back] : IndexBefore(mem', mem'[back][i].view)
    PROVE  IndexShared'
BY Zenon DEF IndexShared, IndexBefore, IndexHeld, Place, back, AR

\* The items of enqueuers.
LEMMA CallValues ==
    ASSUME ArrayIInv
    PROVE  \A u \in Threads : InCall(u) => Current(u).val \in Payloads
BY CallValue

\* What a thread has filled when it starts a call.
LEMMA StartOf ==
    ASSUME ArrayIInv, ArrayIInv', NEW t \in Threads, EnqCall(t) \/ DeqCall(t)
    PROVE  \E own : /\ own = Nothing \/ \E v \in Payloads : own = Filled(Payload(v))
                    /\ \E ts \in FlagsRead(t) : Starts(t, ts, own)
<1>1. CASE DeqCall(t)
  BY <1>1, Zenon DEF DeqCall
<1>2. CASE EnqCall(t)
  <2>1. (\A u \in Threads : InCall(u) => Current(u).val \in Payloads)'
    BY CallValues, PTL
  <2>2. InCall(t)'
    <3>1. ArrayTypeOK
      BY DEF ArrayIInv
    <3>2. Invoke(t, "enq", "e_faa")
      BY <1>2 DEF EnqCall
    <3>3. pc'[t] = "e_faa"
      BY <3>1, <3>2, InvokeEnters, Zenon
    <3> QED BY <3>3, SMT DEF InCall
  <2>3. PICK v \in Payloads : v = Current(t)'.val
    BY <2>1, <2>2
  <2>4. \E ts \in FlagsRead(t) : Starts(t, ts, Filled(Payload(v)))
    BY <1>2, <2>3 DEF EnqCall
  <2> QED BY <2>4, Zenon
<1> QED BY <1>1, <1>2

\* The start of a call: what others knew, with the index they had.
LEMMA CallIndex ==
    ASSUME ArrayIInv, ArrayIInv', ~Interleaved, IndexShared,
           NEW t \in Threads, EnqCall(t) \/ DeqCall(t)
    PROVE  IndexShared'
<1>0. MemoryType /\ MemoryType' /\ ViewsInTime /\ OneWrite
  BY DEF ArrayIInv
<1>1. PICK own : /\ own = Nothing \/ \E v \in Payloads : own = Filled(Payload(v))
                 /\ \E ts \in FlagsRead(t) : Starts(t, ts, own)
  BY StartOf
<1>s. PICK ts \in FlagsRead(t) : Starts(t, ts, own)
  BY <1>1
<1>2. /\ mem' = mem /\ \A u \in Threads \ {t} : view'[u] = view[u]
      /\ \A w \in {own, view[t]} : \A y : Place(w, y) <= Place(view'[t], y)
      /\ \A y : \E w \in {own} \cup {view[u] : u \in Threads} :
                        /\ Place(view'[t], y) = Place(w, y)
                        /\ \A z : Place(w, z) <= Place(view'[t], z)
  BY <1>0, <1>s, <1>1, CallMemory
<1>3. \A c \in Cells : DOMAIN mem[AR(c)] \subseteq Nat
  BY <1>0, CellPlaces
<1>4. \A u \in Threads : view[u] \in Views /\ view'[u] \in Views
  BY <1>0 DEF MemoryType, Views, Locations, Objects, Cells
<1>5. ASSUME NEW c \in Cells
      PROVE  \E v \in Views : /\ IndexBefore(mem, v)
                              /\ Place(view'[t], AR(c)) <= Place(v, AR(c))
                              /\ Place(v, back) <= Place(view'[t], back)
  <2>1. PICK w \in {own} \cup {view[u] : u \in Threads} :
                        /\ Place(view'[t], AR(c)) = Place(w, AR(c))
                        /\ \A z : Place(w, z) <= Place(view'[t], z)
    BY <1>2
  <2>2. CASE w = own
    <3>1. Place(own, AR(c)) = 1
      <4>1. \A v \in Payloads : Payload(v) # AR(c) /\ Payload(v) \in Locations
        BY Apart
      <4>2. \A v \in Payloads : Filled(Payload(v)) = At(Payload(v), 2)
        BY DEF Filled
      <4>3. CASE own = Nothing
        BY <4>3, NothingView
      <4>4. CASE \E v \in Payloads : own = Filled(Payload(v))
        <5>1. PICK v \in Payloads : own = At(Payload(v), 2)
          BY <4>2, <4>4
        <5> QED BY <5>1, <4>1, OnePlaceView
      <4> QED BY <4>3, <4>4, <1>1
    <3>2. Place(view[t], AR(c)) \in Nat \ {0}
      BY <1>4, ViewPlace
    <3>3. Place(view'[t], AR(c)) <= Place(view[t], AR(c))
      BY <2>1, <2>2, <3>1, <3>2, SMT
    <3> QED BY <3>3, <1>2, <1>4, Zenon DEF IndexShared
  <2>3. CASE \E u \in Threads : w = view[u]
    <3>1. PICK u \in Threads : w = view[u]
      BY <2>3
    <3>2. Place(view'[t], AR(c)) <= Place(view[u], AR(c))
      <4>1. Place(view[u], AR(c)) \in Nat
        BY <1>4, ViewPlace
      <4> QED BY <4>1, <3>1, <2>1, SMT
    <3> QED BY <3>1, <3>2, <2>1, <1>4, Zenon DEF IndexShared
  <2> QED BY <2>2, <2>3
<1>6. IndexBefore(mem, view'[t])
  BY <1>3, <1>4, <1>5, IndexFrom
<1>7. \A u \in Threads : IndexBefore(mem', view'[u])
  BY <1>2, <1>6, Zenon DEF IndexShared
<1>8. \A i \in DOMAIN mem'[back] : IndexBefore(mem', mem'[back][i].view)
  BY <1>2, Zenon DEF IndexShared
<1>9. /\ pc'[t] \notin {"e_store", "d_xchg"} /\ k' = k /\ lback' = lback
      /\ \A u \in Threads \ {t} : pc'[u] = pc[u]
  <2>1. /\ pc \in [Threads -> ArrayLabels \cup {"idle", "blocked", "assert"}]
    BY Zenon DEF ArrayIInv, ArrayTypeOK, ClientTypeOK
  <2> QED BY <2>1, SMT DEF EnqCall, DeqCall, Invoke
<1>10. \A u \in Threads :
            /\ pc'[u] = "e_store" => Place(view'[u], back) >= k'[u] + 2
            /\ pc'[u] = "d_xchg" => Place(view'[u], back) >= lback'[u] + 1
  BY <1>2, <1>9, Zenon DEF IndexShared, IndexHeld
<1> QED BY <1>7, <1>8, <1>10, IndexAfter

\* The load of back: the index it reads, and what that carries.
LEMMA LoadIndex ==
    ASSUME ArrayIInv, ArrayIInv', ~Interleaved, IndexShared, NEW t \in Threads, DeqLoadBack(t)
    PROVE  IndexShared'
<1>0. MemoryType /\ MemoryType' /\ back \in Objects
  BY Apart DEF ArrayIInv
<1>1. PICK i \in 1 .. Len(mem[back]) :
            /\ mem' = mem
            /\ \A u \in Threads \ {t} : view'[u] = view[u] /\ lback'[u] = lback[u]
            /\ IF 0 < lback'[t] THEN Goto(t, "d_xchg") ELSE Return(t, Empty)
            /\ lback'[t] = i - 1 /\ Place(view'[t], back) >= i
            /\ \A y : /\ Place(view[t], y) <= Place(view'[t], y)
                      /\ Place(mem[back][i].view, y) <= Place(view'[t], y)
                      /\ \/ y = back \/ Place(view'[t], y) = Place(view[t], y)
                         \/ Place(view'[t], y) = Place(mem[back][i].view, y)
  BY LoadMemory
<1>2. /\ \A c \in Cells : DOMAIN mem[AR(c)] \subseteq Nat
      /\ view[t] \in Views /\ view'[t] \in Views
      /\ i \in DOMAIN mem[back] /\ mem[back][i].view \in Views
  <2>1. i \in DOMAIN mem[back] /\ view'[t] \in Views
    BY <1>0, LastWrite DEF MemoryType, Views, Locations, Objects, Cells
  <2> QED BY <1>0, <2>1, CellPlaces
<1>3. ASSUME NEW c \in Cells
      PROVE  \E v \in Views : /\ IndexBefore(mem, v)
                              /\ Place(view'[t], AR(c)) <= Place(v, AR(c))
                              /\ Place(v, back) <= Place(view'[t], back)
  <2>1. PICK v \in {view[t], mem[back][i].view} :
            Place(view'[t], AR(c)) = Place(v, AR(c)) /\ Place(v, back) <= Place(view'[t], back)
    BY <1>1, Apart
  <2>2. v \in Views /\ IndexBefore(mem, v)
    BY <2>1, <1>2, Zenon DEF IndexShared
  <2>3. Place(v, AR(c)) \in Nat
    BY <2>2, ViewPlace
  <2>4. Place(view'[t], AR(c)) <= Place(v, AR(c))
    BY <2>1, <2>3, SMT
  <2> QED BY <2>1, <2>2, <2>4, Zenon
<1>4. IndexBefore(mem, view'[t])
  BY <1>2, <1>3, IndexFrom
<1>5. \A u \in Threads : IndexBefore(mem', view'[u])
  BY <1>1, <1>4, Zenon DEF IndexShared
<1>6. \A j \in DOMAIN mem'[back] : IndexBefore(mem', mem'[back][j].view)
  BY <1>1, Zenon DEF IndexShared
<1>7. /\ pc'[t] \in {"d_xchg", "idle"} /\ \A u \in Threads \ {t} : pc'[u] = pc[u] /\ k'[u] = k[u]
  <2>1. ArrayTypeOK
    BY DEF ArrayIInv
  <2>2. \A u \in Threads \ {t} : k'[u] = k[u]
    BY Zenon DEF DeqLoadBack, ArrayIInv, Indices
  <2>3. pc'[t] \in {"d_xchg", "idle"} /\ \A u \in Threads \ {t} : pc'[u] = pc[u]
    BY <1>1, <2>1, ClientSteps, Zenon
  <2> QED BY <2>2, <2>3
<1>8. Place(view'[t], back) >= lback'[t] + 1
  BY <1>1, <1>2, SMT
<1>9. \A u \in Threads :
            /\ pc'[u] = "e_store" => Place(view'[u], back) >= k'[u] + 2
            /\ pc'[u] = "d_xchg" => Place(view'[u], back) >= lback'[u] + 1
  <2> SUFFICES ASSUME NEW u \in Threads
               PROVE  /\ pc'[u] = "e_store" => Place(view'[u], back) >= k'[u] + 2
                      /\ pc'[u] = "d_xchg" => Place(view'[u], back) >= lback'[u] + 1
    BY Zenon
  <2>1. CASE u = t
    BY <2>1, <1>7, <1>8
  <2>2. CASE u # t
    BY <2>2, <1>1, <1>7, Zenon DEF IndexShared, IndexHeld
  <2> QED BY <2>1, <2>2
<1> QED BY <1>5, <1>6, <1>9, IndexAfter

\* The fetch-and-add: a newer index, which carries what the last one did.
LEMMA FetchAddIndex ==
    ASSUME ArrayIInv, ArrayIInv', ~Interleaved, IndexShared, NEW t \in Threads, EnqFetchAdd(t)
    PROVE  IndexShared'
<1> DEFINE n == Len(mem[back])
           last == mem[back][n].view
<1>0. MemoryType /\ MemoryType' /\ back \in Objects /\ OneWrite /\ BackCounts
  BY Apart DEF ArrayIInv
<1>1. /\ k' = [k EXCEPT ![t] = Newest(back)]
      /\ \A c \in Cells : mem'[AR(c)] = mem[AR(c)]
      /\ \A i \in DOMAIN mem[back] : mem'[back][i] = mem[back][i]
      /\ mem'[back][n + 1].view = Join(last, view'[t])
      /\ \A y : Place(view'[t], y) = IF y = back THEN n + 1 ELSE Place(view[t], y)
      /\ \A u \in Threads \ {t} : view'[u] = view[u]
  BY FetchAddMemory
<1>2. n \in DOMAIN mem[back] /\ DOMAIN mem'[back] = DOMAIN mem[back] \cup {n + 1}
  BY FetchAddGrow
<1>3. n \in Nat /\ Newest(back) = n - 1
  BY <1>0, LastWrite, NewestBack
<1>4. /\ \A c \in Cells : DOMAIN mem[AR(c)] \subseteq Nat
      /\ \A c \in Cells : DOMAIN mem'[AR(c)] \subseteq Nat
      /\ view[t] \in Views /\ view'[t] \in Views /\ last \in Views
  <2>1. view'[t] \in Views
    BY <1>0 DEF MemoryType, Views, Locations, Objects, Cells
  <2>2. \A c \in Cells : DOMAIN mem[AR(c)] \subseteq Nat
    BY <1>0, CellPlaces
  <2>3. view[t] \in Views /\ last \in Views
    BY <1>0, <1>2, CellPlaces
  <2> QED BY <1>1, <2>1, <2>2, <2>3, Zenon
<1>5. ViewInTime(view[t])
  BY <1>4, Zenon DEF ArrayIInv, ViewsInTime, Known
<1> HIDE DEF last
<1>6. \A w : IndexBefore(mem, w) => IndexBefore(mem', w)
  BY <1>1, Zenon DEF IndexBefore
<1>7. Place(view[t], back) <= n + 1
  <2>1. Place(view[t], back) \in Nat /\ Place(view[t], back) <= n
    BY <1>0, <1>4, <1>5, ViewPlace DEF ViewInTime
  <2> QED BY <2>1, <1>3, SMT
<1>8. IndexBefore(mem', view'[t])
  <2>1. IndexBefore(mem', view[t])
    BY <1>6, Zenon DEF IndexShared
  <2>2. ASSUME NEW c \in Cells
        PROVE  \E v \in Views : /\ IndexBefore(mem', v)
                                /\ Place(view'[t], AR(c)) <= Place(v, AR(c))
                                /\ Place(v, back) <= Place(view'[t], back)
    <3>1. Place(view'[t], AR(c)) = Place(view[t], AR(c)) /\ Place(view[t], AR(c)) \in Nat
      BY <1>1, <1>4, Apart, ViewPlace
    <3>2. Place(view'[t], AR(c)) <= Place(view[t], AR(c))
      BY <3>1, SMT
    <3>3. Place(view[t], back) <= Place(view'[t], back)
      BY <1>1, <1>7
    <3> QED BY <2>1, <3>2, <3>3, <1>4, Zenon
  <2> QED BY <1>4, <2>2, IndexFrom
<1>9. IndexBefore(mem', mem'[back][n + 1].view)
  <2>1. PICK w : w = Join(last, view'[t])
    BY Zenon
  <2>2. /\ w \in Views
        /\ \A x : Place(w, x) = IF Place(last, x) >= Place(view'[t], x)
                                THEN Place(last, x) ELSE Place(view'[t], x)
    BY <2>1, <1>4, JoinView
  <2>3. IndexBefore(mem', last)
    BY <1>2, <1>6, Zenon DEF IndexShared, last
  <2>4. ASSUME NEW c \in Cells
        PROVE  \E v \in Views : /\ IndexBefore(mem', v)
                                /\ Place(w, AR(c)) <= Place(v, AR(c))
                                /\ Place(v, back) <= Place(w, back)
    <3>1. /\ Place(last, AR(c)) \in Nat /\ Place(view'[t], AR(c)) \in Nat
          /\ Place(last, back) \in Nat /\ Place(view'[t], back) \in Nat
      BY <1>4, ViewPlace
    <3>2. Place(last, back) <= Place(w, back) /\ Place(view'[t], back) <= Place(w, back)
      BY <2>2, <3>1, SMT
    <3>3. Place(w, AR(c)) <= Place(last, AR(c)) \/ Place(w, AR(c)) <= Place(view'[t], AR(c))
      BY <2>2, <3>1, SMT
    <3> QED BY <1>4, <1>8, <2>3, <3>2, <3>3, Zenon
  <2>5. IndexBefore(mem', w)
    BY <1>4, <2>2, <2>4, IndexFrom
  <2> QED BY <1>1, <2>1, <2>5
<1> HIDE DEF n
<1>10. \A u \in Threads : IndexBefore(mem', view'[u])
  BY <1>1, <1>6, <1>8, Zenon DEF IndexShared
<1>11. \A i \in DOMAIN mem'[back] : IndexBefore(mem', mem'[back][i].view)
  <2>1. \A i \in DOMAIN mem[back] : IndexBefore(mem', mem'[back][i].view)
    BY <1>1, <1>6, Zenon DEF IndexShared
  <2> QED BY <1>2, <1>9, <2>1
<1>12. /\ pc'[t] = "e_store" /\ \A u \in Threads \ {t} : pc'[u] = pc[u] /\ k'[u] = k[u]
       /\ k'[t] = n - 1 /\ lback' = lback
  <2>1. ArrayTypeOK
    BY DEF ArrayIInv
  <2>2. \A u \in Threads \ {t} : k'[u] = k[u]
    BY <1>1, Zenon DEF ArrayIInv, Indices
  <2>3. k'[t] = n - 1
    BY <1>1, <1>3, Zenon DEF ArrayIInv, Indices
  <2>4. pc'[t] = "e_store" /\ \A u \in Threads \ {t} : pc'[u] = pc[u]
    BY <2>1, ClientSteps, Zenon DEF EnqFetchAdd
  <2> QED BY <2>2, <2>3, <2>4 DEF EnqFetchAdd
<1>13. Place(view'[t], back) >= k'[t] + 2
  BY <1>1, <1>3, <1>12, SMT
<1>14. \A u \in Threads :
            /\ pc'[u] = "e_store" => Place(view'[u], back) >= k'[u] + 2
            /\ pc'[u] = "d_xchg" => Place(view'[u], back) >= lback'[u] + 1
  <2> SUFFICES ASSUME NEW u \in Threads
               PROVE  /\ pc'[u] = "e_store" => Place(view'[u], back) >= k'[u] + 2
                      /\ pc'[u] = "d_xchg" => Place(view'[u], back) >= lback'[u] + 1
    BY Zenon
  <2>1. CASE u = t
    BY <2>1, <1>12, <1>13
  <2>2. CASE u # t
    BY <2>2, <1>1, <1>12, Zenon DEF IndexShared, IndexHeld
  <2> QED BY <2>1, <2>2
<1> QED BY <1>10, <1>11, <1>14, IndexAfter

\* The store: the item comes after what others know, and its thread has the index.
LEMMA StoreIndex ==
    ASSUME ArrayIInv, ArrayIInv', ~Interleaved, IndexShared, NEW t \in Threads, EnqStore(t)
    PROVE  IndexShared'
<1>0. MemoryType /\ MemoryType' /\ back \in Objects
  BY Apart DEF ArrayIInv
<1>1. PICK x, n : x = AR(k[t]) /\ n = Len(mem[x])
  BY Zenon
<1>2. k[t] \in Cells /\ ItemStored(t, x, n)
  BY <1>1, StoreMemory
<1>3. x \in Objects /\ x # back /\ \A c \in Cells : AR(c) = x <=> c = k[t]
  BY <1>1, <1>2, Apart
<1>4. /\ n \in Nat
      /\ \A y \in Objects \ {x} : mem'[y] = mem[y]
      /\ \A i \in DOMAIN mem[x] : mem'[x][i] = mem[x][i]
      /\ Len(mem'[x]) = n + 1
      /\ \A y : Place(view'[t], y) = IF y = x THEN n + 1 ELSE Place(view[t], y)
      /\ \A u \in Threads \ {t} : view'[u] = view[u]
  BY <1>2, Zenon DEF ItemStored
<1>5. DOMAIN mem[x] = 1 .. n /\ DOMAIN mem'[x] = 1 .. n + 1
  <2>1. DOMAIN mem[x] = 1 .. n
    BY <1>0, <1>1, <1>3, LastWrite
  <2>2. mem'[x] \in Seq(Writes)
    BY <1>0, <1>3 DEF MemoryType, Objects, Cells, Writes, Views, Locations
  <2> QED BY <2>1, <2>2, <1>4, SMT
<1>6. ASSUME NEW w \in Views, IndexBefore(mem, w), ViewInTime(w)
      PROVE  IndexBefore(mem', w)
  <2> SUFFICES ASSUME NEW c \in Cells, NEW j \in DOMAIN mem'[AR(c)],
                      j <= Place(w, AR(c)), mem'[AR(c)][j].val # Null
               PROVE  Place(w, back) >= c + 2
    BY Zenon DEF IndexBefore
  <2>1. CASE c = k[t]
    <3>1. AR(c) = x /\ Place(w, x) \in Nat /\ Place(w, x) <= n
      BY <2>1, <1>1, <1>3, <1>6, ViewPlace DEF ViewInTime
    <3>2. j \in DOMAIN mem[x]
      BY <3>1, <1>4, <1>5, SMT
    <3>3. mem[AR(c)][j].val # Null /\ j \in DOMAIN mem[AR(c)]
      BY <3>1, <3>2, <1>4
    <3> QED BY <3>3, <1>6, Zenon DEF IndexBefore
  <2>2. CASE c # k[t]
    <3>1. mem'[AR(c)] = mem[AR(c)]
      BY <2>2, <1>3, <1>4, Apart
    <3> QED BY <3>1, <1>6, Zenon DEF IndexBefore
  <2> QED BY <2>1, <2>2
<1>7. /\ \A u \in Threads : view[u] \in Views /\ ViewInTime(view[u])
      /\ \A i \in DOMAIN mem[back] : mem[back][i].view \in Views /\ ViewInTime(mem[back][i].view)
  <2>1. /\ \A u \in Threads : view[u] \in Views
        /\ \A i \in DOMAIN mem[back] : mem[back][i].view \in Views
    BY <1>0, CellPlaces
  <2> QED BY <2>1, Zenon DEF ArrayIInv, ViewsInTime, Known
<1>8. /\ pc[t] = "e_store" /\ pc'[t] = "idle" /\ k' = k /\ lback' = lback
      /\ \A u \in Threads \ {t} : pc'[u] = pc[u]
  <2>1. ArrayTypeOK
    BY DEF ArrayIInv
  <2> QED BY <2>1, ClientSteps, Zenon DEF EnqStore
<1>9. IndexBefore(mem', view'[t])
  <2> SUFFICES ASSUME NEW c \in Cells, NEW j \in DOMAIN mem'[AR(c)],
                      j <= Place(view'[t], AR(c)), mem'[AR(c)][j].val # Null
               PROVE  Place(view'[t], back) >= c + 2
    BY Zenon DEF IndexBefore
  <2>1. Place(view'[t], back) = Place(view[t], back)
    BY <1>3, <1>4
  <2>2. CASE c = k[t]
    BY <2>1, <2>2, <1>8, Zenon DEF IndexShared, IndexHeld
  <2>3. CASE c # k[t]
    <3>1. mem'[AR(c)] = mem[AR(c)] /\ Place(view'[t], AR(c)) = Place(view[t], AR(c))
      BY <2>3, <1>3, <1>4, Apart
    <3> QED BY <2>1, <3>1, Zenon DEF IndexBefore, IndexShared
  <2> QED BY <2>2, <2>3
<1>10. \A u \in Threads : IndexBefore(mem', view'[u])
  <2>1. \A u \in Threads : IndexBefore(mem', view[u])
    BY <1>6, <1>7, Zenon DEF IndexShared
  <2> QED BY <2>1, <1>4, <1>9, Zenon
<1>11. \A i \in DOMAIN mem'[back] : IndexBefore(mem', mem'[back][i].view)
  <2>1. mem'[back] = mem[back]
    BY <1>0, <1>3, <1>4
  <2>2. \A i \in DOMAIN mem[back] : IndexBefore(mem', mem[back][i].view)
    BY <1>6, <1>7, Zenon DEF IndexShared
  <2> QED BY <2>1, <2>2
<1>12. \A u \in Threads :
            /\ pc'[u] = "e_store" => Place(view'[u], back) >= k'[u] + 2
            /\ pc'[u] = "d_xchg" => Place(view'[u], back) >= lback'[u] + 1
  <2> SUFFICES ASSUME NEW u \in Threads
               PROVE  /\ pc'[u] = "e_store" => Place(view'[u], back) >= k'[u] + 2
                      /\ pc'[u] = "d_xchg" => Place(view'[u], back) >= lback'[u] + 1
    BY Zenon
  <2>1. CASE u = t
    BY <2>1, <1>8
  <2>2. CASE u # t
    BY <2>2, <1>4, <1>8, Zenon DEF IndexShared, IndexHeld
  <2> QED BY <2>1, <2>2
<1> QED BY <1>10, <1>11, <1>12, IndexAfter

\* Who knows of a write still does when another comes in, and nobody else.
LEMMA MovedOrder ==
    ASSUME MemoryType, NEW x \in Objects, NEW p \in 2 .. Len(mem[x]) + 1, NEW w \in Views,
           NEW i \in DOMAIN mem[x]
    PROVE  NewPlace(x, i, x, p) <= Place(Moved(w, x, p), x) <=> i <= Place(w, x)
<1>1. Len(mem[x]) \in Nat /\ i \in 1 .. Len(mem[x])
  BY LastWrite
<1>2. p \in Nat /\ p >= 2
  BY <1>1, SMT
<1>3. Place(Moved(w, x, p), x) =
            IF p <= Len(mem[x]) /\ Place(w, x) >= p THEN Place(w, x) + 1 ELSE Place(w, x)
  BY <1>1, <1>2, MovedPlaces
<1>4. Place(w, x) \in Nat
  BY ViewPlace
<1>5. NewPlace(x, i, x, p) = IF i >= p THEN i + 1 ELSE i
  BY Zenon DEF NewPlace
<1> QED BY <1>1, <1>2, <1>3, <1>4, <1>5, SMT

\* An exchange puts a null at place p of x; the other writes keep their values.
NullPut(t, x, p) ==
    /\ p \in 2 .. Len(mem[x]) + 1 /\ p > Place(view[t], x)
    /\ mem'[x][p].val = Null
    /\ \A j \in DOMAIN mem'[x] : j # p =>
            \E i \in DOMAIN mem[x] : j = NewPlace(x, i, x, p) /\ mem'[x][j].val = mem[x][i].val
    /\ Len(mem'[x]) = Len(mem[x]) + 1
    /\ mem'[x][Len(mem[x]) + 1].val = IF p = Len(mem[x]) + 1 THEN Null
                                      ELSE mem[x][Len(mem[x])].val
    /\ \A i \in DOMAIN mem[back] : mem'[back][i].view = Moved(mem[back][i].view, x, p)
    /\ DOMAIN mem'[back] = DOMAIN mem[back]
    /\ \A y : Place(view'[t], y) = IF y = x THEN p ELSE Place(view[t], y)
    /\ \A u \in Threads \ {t} : view'[u] = Moved(view[u], x, p)

\* That is what it does.
LEMMA ExchangePuts ==
    ASSUME ArrayIInv, ~Interleaved, NEW t \in Threads, DeqExchange(t)
    PROVE  \E p : NullPut(t, AR(k[t]), p)
<1>0. MemoryType /\ back \in Objects
  BY Apart DEF ArrayIInv
<1>x. PICK x : x = AR(k[t])
  BY Zenon
<1>1. PICK p \in 2 .. Len(mem[x]) + 1 :
        /\ MemoryType' /\ k[t] \in Cells
        /\ p > Place(view[t], x) /\ Kept(x, p) /\ mem'[x][p].val = Null
        /\ \A y : Place(view'[t], y) = IF y = x THEN p ELSE Place(view[t], y)
        /\ \A u \in Threads \ {t} : view'[u] = Moved(view[u], x, p)
  <2>1. PICK p \in 2 .. Len(mem[x]) + 1 :
            MemoryType' /\ k[t] \in Cells /\ \E got \in Payloads : PutsNull(t, x, p, got)
    BY <1>x, ExchangeMemory
  <2> QED BY <2>1, Zenon DEF PutsNull
<1>2. x \in Objects /\ x # back
  BY <1>x, <1>1, Apart
<1>3. \A y \in Objects : \A i \in DOMAIN mem[y] : mem[y][i] \in Writes
  BY <1>0, LastWrite
<1>4. ASSUME NEW y \in Objects, NEW i \in DOMAIN mem[y]
      PROVE  /\ mem'[y][NewPlace(y, i, x, p)].val = mem[y][i].val
             /\ mem'[y][NewPlace(y, i, x, p)].view = Moved(mem[y][i].view, x, p)
  <2>1. mem'[y][NewPlace(y, i, x, p)] = [mem[y][i] EXCEPT !.view = Moved(@, x, p)]
    BY <1>1 DEF Kept
  <2>2. mem[y][i] \in Writes
    BY <1>3
  <2> QED BY <2>1, <2>2, Zenon DEF Writes
<1>5. ASSUME NEW j \in DOMAIN mem'[x], j # p
      PROVE  \E i \in DOMAIN mem[x] : j = NewPlace(x, i, x, p) /\ mem'[x][j].val = mem[x][i].val
  <2>1. PICK i \in DOMAIN mem[x] : j = NewPlace(x, i, x, p)
    BY <1>0, <1>x, <1>1, <1>2, <1>5, NewOrOld
  <2> QED BY <2>1, <1>2, <1>4
<1>6. Len(mem'[x]) = Len(mem[x]) + 1
  BY <1>1, <1>2 DEF Kept
<1>7. mem'[x][Len(mem[x]) + 1].val = IF p = Len(mem[x]) + 1 THEN Null ELSE mem[x][Len(mem[x])].val
  <2>1. CASE p = Len(mem[x]) + 1
    BY <2>1, <1>1
  <2>2. CASE p # Len(mem[x]) + 1
    <3>1. Len(mem[x]) \in Nat /\ Len(mem[x]) \in DOMAIN mem[x]
      BY <1>0, <1>2, LastWrite
    <3>2. Len(mem[x]) >= p
      BY <2>2, <3>1, SMT
    <3>3. NewPlace(x, Len(mem[x]), x, p) = Len(mem[x]) + 1
      BY <3>2, Zenon DEF NewPlace
    <3>4. mem'[x][NewPlace(x, Len(mem[x]), x, p)].val = mem[x][Len(mem[x])].val
      BY <3>1, <1>2, <1>4
    <3> QED BY <2>2, <3>3, <3>4
  <2> QED BY <2>1, <2>2
<1>8. \A i \in DOMAIN mem[back] : mem'[back][i].view = Moved(mem[back][i].view, x, p)
  <2>1. \A i : NewPlace(back, i, x, p) = i
    BY <1>2, Zenon DEF NewPlace
  <2> QED BY <1>0, <1>4, <2>1, Zenon
<1>9. DOMAIN mem'[back] = DOMAIN mem[back]
  BY ExchangeGrow
<1>10. NullPut(t, x, p)
  BY <1>1, <1>5, <1>6, <1>7, <1>8, <1>9, Zenon DEF NullPut
<1> QED BY <1>x, <1>10

\* The exchange: the item keeps its place before and after who knows of it.
LEMMA ExchangeIndex ==
    ASSUME ArrayIInv, ArrayIInv', ~Interleaved, IndexShared, NEW t \in Threads, DeqExchange(t)
    PROVE  IndexShared'
<1>0. MemoryType /\ MemoryType' /\ back \in Objects
  BY Apart DEF ArrayIInv
<1>1. PICK x : x = AR(k[t])
  BY Zenon
<1>2. PICK p : NullPut(t, x, p)
  BY <1>1, ExchangePuts
<1>3. k[t] \in Cells /\ \A y \in Objects \ {x} : SameWrites(y)
  BY <1>1, ExchangeValues
<1>4. x \in Objects /\ x # back /\ \A c \in Cells : AR(c) = x <=> c = k[t]
  BY <1>1, <1>3, Apart
<1>5. /\ p \in 2 .. Len(mem[x]) + 1 /\ mem'[x][p].val = Null
      /\ Len(mem[x]) \in Nat /\ p \in Nat /\ p >= 2
  <2>1. p \in 2 .. Len(mem[x]) + 1 /\ mem'[x][p].val = Null
    BY <1>2 DEF NullPut
  <2>2. Len(mem[x]) \in Nat
    BY <1>0, <1>4, LastWrite
  <2> QED BY <2>1, <2>2, SMT
<1>6. ASSUME NEW c \in Cells, c # k[t]
      PROVE  /\ DOMAIN mem'[AR(c)] = DOMAIN mem[AR(c)]
             /\ \A j \in DOMAIN mem[AR(c)] : mem'[AR(c)][j].val = mem[AR(c)][j].val
  <2>1. SameWrites(AR(c))
    BY <1>3, <1>4, <1>6, Apart
  <2> QED BY <1>0, <2>1, SameCell
<1>7. ASSUME NEW w \in Views, IndexBefore(mem, w)
      PROVE  IndexBefore(mem', Moved(w, x, p))
  <2> SUFFICES ASSUME NEW c \in Cells, NEW j \in DOMAIN mem'[AR(c)],
                      j <= Place(Moved(w, x, p), AR(c)), mem'[AR(c)][j].val # Null
               PROVE  Place(Moved(w, x, p), back) >= c + 2
    BY Zenon DEF IndexBefore
  <2>1. \A y : y # x => Place(Moved(w, x, p), y) = Place(w, y)
    BY <1>4, <1>5, MovedPlaces
  <2>2. CASE c = k[t]
    <3>1. AR(c) = x /\ j # p
      BY <2>2, <1>4, <1>5
    <3>2. PICK i \in DOMAIN mem[x] :
                j = NewPlace(x, i, x, p) /\ mem'[x][j].val = mem[x][i].val
      BY <3>1, <1>2 DEF NullPut
    <3>3. i <= Place(w, x)
      BY <3>1, <3>2, <1>0, <1>4, <1>5, MovedOrder
    <3>4. i \in DOMAIN mem[AR(c)] /\ i <= Place(w, AR(c)) /\ mem[AR(c)][i].val # Null
      BY <3>1, <3>2, <3>3
    <3>5. Place(w, back) >= c + 2
      BY <3>4, <1>7, Zenon DEF IndexBefore
    <3>6. Place(Moved(w, x, p), back) = Place(w, back)
      BY <2>1, <1>4
    <3> QED BY <3>5, <3>6
  <2>3. CASE c # k[t]
    <3>1. AR(c) # x
      BY <2>3, <1>4
    <3>2. /\ Place(Moved(w, x, p), AR(c)) = Place(w, AR(c))
          /\ Place(Moved(w, x, p), back) = Place(w, back)
      BY <3>1, <2>1, <1>4
    <3>3. j \in DOMAIN mem[AR(c)] /\ mem[AR(c)][j].val # Null
      BY <2>3, <1>6
    <3> QED BY <3>2, <3>3, <1>7, Zenon DEF IndexBefore
  <2> QED BY <2>2, <2>3
<1>8. pc[t] = "d_xchg" /\ k[t] \in Nat /\ lback[t] \in Nat /\ k[t] < lback[t]
  BY DEF DeqExchange, ArrayIInv, Indices
<1>9. Place(view'[t], back) = Place(view[t], back) /\ Place(view[t], back) \in Nat
      /\ Place(view[t], back) >= lback[t] + 1
  <2>1. view[t] \in Views
    BY <1>0, CellPlaces
  <2>2. Place(view'[t], back) = Place(view[t], back)
    BY <1>2, <1>4 DEF NullPut
  <2> QED BY <2>1, <2>2, <1>8, ViewPlace DEF IndexShared, IndexHeld
<1>10. IndexBefore(mem', view'[t])
  <2> SUFFICES ASSUME NEW c \in Cells, NEW j \in DOMAIN mem'[AR(c)],
                      j <= Place(view'[t], AR(c)), mem'[AR(c)][j].val # Null
               PROVE  Place(view'[t], back) >= c + 2
    BY Zenon DEF IndexBefore
  <2>1. CASE c = k[t]
    BY <2>1, <1>8, <1>9, SMT
  <2>2. CASE c # k[t]
    <3>1. Place(view'[t], AR(c)) = Place(view[t], AR(c))
      BY <2>2, <1>2, <1>4 DEF NullPut
    <3> QED BY <3>1, <2>2, <1>6, <1>9, Zenon DEF IndexBefore, IndexShared
  <2> QED BY <2>1, <2>2
<1>11. \A u \in Threads : IndexBefore(mem', view'[u])
  <2> SUFFICES ASSUME NEW u \in Threads PROVE IndexBefore(mem', view'[u])
    BY Zenon
  <2>1. CASE u = t
    BY <2>1, <1>10
  <2>2. CASE u # t
    <3>1. view'[u] = Moved(view[u], x, p)
      BY <2>2, <1>2 DEF NullPut
    <3>2. view[u] \in Views /\ IndexBefore(mem, view[u])
      BY <1>0, CellPlaces DEF IndexShared
    <3> QED BY <3>1, <3>2, <1>7
  <2> QED BY <2>1, <2>2
<1>12. \A i \in DOMAIN mem'[back] : IndexBefore(mem', mem'[back][i].view)
  <2> SUFFICES ASSUME NEW i \in DOMAIN mem[back] PROVE IndexBefore(mem', mem'[back][i].view)
    BY <1>2 DEF NullPut
  <2>1. mem'[back][i].view = Moved(mem[back][i].view, x, p)
    BY <1>2 DEF NullPut
  <2>2. mem[back][i].view \in Views /\ IndexBefore(mem, mem[back][i].view)
    BY <1>0, CellPlaces DEF IndexShared
  <2> QED BY <2>1, <2>2, <1>7
<1>13. /\ pc'[t] \in {"d_xchg", "idle"} /\ lback' = lback
       /\ \A u \in Threads \ {t} : pc'[u] = pc[u] /\ k'[u] = k[u]
  <2>1. ArrayTypeOK
    BY DEF ArrayIInv
  <2>2. \A u \in Threads \ {t} : k'[u] = k[u]
    BY Zenon DEF DeqExchange, ArrayIInv, Indices
  <2>3. PICK got \in Payloads : IF got # Null THEN Return(t, got)
           ELSE IF k[t] + 1 < lback[t] THEN Goto(t, "d_xchg") ELSE Return(t, Empty)
    BY <1>1, ExchangeMemory
  <2>4. pc'[t] \in {"d_xchg", "idle"} /\ \A u \in Threads \ {t} : pc'[u] = pc[u]
    BY <2>1, <2>3, ClientSteps, Zenon
  <2> QED BY <2>2, <2>4 DEF DeqExchange
<1>14. \A u \in Threads \ {t} : Place(view'[u], back) = Place(view[u], back)
  <2> SUFFICES ASSUME NEW u \in Threads, u # t
               PROVE  Place(view'[u], back) = Place(view[u], back)
    BY Zenon
  <2>1. view[u] \in Views /\ view'[u] = Moved(view[u], x, p)
    BY <1>0, <1>2, CellPlaces DEF NullPut
  <2>2. Place(Moved(view[u], x, p), back) = Place(view[u], back)
    BY <2>1, <1>4, <1>5, MovedPlaces
  <2> QED BY <2>1, <2>2
<1>15. \A u \in Threads :
            /\ pc'[u] = "e_store" => Place(view'[u], back) >= k'[u] + 2
            /\ pc'[u] = "d_xchg" => Place(view'[u], back) >= lback'[u] + 1
  <2> SUFFICES ASSUME NEW u \in Threads
               PROVE  /\ pc'[u] = "e_store" => Place(view'[u], back) >= k'[u] + 2
                      /\ pc'[u] = "d_xchg" => Place(view'[u], back) >= lback'[u] + 1
    BY Zenon
  <2>1. CASE u = t
    BY <2>1, <1>9, <1>13
  <2>2. CASE u # t
    BY <2>2, <1>13, <1>14, Zenon DEF IndexShared, IndexHeld
  <2> QED BY <2>1, <2>2
<1> QED BY <1>11, <1>12, <1>15, IndexAfter

\* Every step keeps it.
LEMMA IndexStep ==
    ASSUME ArrayIInv, ArrayIInv', IndexInv, [ArrayNext]_arrayVars
    PROVE  IndexInv'
<1>1. CASE UNCHANGED arrayVars
  BY <1>1 DEF IndexInv, IndexShared, IndexBefore, IndexHeld, Interleaved, arrayVars, Place, back, AR
<1>2. ASSUME NEW t \in Threads, ArrayStep(t)
      PROVE  IndexInv'
  <2>1. build' = build
    BY <1>2, Zenon DEF ArrayStep, EnqCall, EnqFetchAdd, EnqStore, DeqCall, DeqLoadBack, DeqExchange,
                       Starts, Does
  <2>2. ASSUME ~Interleaved PROVE IndexShared'
    <3>1. IndexShared
      BY <2>2 DEF IndexInv
    <3> QED BY <1>2, <2>2, <3>1, CallIndex, FetchAddIndex, StoreIndex, LoadIndex, ExchangeIndex
            DEF ArrayStep
  <2> QED BY <2>1, <2>2, Zenon DEF IndexInv, Interleaved
<1> QED BY <1>1, <1>2 DEF ArrayNext, ArrayDone

\* There is no item at the start.
LEMMA IndexStart ==
    ASSUME ArrayIInv, ArrayInit
    PROVE  IndexInv
<1>1. (\A t \in Threads : pc[t] = "idle") /\ Newest(back) = 0
  <2>1. \A t \in Threads : pc[t] = "idle"
    BY DEF ArrayInit, ClientInit
  <2>2. Newest(back) = 0
    <3>1. mem[back] = FirstWrite(0)
      BY Apart, SMT DEF ArrayInit, MemInit, MemOf
    <3> QED BY <3>1, SMT DEF Newest, Last, FirstWrite
  <2> QED BY <2>1, <2>2
<1>2. ASSUME NEW c \in Cells
      PROVE  \A j \in DOMAIN mem[AR(c)] : mem[AR(c)][j].val = Null
  <2>1. Untouched(c)
    BY <1>1, SMT DEF ArrayIInv, CellsFill, Cells
  <2> QED BY <2>1 DEF Untouched
<1>3. \A w : IndexBefore(mem, w)
  BY <1>2, Zenon DEF IndexBefore
<1>4. \A t \in Threads : IndexHeld(t)
  BY <1>1 DEF IndexHeld
<1> QED BY <1>3, <1>4, Zenon DEF IndexInv, IndexShared

-----------------------------------------------------------------------------
\* The sweep of a dequeue.

\* The item of cell c has been stored.
Stored(c) == c < Newest(back) /\ \A t \in Threads : pc[t] = "e_store" => k[t] # c

\* The sweep of t is at k[t]: what it knew of is gone behind it, and ahead of it
\* there is nothing after the item but null.
SweepFull(t, c) ==
    pc[t] = "d_xchg" =>
        /\ Stored(c) /\ c < lback[t]
        /\ c < k[t] => Newest(AR(c)) = Null
        /\ c >= k[t] => \A j \in DOMAIN mem[AR(c)] :
                          j > Place(view[t], AR(c)) => mem[AR(c)][j].val = Null
SweepsFull == \A t \in Threads : \A c \in full[t] : c \in Cells /\ SweepFull(t, c)

\* What a step of t leaves alone of the other threads.
LEMMA OthersStay ==
    ASSUME ArrayIInv, NEW t \in Threads, ArrayStep(t)
    PROVE  \A u \in Threads \ {t} : pc'[u] = pc[u] /\ k'[u] = k[u] /\ lback'[u] = lback[u]
<1>0. ArrayTypeOK /\ k \in [Threads -> Nat] /\ lback \in [Threads -> Nat]
  BY DEF ArrayIInv, Indices
<1>1. \A l, r, kind : Goto(t, l) \/ Return(t, r) \/ Invoke(t, kind, l) =>
            \A u \in Threads \ {t} : pc'[u] = pc[u]
  BY <1>0, ClientSteps, Zenon
<1>2. CASE EnqCall(t)
  BY <1>1, <1>2, Zenon DEF EnqCall
<1>3. CASE EnqFetchAdd(t)
  BY <1>0, <1>1, <1>3, Zenon DEF EnqFetchAdd
<1>4. CASE EnqStore(t)
  BY <1>1, <1>4, Zenon DEF EnqStore
<1>5. CASE DeqCall(t)
  BY <1>1, <1>5, Zenon DEF DeqCall
<1>6. CASE DeqLoadBack(t)
  <2>1. \A u \in Threads \ {t} : pc'[u] = pc[u] /\ lback'[u] = lback[u]
    BY <1>0, <1>1, <1>6, LoadMemory
  <2>2. \A u \in Threads \ {t} : k'[u] = k[u]
    BY <1>0, <1>6, Zenon DEF DeqLoadBack
  <2> QED BY <2>1, <2>2
<1>7. CASE DeqExchange(t)
  <2>1. \A u \in Threads \ {t} : pc'[u] = pc[u]
    BY <1>1, <1>7, Zenon DEF DeqExchange
  <2>2. \A u \in Threads \ {t} : k'[u] = k[u] /\ lback'[u] = lback[u]
    BY <1>0, <1>7, Zenon DEF DeqExchange
  <2> QED BY <2>1, <2>2
<1> QED BY <1>2, <1>3, <1>4, <1>5, <1>6, <1>7 DEF ArrayStep

\* The cells t does not write to, and what the others know of them.
LEMMA OtherCells ==
    ASSUME ArrayIInv, ArrayIInv', NEW t \in Threads, ArrayStep(t), NEW c \in Cells,
           EnqStore(t) \/ DeqExchange(t) => c # k[t]
    PROVE  /\ SameWrites(AR(c))
           /\ \A u \in Threads \ {t} : Place(view'[u], AR(c)) = Place(view[u], AR(c))
<1>0. MemoryType /\ ViewsInTime /\ OneWrite /\ AR(c) \in Objects /\ AR(c) # back
  BY Apart DEF ArrayIInv
<1>1. CASE EnqCall(t) \/ DeqCall(t)
  <2>1. PICK own : /\ own = Nothing \/ \E v \in Payloads : own = Filled(Payload(v))
                   /\ \E ts \in FlagsRead(t) : Starts(t, ts, own)
    BY <1>1, StartOf
  <2>2. PICK ts \in FlagsRead(t) : Starts(t, ts, own)
    BY <2>1
  <2>3. mem' = mem /\ \A u \in Threads \ {t} : view'[u] = view[u]
    BY <1>0, <2>1, <2>2, CallMemory
  <2> QED BY <2>3, Zenon DEF SameWrites
<1>2. CASE DeqLoadBack(t)
  <2>1. mem' = mem /\ \A u \in Threads \ {t} : view'[u] = view[u]
    BY <1>2, LoadMemory
  <2> QED BY <2>1, Zenon DEF SameWrites
<1>3. CASE EnqFetchAdd(t)
  <2>1. mem'[AR(c)] = mem[AR(c)] /\ \A u \in Threads \ {t} : view'[u] = view[u]
    BY <1>3, FetchAddMemory
  <2> QED BY <2>1, Zenon DEF SameWrites
<1>4. CASE EnqStore(t)
  <2>1. PICK x, n : x = AR(k[t]) /\ n = Len(mem[x])
    BY Zenon
  <2>2. k[t] \in Cells /\ ItemStored(t, x, n)
    BY <1>4, <2>1, StoreMemory
  <2>3. AR(c) # x
    BY <1>4, <2>1, <2>2, Apart
  <2>4. mem'[AR(c)] = mem[AR(c)] /\ \A u \in Threads \ {t} : view'[u] = view[u]
    BY <1>0, <2>2, <2>3, Zenon DEF ItemStored
  <2> QED BY <2>4, Zenon DEF SameWrites
<1>5. CASE DeqExchange(t)
  <2>1. PICK x : x = AR(k[t])
    BY Zenon
  <2>2. k[t] \in Cells /\ \A y \in Objects \ {x} : SameWrites(y)
    BY <1>5, <2>1, ExchangeValues
  <2>3. AR(c) # x /\ x \in Objects
    BY <1>5, <2>1, <2>2, Apart
  <2>4. ASSUME NEW u \in Threads, u # t
        PROVE  Place(view'[u], AR(c)) = Place(view[u], AR(c))
    <3>1. CASE Interleaved
      <4>1. view' = view
        BY <1>5, <2>1, <3>1, ExchangeMemory
      <4> QED BY <4>1
    <3>2. CASE ~Interleaved
      <4>1. PICK p : NullPut(t, x, p)
        BY <1>5, <2>1, <3>2, ExchangePuts
      <4>2. Len(mem[x]) \in Nat
        BY <1>0, <2>3, LastWrite
      <4>3. p \in Nat /\ p >= 2
        BY <4>1, <4>2, SMT DEF NullPut
      <4>4. view'[u] = Moved(view[u], x, p) /\ view[u] \in Views
        BY <1>0, <2>4, <4>1, CellPlaces DEF NullPut
      <4>5. Place(Moved(view[u], x, p), AR(c)) = Place(view[u], AR(c))
        BY <2>3, <4>2, <4>3, <4>4, MovedPlaces
      <4> QED BY <4>4, <4>5
    <3> QED BY <3>1, <3>2
  <2> QED BY <1>0, <2>2, <2>3, <2>4
<1> QED BY <1>1, <1>2, <1>3, <1>4, <1>5 DEF ArrayStep

\* back is never counted down.
LEMMA NewestGrows ==
    ASSUME ArrayIInv, ArrayIInv', NEW t \in Threads, ArrayStep(t)
    PROVE  Newest(back) \in Nat /\ Newest(back)' \in Nat /\ Newest(back) <= Newest(back)'
<1>0. Newest(back) \in Nat
  BY NewestBack DEF ArrayIInv
<1>1. CASE EnqFetchAdd(t)
  <2>1. Newest(back)' = Newest(back) + 1
    BY <1>1, FetchAddMemory
  <2> QED BY <2>1, <1>0, SMT
<1>2. CASE ~EnqFetchAdd(t)
  <2>1. SameWrites(back)
    <3>1. CASE EnqCall(t) \/ DeqCall(t) \/ DeqLoadBack(t)
      <4>1. mem' = mem
        BY <3>1, LoadMemory, Zenon DEF EnqCall, DeqCall, Starts
      <4> QED BY <4>1, Zenon DEF SameWrites
    <3>2. CASE EnqStore(t)
      <4>1. PICK x : x = AR(k[t])
        BY Zenon
      <4>2. k[t] \in Cells /\ \A y \in Objects \ {x} : SameWrites(y)
        BY <3>2, <4>1, StoreValues
      <4> QED BY <4>1, <4>2, Apart
    <3>3. CASE DeqExchange(t)
      <4>1. PICK x : x = AR(k[t])
        BY Zenon
      <4>2. k[t] \in Cells /\ \A y \in Objects \ {x} : SameWrites(y)
        BY <3>3, <4>1, ExchangeValues
      <4> QED BY <4>1, <4>2, Apart
    <3> QED BY <1>2, <3>1, <3>2, <3>3 DEF ArrayStep
  <2>2. Newest(back)' = Newest(back)
    BY <2>1, Apart, SameLocation DEF ArrayIInv
  <2> QED BY <2>2, <1>0, SMT
<1> QED BY <1>1, <1>2

\* The item of a cell stays stored: nobody takes the index again.
LEMMA StoredStays ==
    ASSUME ArrayIInv, ArrayIInv', NEW t \in Threads, ArrayStep(t), NEW c \in Cells, Stored(c)
    PROVE  Stored(c)'
<1>1. /\ \A u \in Threads \ {t} : pc'[u] = pc[u] /\ k'[u] = k[u]
      /\ Newest(back) \in Nat /\ Newest(back)' \in Nat /\ Newest(back) <= Newest(back)'
  BY OthersStay, NewestGrows
<1>2. c < Newest(back) /\ c \in Nat
  BY DEF Stored, Cells
<1>3. c < Newest(back)'
  BY <1>1, <1>2, SMT
<1>4. pc'[t] = "e_store" => k'[t] # c
  <2>1. CASE EnqFetchAdd(t)
    <3>1. k' = [k EXCEPT ![t] = Newest(back)]
      BY <2>1, FetchAddMemory
    <3>2. k'[t] = Newest(back)
      BY <3>1, Zenon DEF ArrayIInv, Indices
    <3> QED BY <3>2, <1>1, <1>2, SMT
  <2>2. CASE ~EnqFetchAdd(t)
    <3>0. ArrayTypeOK
      BY DEF ArrayIInv
    <3>1. CASE EnqCall(t) \/ DeqCall(t)
      <4>1. \A kind, l : Invoke(t, kind, l) => pc'[t] = l
        BY <3>0, InvokeEnters, Zenon
      <4>2. pc'[t] = "e_faa" \/ pc'[t] = "d_back"
        BY <3>1, <4>1, Zenon DEF EnqCall, DeqCall
      <4> QED BY <4>2
    <3>2. CASE ~(EnqCall(t) \/ DeqCall(t))
      <4>1. \/ \E r : Return(t, r)
            \/ Goto(t, "d_xchg")
        BY <2>2, <3>2, Zenon DEF ArrayStep, EnqStore, DeqLoadBack, DeqExchange
      <4>2. pc'[t] \in {"idle", "d_xchg"}
        BY <3>0, <4>1, ClientSteps, Zenon
      <4> QED BY <4>2
    <3> QED BY <3>1, <3>2
  <2> QED BY <2>1, <2>2
<1>5. \A u \in Threads : pc'[u] = "e_store" => k'[u] # c
  <2>1. \A u \in Threads : pc[u] = "e_store" => k[u] # c
    BY DEF Stored
  <2> QED BY <1>1, <1>4, <2>1, Zenon
<1> QED BY <1>3, <1>5, Zenon DEF Stored, Newest, back

\* Where the writes to a cell keep their values, so does a sweep of it.
LEMMA QuietSweep ==
    ASSUME ArrayIInv, ArrayIInv', NEW u \in Threads, NEW c \in Cells, SweepFull(u, c),
           SameWrites(AR(c)), Place(view'[u], AR(c)) = Place(view[u], AR(c)),
           Stored(c) => Stored(c)',
           pc'[u] = "d_xchg" => pc[u] = "d_xchg", lback'[u] = lback[u],
           c < k'[u] => c < k[u], c >= k'[u] => c >= k[u]
    PROVE  SweepFull(u, c)'
<1>1. /\ DOMAIN mem'[AR(c)] = DOMAIN mem[AR(c)]
      /\ \A j \in DOMAIN mem[AR(c)] : mem'[AR(c)][j].val = mem[AR(c)][j].val
      /\ Newest(AR(c))' = Newest(AR(c))
  BY SameCell DEF ArrayIInv
<1>2. ASSUME pc'[u] = "d_xchg"
      PROVE  /\ Stored(c)' /\ c < lback'[u]
             /\ c < k'[u] => Newest(AR(c))' = Null
             /\ c >= k'[u] => \A j \in DOMAIN mem'[AR(c)] :
                               j > Place(view'[u], AR(c)) => mem'[AR(c)][j].val = Null
  BY <1>1, <1>2, Zenon DEF SweepFull
<1> QED BY <1>2, Zenon DEF SweepFull, Newest, Place, AR

\* The cell an exchange is at.
LEMMA ExchangeCell ==
    ASSUME ArrayIInv, ArrayIInv', NEW t \in Threads, DeqExchange(t), NEW c \in Cells, c = k[t]
    PROVE  /\ Newest(AR(c)) = Null => Newest(AR(c))' = Null
           /\ \A u \in Threads \ {t} :
                (\A j \in DOMAIN mem[AR(c)] :
                    j > Place(view[u], AR(c)) => mem[AR(c)][j].val = Null) =>
                \A j \in DOMAIN mem'[AR(c)] :
                    j > Place(view'[u], AR(c)) => mem'[AR(c)][j].val = Null
           /\ (\A j \in DOMAIN mem[AR(c)] :
                    j > Place(view[t], AR(c)) => mem[AR(c)][j].val = Null) =>
                Newest(AR(c))' = Null
<1>0. PICK x : x = AR(c)
  BY Zenon
<1>1. MemoryType /\ MemoryType' /\ x \in Objects
  BY <1>0, Apart DEF ArrayIInv
<1>2. /\ Newest(x) = mem[x][Len(mem[x])].val /\ Len(mem[x]) \in Nat /\ Len(mem[x]) \in DOMAIN mem[x]
      /\ DOMAIN mem[x] = 1 .. Len(mem[x])
  BY <1>1, LastWrite
<1>3. Newest(x)' = mem'[x][Len(mem'[x])].val
  BY <1>1, Zenon DEF Newest, Last
<1>4. /\ mem'[x] \in Seq(Writes) /\ \A u \in Threads : view[u] \in Views /\ view'[u] \in Views
  BY <1>1 DEF MemoryType, Objects, Cells, Writes, Views, Locations
<1>5. \A u \in Threads : Place(view[u], x) \in Nat \ {0} /\ Place(view'[u], x) \in Nat \ {0}
  BY <1>4, ViewPlace
<1>6. CASE Interleaved
  <2>1. mem'[x][1].val = Null
    BY <1>0, <1>6, ExchangeMemory
  <2>2. Len(mem'[x]) = 1
    BY <1>1, <1>6, Zenon DEF ArrayIInv, OneWrite, Interleaved, DeqExchange, Does
  <2>3. Newest(x)' = Null
    BY <1>3, <2>1, <2>2
  <2>4. \A u \in Threads : \A j \in DOMAIN mem'[x] : ~(j > Place(view'[u], x))
    BY <1>4, <1>5, <2>2, SMT
  <2> QED BY <1>0, <2>3, <2>4, Zenon DEF AR
<1>7. CASE ~Interleaved
  <2>1. PICK p : NullPut(t, x, p)
    BY <1>0, <1>7, ExchangePuts
  <2>2. /\ p \in 2 .. Len(mem[x]) + 1 /\ p > Place(view[t], x) /\ mem'[x][p].val = Null
        /\ \A j \in DOMAIN mem'[x] : j # p =>
              \E i \in DOMAIN mem[x] : j = NewPlace(x, i, x, p) /\ mem'[x][j].val = mem[x][i].val
        /\ Len(mem'[x]) = Len(mem[x]) + 1
        /\ mem'[x][Len(mem[x]) + 1].val = IF p = Len(mem[x]) + 1 THEN Null
                                          ELSE mem[x][Len(mem[x])].val
        /\ \A u \in Threads \ {t} : view'[u] = Moved(view[u], x, p)
    BY <2>1, Zenon DEF NullPut
  <2>3. Newest(x)' = IF p = Len(mem[x]) + 1 THEN Null ELSE Newest(x)
    BY <1>2, <1>3, <2>2, Zenon
  <2>4. Newest(x) = Null => Newest(x)' = Null
    BY <2>3
  <2>5. ASSUME NEW u \in Threads, u # t,
               \A j \in DOMAIN mem[x] : j > Place(view[u], x) => mem[x][j].val = Null,
               NEW j \in DOMAIN mem'[x], j > Place(view'[u], x)
        PROVE  mem'[x][j].val = Null
    <3>1. CASE j = p
      BY <3>1, <2>2
    <3>2. CASE j # p
      <4>1. PICK i \in DOMAIN mem[x] : j = NewPlace(x, i, x, p) /\ mem'[x][j].val = mem[x][i].val
        BY <3>2, <2>2
      <4>2. j <= Place(Moved(view[u], x, p), x) <=> i <= Place(view[u], x)
        BY <1>1, <1>4, <2>2, <4>1, MovedOrder
      <4>3. view'[u] = Moved(view[u], x, p)
        BY <2>2, <2>5
      <4>4. i \in Nat /\ j \in Nat
        BY <1>2, <1>4, SMT
      <4>5. i > Place(view[u], x)
        <5>1. ~(j <= Place(view'[u], x))
          BY <1>5, <2>5, <4>4, SMT
        <5>2. ~(i <= Place(view[u], x))
          BY <4>2, <4>3, <5>1
        <5> QED BY <5>2, <1>5, <4>4, SMT
      <4> QED BY <4>1, <4>5, <2>5
    <3> QED BY <3>1, <3>2
  <2>6. ASSUME \A j \in DOMAIN mem[x] : j > Place(view[t], x) => mem[x][j].val = Null
        PROVE  Newest(x)' = Null
    <3>1. CASE p = Len(mem[x]) + 1
      BY <3>1, <2>3
    <3>2. CASE p # Len(mem[x]) + 1
      <4>1. Len(mem[x]) > Place(view[t], x)
        BY <3>2, <1>2, <1>5, <2>2, SMT
      <4> QED BY <4>1, <2>3, <2>6, <1>2
    <3> QED BY <3>1, <3>2
  <2> QED BY <1>0, <2>4, <2>5, <2>6, Zenon DEF AR
<1> QED BY <1>6, <1>7

\* No step of another thread spoils a sweep: no item is stored in a cell again.
LEMMA OthersSweep ==
    ASSUME ArrayIInv, ArrayIInv', NEW t \in Threads, ArrayStep(t),
           NEW u \in Threads, u # t, NEW c \in Cells, SweepFull(u, c)
    PROVE  SweepFull(u, c)'
<1>0. pc'[u] = pc[u] /\ k'[u] = k[u] /\ lback'[u] = lback[u]
  BY OthersStay
<1>1. Stored(c) => Stored(c)'
  BY StoredStays
<1>2. CASE pc[u] # "d_xchg"
  BY <1>0, <1>2, Zenon DEF SweepFull
<1>3. CASE pc[u] = "d_xchg" /\ (EnqStore(t) \/ DeqExchange(t) => c # k[t])
  <2>1. SameWrites(AR(c)) /\ Place(view'[u], AR(c)) = Place(view[u], AR(c))
    BY <1>3, OtherCells
  <2> QED BY <2>1, <1>0, <1>1, QuietSweep
<1>4. CASE pc[u] = "d_xchg" /\ EnqStore(t) /\ c = k[t]
  <2>1. Stored(c)
    BY <1>4 DEF SweepFull
  <2>2. pc[t] = "e_store"
    BY <1>4 DEF EnqStore
  <2> QED BY <2>1, <2>2, <1>4 DEF Stored
<1>5. CASE pc[u] = "d_xchg" /\ DeqExchange(t) /\ c = k[t]
  <2>1. /\ Newest(AR(c)) = Null => Newest(AR(c))' = Null
        /\ (\A j \in DOMAIN mem[AR(c)] :
                j > Place(view[u], AR(c)) => mem[AR(c)][j].val = Null) =>
            \A j \in DOMAIN mem'[AR(c)] :
                j > Place(view'[u], AR(c)) => mem'[AR(c)][j].val = Null
    BY <1>5, ExchangeCell
  <2>2. /\ Stored(c)' /\ c < lback'[u]
        /\ c < k'[u] => Newest(AR(c))' = Null
        /\ c >= k'[u] => \A j \in DOMAIN mem'[AR(c)] :
                          j > Place(view'[u], AR(c)) => mem'[AR(c)][j].val = Null
    BY <2>1, <1>0, <1>1, <1>5, Zenon DEF SweepFull
  <2> QED BY <2>2, Zenon DEF SweepFull, Newest, Place, AR
<1> QED BY <1>2, <1>3, <1>4, <1>5

\* The sweep goes on: it leaves nothing in the cell it passes.
LEMMA OwnSweep ==
    ASSUME ArrayIInv, ArrayIInv', NEW t \in Threads, ArrayStep(t), ~DeqLoadBack(t),
           NEW c \in Cells, SweepFull(t, c)
    PROVE  SweepFull(t, c)'
<1>0. Stored(c) => Stored(c)'
  BY StoredStays
<1>1. CASE ~DeqExchange(t)
  <2>1. ArrayTypeOK
    BY DEF ArrayIInv
  <2>2. \/ \E kind : \E l \in {"e_faa", "d_back"} : Invoke(t, kind, l)
        \/ Goto(t, "e_store") \/ \E r : Return(t, r)
    BY <1>1, Zenon DEF ArrayStep, EnqCall, DeqCall, EnqFetchAdd, EnqStore
  <2>3. pc'[t] \in {"e_faa", "d_back", "e_store", "idle"}
    BY <2>1, <2>2, ClientSteps, Zenon
  <2> QED BY <2>3 DEF SweepFull
<1>2. CASE DeqExchange(t)
  <2>1. /\ pc[t] = "d_xchg" /\ lback' = lback /\ k'[t] = k[t] + 1
        /\ k[t] \in Nat /\ c \in Nat
    BY <1>2 DEF DeqExchange, ArrayIInv, Indices, Cells
  <2>2. CASE c # k[t]
    <3>1. SameWrites(AR(c))
      BY <1>2, <2>2, OtherCells
    <3>2. Place(view'[t], AR(c)) = Place(view[t], AR(c))
      <4>1. PICK x : x = AR(k[t])
        BY Zenon
      <4>2. CASE Interleaved
        <5>1. view' = view
          BY <1>2, <4>1, <4>2, ExchangeMemory
        <5> QED BY <5>1
      <4>3. CASE ~Interleaved
        <5>1. PICK p : NullPut(t, x, p)
          BY <1>2, <4>1, <4>3, ExchangePuts
        <5>2. AR(c) # x
          <6>1. k[t] \in Cells
            BY <1>2, <4>1, ExchangeValues
          <6> QED BY <6>1, <2>2, <4>1, Apart
        <5> QED BY <5>1, <5>2, Zenon DEF NullPut
      <4> QED BY <4>2, <4>3
    <3>3. (c < k'[t] => c < k[t]) /\ (c >= k'[t] => c >= k[t])
      BY <2>1, <2>2, SMT
    <3> QED BY <3>1, <3>2, <3>3, <1>0, <2>1, QuietSweep
  <2>3. CASE c = k[t]
    <3>1. c < k'[t] /\ ~(c >= k'[t]) /\ c >= k[t]
      BY <2>1, <2>3, SMT
    <3>2. /\ Stored(c) /\ c < lback[t]
          /\ \A j \in DOMAIN mem[AR(c)] : j > Place(view[t], AR(c)) => mem[AR(c)][j].val = Null
      BY <3>1, <2>1, Zenon DEF SweepFull
    <3>3. Newest(AR(c))' = Null
      BY <3>2, <1>2, <2>3, ExchangeCell
    <3> QED BY <1>0, <2>1, <3>1, <3>2, <3>3, Zenon DEF SweepFull, Newest, AR
  <2> QED BY <2>2, <2>3
<1> QED BY <1>1, <1>2

\* The sweep begins: what it knows of has an index below the one it read.
LEMMA LoadSweep ==
    ASSUME ArrayIInv, ArrayIInv', IndexInv, NEW t \in Threads, DeqLoadBack(t),
           NEW c \in Cells, SeenIn(t, c) # Null
    PROVE  SweepFull(t, c)' /\ c < lback'[t]
<1>0. /\ MemoryType /\ OneWrite /\ BackCounts /\ CellsFill /\ OneItem
      /\ AR(c) \in Objects /\ back \in Objects /\ c \in Nat
  BY Apart DEF ArrayIInv, Cells
<1>1. PICK j : j = Place(view[t], AR(c))
  BY Zenon
<1>2. view[t] \in Views /\ j \in Nat \ {0}
  BY <1>0, <1>1, CellPlaces, ViewPlace
<1>3. j \in DOMAIN mem[AR(c)] /\ mem[AR(c)][j].val # Null
  <2>1. j <= Len(mem[AR(c)])
    BY <1>0, <1>1, <1>2, Zenon DEF ArrayIInv, ViewsInTime, ViewInTime, Known
  <2>2. Len(mem[AR(c)]) \in Nat /\ DOMAIN mem[AR(c)] = 1 .. Len(mem[AR(c)])
    BY <1>0, LastWrite
  <2>3. j \in DOMAIN mem[AR(c)]
    BY <2>1, <2>2, <1>2, SMT
  <2> QED BY <2>3, <1>1, Zenon DEF SeenIn
<1>4. Newest(back) \in Nat
  BY <1>0, NewestBack
<1>5. Stored(c)
  <2>1. ~Untouched(c)
    BY <1>3, Zenon DEF Untouched
  <2>2. ~(c >= Newest(back)) /\ \A u \in Threads : pc[u] = "e_store" => k[u] # c
    BY <1>0, <2>1, Zenon DEF CellsFill
  <2>3. c < Newest(back)
    BY <2>2, <1>0, <1>4, SMT
  <2> QED BY <2>2, <2>3 DEF Stored
<1>6. Stored(c)'
  BY <1>5, StoredStays DEF ArrayStep
<1>7. mem' = mem /\ k'[t] = 0
  <2>1. k'[t] = 0
    BY Zenon DEF DeqLoadBack, ArrayIInv, Indices, SweepFrom
  <2> QED BY <2>1, LoadMemory
<1>8. c < lback'[t]
  <2>1. CASE Interleaved
    <3>1. lback'[t] = Newest(back)
      BY <2>1, LoadMemory
    <3> QED BY <3>1, <1>5 DEF Stored
  <2>2. CASE ~Interleaved
    <3>1. PICK i \in 1 .. Len(mem[back]) : lback'[t] = i - 1 /\ i >= Place(view[t], back)
      BY <2>2, LoadMemory
    <3>2. Place(view[t], back) >= c + 2
      <4>1. j <= Place(view[t], AR(c))
        BY <1>1, <1>2, SMT
      <4> QED BY <4>1, <2>2, <1>3, Zenon DEF IndexInv, IndexShared, IndexBefore
    <3>3. Place(view[t], back) \in Nat /\ i \in Nat
      <4>1. Len(mem[back]) \in Nat
        BY <1>0, LastWrite
      <4> QED BY <4>1, <1>2, ViewPlace
    <3> QED BY <3>1, <3>2, <3>3, <1>0, SMT
  <2> QED BY <2>1, <2>2
<1>9. \A i \in DOMAIN mem'[AR(c)] : i > Place(view'[t], AR(c)) => mem'[AR(c)][i].val = Null
  <2> SUFFICES ASSUME NEW i \in DOMAIN mem[AR(c)], i > Place(view'[t], AR(c)),
                      mem[AR(c)][i].val # Null
               PROVE  FALSE
    BY <1>7, Zenon
  <2>1. i = j
    BY <1>0, <1>3, Zenon DEF OneItem
  <2>2. Place(view[t], AR(c)) <= Place(view'[t], AR(c))
    <3>1. CASE Interleaved
      <4>1. view' = view
        BY <3>1, LoadMemory
      <4> QED BY <4>1, <1>1, <1>2, SMT
    <3>2. CASE ~Interleaved
      <4>1. \A y : Place(view[t], y) <= Place(view'[t], y)
        BY <3>2, LoadMemory
      <4> QED BY <4>1
    <3> QED BY <3>1, <3>2
  <2>3. Place(view'[t], AR(c)) \in Nat
    <3>1. view'[t] \in Views
      BY DEF ArrayIInv, MemoryType, Views, Locations, Objects, Cells
    <3> QED BY <3>1, ViewPlace
  <2> QED BY <2>1, <2>2, <2>3, <1>1, <1>2, SMT
<1>10. ~(c < k'[t])
  BY <1>0, <1>7, SMT
<1>11. SweepFull(t, c)'
  BY <1>6, <1>8, <1>9, <1>10, Zenon DEF SweepFull, Newest, Place, AR
<1> QED BY <1>8, <1>11

\* The set of full cells is chosen when back is loaded.
LEMMA FullStays ==
    ASSUME WatchCells, NEW u \in Threads
    PROVE  IF pc[u] = "d_back" /\ pc'[u] # "d_back"
           THEN full'[u] = {i \in Cells : SeenIn(u, i) # Null}
           ELSE \A c \in full'[u] : c \in full[u]
<1>1. full'[u] = IF pc[u] = "d_back" /\ pc'[u] # "d_back"
                 THEN {i \in Cells : SeenIn(u, i) # Null}
                 ELSE IF InCall(u)' THEN full[u] ELSE {}
  BY Zenon DEF WatchCells, KnownFull
<1>2. CASE pc[u] = "d_back" /\ pc'[u] # "d_back"
  BY <1>1, <1>2, Zenon
<1>3. CASE ~(pc[u] = "d_back" /\ pc'[u] # "d_back")
  <2>1. full'[u] = IF InCall(u)' THEN full[u] ELSE {}
    BY <1>1, <1>3, Zenon
  <2>2. \A c \in full'[u] : c \in full[u]
    BY <2>1
  <2> QED BY <1>3, <2>2
<1> QED BY <1>2, <1>3

\* A step that changes nothing.
LEMMA SweepSame ==
    ASSUME UNCHANGED arrayVars, NEW u \in Threads, NEW c, SweepFull(u, c)
    PROVE  SweepFull(u, c)'
BY Zenon DEF SweepFull, Stored, Newest, Place, AR, back, arrayVars

\* Every step keeps the invariant of the sweeps.
LEMMA SweepsStep ==
    ASSUME ArrayIInv, ArrayIInv', IndexInv, SweepsFull, [LinNext]_linVars
    PROVE  SweepsFull'
<1>1. ASSUME UNCHANGED linVars PROVE SweepsFull'
  <2>1. UNCHANGED arrayVars /\ full' = full
    BY <1>1 DEF linVars, arrayVars
  <2> QED BY <2>1, SweepSame, Zenon DEF SweepsFull, Cells
<1>2. ASSUME ArrayDone, WatchCells PROVE SweepsFull'
  <2>1. UNCHANGED arrayVars
    BY <1>2 DEF ArrayDone
  <2>2. ASSUME NEW u \in Threads, NEW c \in full'[u]
        PROVE  c \in Cells /\ SweepFull(u, c)'
    <3>1. pc' = pc
      BY <2>1 DEF arrayVars
    <3>2. c \in full[u]
      BY <1>2, <2>2, <3>1, FullStays
    <3>3. c \in Cells /\ SweepFull(u, c)
      BY <3>2 DEF SweepsFull
    <3> QED BY <2>1, <3>3, SweepSame
  <2> QED BY <2>2, Zenon DEF SweepsFull, Cells
<1>3. ASSUME NEW t \in Threads, ArrayStep(t), WatchCells PROVE SweepsFull'
  <2>1. ASSUME NEW u \in Threads, NEW c \in full'[u]
        PROVE  c \in Cells /\ SweepFull(u, c)'
    <3>1. CASE u # t
      <4>1. pc'[u] = pc[u]
        BY <1>3, <3>1, OthersStay
      <4>2. c \in full[u]
        BY <1>3, <2>1, <4>1, FullStays
      <4>3. c \in Cells /\ SweepFull(u, c)
        BY <4>2 DEF SweepsFull
      <4> QED BY <1>3, <3>1, <4>3, OthersSweep
    <3>2. CASE u = t /\ DeqLoadBack(t)
      <4>1. pc[t] = "d_back" /\ pc'[t] # "d_back"
        <5>1. ArrayTypeOK
          BY DEF ArrayIInv
        <5>2. Goto(t, "d_xchg") \/ Return(t, Empty)
          BY <3>2, Zenon DEF DeqLoadBack
        <5>3. pc'[t] \in {"d_xchg", "idle"}
          BY <5>1, <5>2, ClientSteps, Zenon
        <5> QED BY <5>3, <3>2 DEF DeqLoadBack
      <4>2. full'[t] = {i \in Cells : SeenIn(t, i) # Null}
        BY <1>3, <4>1, FullStays
      <4>3. c \in Cells /\ SeenIn(t, c) # Null
        BY <2>1, <3>2, <4>2
      <4> QED BY <3>2, <4>3, LoadSweep
    <3>3. CASE u = t /\ ~DeqLoadBack(t)
      <4>1. ~(pc[t] = "d_back" /\ pc'[t] # "d_back")
        <5> SUFFICES ASSUME pc[t] = "d_back" PROVE FALSE
          OBVIOUS
        <5> QED BY <1>3, <3>3, SMT DEF ArrayStep, EnqCall, DeqCall, EnqFetchAdd, EnqStore,
                                       DeqExchange, Invoke, InCall
      <4>2. c \in full[t]
        BY <1>3, <2>1, <3>3, <4>1, FullStays
      <4>3. c \in Cells /\ SweepFull(t, c)
        BY <4>2 DEF SweepsFull
      <4> QED BY <1>3, <3>3, <4>3, OwnSweep
    <3> QED BY <3>1, <3>2, <3>3
  <2> QED BY <2>1, Zenon DEF SweepsFull, Cells
<1> QED BY <1>1, <1>2, <1>3 DEF LinNext, ArrayNext

\* A sweep that ends without an item has passed all the cells it knew to be full.
LEMMA SweepEnds ==
    ASSUME ItemsApart, ArrayIInv, ArrayIInv', NEW t \in Threads, DeqExchange(t),
           ret'[t] = Empty, pc'[t] = "idle", NEW c \in Cells, SweepFull(t, c)
    PROVE  Newest(AR(c))' = Null
<1>1. PICK x : x = AR(k[t])
  BY Zenon
<1>2. PICK got \in Payloads : IF got # Null THEN Return(t, got)
              ELSE IF k[t] + 1 < lback[t] THEN Goto(t, "d_xchg") ELSE Return(t, Empty)
  BY <1>1, ExchangeMemory
<1>3. ArrayTypeOK
  BY DEF ArrayIInv
<1>4. ~(k[t] + 1 < lback[t])
  <2>1. got = Null
    <3>1. got # Null => ret'[t] = got
      BY <1>2, <1>3, ClientSteps, Zenon
    <3>2. Empty \notin Vals
      BY DEF ItemsApart
    <3> QED BY <3>1, <3>2 DEF Payloads
  <2>2. ~Goto(t, "d_xchg")
    <3>1. Goto(t, "d_xchg") => pc'[t] = "d_xchg"
      BY <1>3, ClientSteps, Zenon
    <3> QED BY <3>1
  <2> QED BY <1>2, <2>1, <2>2
<1>5. /\ pc[t] = "d_xchg" /\ k[t] \in Nat /\ lback[t] \in Nat /\ c \in Nat
  BY DEF DeqExchange, ArrayIInv, Indices, Cells
<1>6. c < lback[t]
  BY <1>5, Zenon DEF SweepFull
<1>7. CASE c = k[t]
  <2>1. \A j \in DOMAIN mem[AR(c)] : j > Place(view[t], AR(c)) => mem[AR(c)][j].val = Null
    <3>1. c >= k[t]
      BY <1>5, <1>7, SMT
    <3> QED BY <3>1, <1>5, Zenon DEF SweepFull
  <2> QED BY <2>1, <1>7, ExchangeCell
<1>8. CASE c # k[t]
  <2>1. c < k[t]
    BY <1>4, <1>5, <1>6, <1>8, SMT
  <2>2. Newest(AR(c)) = Null
    BY <2>1, <1>5, Zenon DEF SweepFull
  <2>3. SameWrites(AR(c))
    BY <1>8, OtherCells DEF ArrayStep
  <2>4. Newest(AR(c))' = Newest(AR(c))
    BY <2>3, SameCell DEF ArrayIInv
  <2> QED BY <2>2, <2>4
<1> QED BY <1>7, <1>8

\* A dequeue that knows of a cell below the back it loads does not return.
LEMMA LoadedMore ==
    ASSUME ArrayIInv, ArrayIInv', NEW t \in Threads, DeqLoadBack(t), pc'[t] = "idle",
           NEW c \in Cells, c < lback'[t]
    PROVE  FALSE
<1>1. c \in Nat
  BY SMT DEF Cells
<1>2. PICK e \in Load(t, back, LoadBackOrder) :
          /\ lback' = [lback EXCEPT ![t] = e.val]
          /\ IF MoreCells(SweepFrom, e.val) THEN Goto(t, "d_xchg") ELSE Return(t, Empty)
  BY Zenon DEF DeqLoadBack
<1>3. lback'[t] = e.val /\ lback'[t] \in Nat
  BY <1>2, SMT DEF ArrayIInv, Indices
<1>4. MoreCells(SweepFrom, e.val)
  BY <1>1, <1>3, SMT DEF MoreCells, SweepFrom
<1>5. pc'[t] = "d_xchg"
  BY <1>2, <1>4, Zenon DEF Goto, ArrayIInv, ArrayTypeOK, ClientTypeOK
<1> QED BY <1>5

\* q_dequeue returns false only when every item it knew to be in its cell, when
\* it loaded back, has been taken by another dequeue before it returns.
THEOREM SweepCorrect ==
    ASSUME EnoughCells, ItemsApart
    PROVE  LinSpec => FalseOnlyIfRaced
<1> DEFINE Inv == ArrayIInv /\ IndexInv /\ SweepsFull
<1>1. LinInit => Inv
  <2> SUFFICES ASSUME LinInit PROVE Inv
    OBVIOUS
  <2>1. ArrayIInv
    BY ArrayStarts DEF LinInit
  <2>2. IndexInv
    BY <2>1, IndexStart DEF LinInit
  <2>3. SweepsFull
    BY DEF LinInit, SweepsFull
  <2> QED BY <2>1, <2>2, <2>3
<1>2. [LinNext]_linVars => [ArrayNext]_arrayVars
  BY Zenon DEF LinNext, linVars, arrayVars
<1>3. Inv /\ [LinNext]_linVars => Inv'
  <2> SUFFICES ASSUME ArrayIInv, IndexInv, SweepsFull, [LinNext]_linVars PROVE Inv'
    BY Zenon
  <2>1. ArrayIInv'
    BY <1>2, ArrayStepInv
  <2>2. IndexInv'
    BY <1>2, <2>1, IndexStep
  <2>3. SweepsFull'
    BY <2>1, SweepsStep
  <2> QED BY <2>1, <2>2, <2>3
<1> DEFINE Ends == \A t \in Threads :
                        pc[t] \in {"d_back", "d_xchg"} /\ ~InCall(t)' /\ ret'[t] = Empty =>
                            \A i \in KnownFull(t) : Newest(AR(i))' = Null
<1>4. Inv /\ Inv' /\ [LinNext]_linVars => [Ends]_linVars
  <2> SUFFICES ASSUME ArrayIInv, ArrayIInv', IndexInv, SweepsFull, LinNext,
                      NEW t \in Threads, pc[t] \in {"d_back", "d_xchg"}, ~InCall(t)',
                      ret'[t] = Empty, NEW c \in KnownFull(t)
               PROVE  Newest(AR(c))' = Null
    BY Zenon DEF AR, Newest
  <2>1. pc'[t] = "idle"
    BY DEF InCall
  <2>2. PICK u \in Threads : ArrayStep(u)
    <3>1. ~ArrayDone
      BY <2>1 DEF ArrayDone, arrayVars
    <3> QED BY <3>1 DEF LinNext, ArrayNext
  <2>3. u = t
    BY <2>1, <2>2, OthersStay
  <2>4. CASE pc[t] = "d_xchg"
    <3>1. c \in Cells /\ SweepFull(t, c)
      BY <2>4, Zenon DEF SweepsFull, KnownFull
    <3>2. DeqExchange(t)
      BY <2>2, <2>3, <2>4, SMT DEF ArrayStep, EnqCall, DeqCall, EnqFetchAdd, EnqStore,
                                   DeqLoadBack, Invoke, InCall
    <3> QED BY <3>1, <2>1, <3>2, SweepEnds
  <2>5. CASE pc[t] = "d_back"
    <3>1. c \in Cells /\ SeenIn(t, c) # Null
      BY <2>5, Zenon DEF KnownFull
    <3>2. DeqLoadBack(t)
      BY <2>2, <2>3, <2>5, SMT DEF ArrayStep, EnqCall, DeqCall, EnqFetchAdd, EnqStore,
                                   DeqExchange, Invoke, InCall
    <3>3. c < lback'[t]
      BY <3>1, <3>2, LoadSweep
    <3> QED BY <2>1, <3>1, <3>2, <3>3, LoadedMore
  <2> QED BY <2>4, <2>5
<1>5. ([][Ends]_linVars) => FalseOnlyIfRaced
  BY PTL DEF FalseOnlyIfRaced
<1> HIDE DEF Inv, Ends
<1> QED BY <1>1, <1>3, <1>4, <1>5, PTL DEF LinSpec
=============================================================================
