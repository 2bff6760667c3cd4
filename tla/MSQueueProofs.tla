---------------------------- MODULE MSQueueProofs ----------------------------
(***************************************************************************)
(* Theorems about MSQueue, for any threads and scripts and any size of the *)
(* free lists: the list stays a list with tail on it, no node is ever in   *)
(* two places, and a compare-and-swap that succeeds has not been deceived  *)
(* by a node that was recycled.                                            *)
(*                                                                         *)
(* The inductive invariant names the nodes of the list in their order, as  *)
(* a sequence s: next leads from each node of s to the one behind it, head *)
(* is its first node and tail its last or the one before.  Every other     *)
(* node is in one place: a place of a free list or the hands of an         *)
(* enqueuer.  Snapshot says what each thread may still believe of what it  *)
(* read; a step of another thread can only make its counts too old.        *)
(***************************************************************************)
EXTENDS MSQueue, QueueLemmas

-----------------------------------------------------------------------------
\* Types.

\* Nodes are numbers other than the null pointer and the poison.
LEMMA NodesAreNumbers ==
    /\ Nodes \subseteq 1 .. MaxNodes /\ Nodes \subseteq Cells
    /\ NullPtr \notin Nodes /\ Poison \notin Nodes
    /\ NullPtr \in Cells /\ Poison \in Cells /\ Dummy \in Nodes /\ Dummy \in Nat
<1>1. ASSUME NEW t \in Threads, NEW j \in 1 .. InitialFree
      PROVE  InitialNode(t, j) \in Nat /\ InitialNode(t, j) >= 2
  <2>1. t \in Nat /\ j \in Nat /\ j >= 1 /\ MaxFree \in Nat
    BY ThreadNumbers, FreeListSizes, SMT
  <2>2. t * MaxFree \in Nat
    BY <2>1, SMT
  <2> QED BY <2>1, <2>2, SMT DEF InitialNode
<1>2. ASSUME NEW n \in Nodes PROVE n \in 1 .. MaxNodes
  <2>1. CASE n = Dummy
    BY <2>1, SMT DEF Dummy, MaxNodes
  <2>2. CASE n # Dummy
    <3>1. PICK t \in Threads, j \in 1 .. InitialFree : n = InitialNode(t, j)
      BY <2>2, SMT DEF Nodes
    <3>2. n \in Nat /\ n >= 2
      BY <1>1, <3>1
    <3> QED BY <3>2, NodesFit, SMT DEF MaxNodes
  <2> QED BY <2>1, <2>2
<1>3. Dummy \in Nodes /\ Dummy \in Nat
  BY SMT DEF Nodes, Dummy
<1>4. Nodes \subseteq 1 .. MaxNodes
  BY <1>2, Zenon
<1>5. NullPtr \notin 1 .. MaxNodes /\ Poison \notin 1 .. MaxNodes
  BY SMT DEF NullPtr, Poison, MaxNodes
<1> QED BY <1>3, <1>4, <1>5, Zenon DEF Cells

\* There are finitely many.
LEMMA NodesFinite == IsFiniteSet(Nodes)
<1>1. IsFiniteSet(1 .. MaxNodes)
  <2>1. 1 \in Int /\ MaxNodes \in Int
    BY SMT DEF MaxNodes
  <2> QED BY <2>1, FS_Interval, Zenon
<1> QED BY <1>1, NodesAreNumbers, FS_Subset

\* The first number of a non-empty set is one of its elements.
LEMMA FirstIsIn ==
    ASSUME NEW S, S \subseteq Nat, S # {}
    PROVE  First(S) \in S
BY LeastNumber, Zenon DEF First

\* The locals of a thread.
LocalType == [node : Cells, head : PointerType, tail : PointerType,
              next : PointerType, val : Payloads]

\* What the type invariant says of each cell, pointer and local.
LEMMA TypeParts ==
    ASSUME TypeOK
    PROVE  /\ \A t \in Threads : loc[t] \in LocalType
           /\ \A n \in Cells : next[n] \in PointerType /\ next[n].ptr \in Cells
                               /\ next[n].count \in Nat
           /\ \A t \in Threads :
                  /\ loc[t].node \in Cells /\ loc[t].val \in Payloads
                  /\ loc[t].head.ptr \in Cells /\ loc[t].head.count \in Nat
                  /\ loc[t].tail.ptr \in Cells /\ loc[t].tail.count \in Nat
                  /\ loc[t].next.ptr \in Cells /\ loc[t].next.count \in Nat
           /\ head.ptr \in Cells /\ head.count \in Nat
           /\ tail.ptr \in Cells /\ tail.count \in Nat
           /\ NoLocals \in LocalType
  BY NodesAreNumbers, SMT
     DEF TypeOK, PointerType, LocalType, NoLocals, Pointer, NullPtr, Cells, Payloads

\* The initial list and the initial free lists have their types.
LEMMA InitTypeOK == Init => TypeOK
<1> SUFFICES ASSUME Init PROVE TypeOK
  OBVIOUS
<1>1. ClientTypeOK(Labels)
  BY InitType, Zenon DEF Init
<1>2. /\ head \in PointerType /\ tail \in PointerType
      /\ next \in [Cells -> PointerType] /\ value \in [Cells -> Payloads]
  BY NodesAreNumbers, SMT DEF Init, PointerType, Pointer, Payloads
<1>3. ASSUME NEW t \in Threads, NEW j \in 1 .. MaxFree
      PROVE  (IF t < NumThreads /\ j <= InitialFree
              THEN InitialNode(t, j) ELSE NullPtr) \in Cells
  <2>1. t < NumThreads /\ j <= InitialFree => InitialNode(t, j) \in Nodes
    BY FreeListSizes, SMT DEF Nodes
  <2> QED BY <2>1, NodesAreNumbers
<1>4. freeList \in [Threads -> [1 .. MaxFree -> Cells]]
  BY <1>3, SMT DEF Init
<1>5. loc \in [Threads -> LocalType]
  <2>1. NoLocals \in LocalType
    BY NodesAreNumbers, SMT
       DEF PointerType, LocalType, NoLocals, Pointer, Payloads, NullPtr
  <2> QED BY <2>1, Zenon DEF Init
<1> QED BY <1>1, <1>2, <1>4, <1>5 DEF TypeOK, LocalType

\* Setting one local of a thread keeps the types of its locals.
LEMMA LocalsTyped ==
    ASSUME TypeOK, NEW t \in Threads
    PROVE  /\ \A l \in LocalType : SetLocal(t, l) => (loc \in [Threads -> LocalType])'
           /\ \A n \in Cells : [loc[t] EXCEPT !.node = n] \in LocalType
           /\ \A n \in Cells : [NoLocals EXCEPT !.node = n] \in LocalType
           /\ \A p \in PointerType : /\ [loc[t] EXCEPT !.head = p] \in LocalType
                                     /\ [loc[t] EXCEPT !.tail = p] \in LocalType
                                     /\ [loc[t] EXCEPT !.next = p] \in LocalType
           /\ \A v \in Payloads : [loc[t] EXCEPT !.val = v] \in LocalType
           /\ \A n \in Cells, c \in Nat : Pointer(n, c) \in PointerType
           /\ loc \in [Threads -> LocalType]
<1>1. loc \in [Threads -> LocalType] /\ loc[t] \in LocalType /\ NoLocals \in LocalType
  BY TypeParts DEF TypeOK, LocalType
<1>2. \A l \in LocalType : SetLocal(t, l) => (loc \in [Threads -> LocalType])'
  BY <1>1, SMT DEF SetLocal
<1>3. \A n \in Cells, c \in Nat : Pointer(n, c) \in PointerType
  BY SMT DEF Pointer, PointerType
<1>4. \A l \in LocalType :
         /\ \A n \in Cells : [l EXCEPT !.node = n] \in LocalType
         /\ \A p \in PointerType : /\ [l EXCEPT !.head = p] \in LocalType
                                   /\ [l EXCEPT !.tail = p] \in LocalType
                                   /\ [l EXCEPT !.next = p] \in LocalType
         /\ \A v \in Payloads : [l EXCEPT !.val = v] \in LocalType
  BY SMT DEF LocalType
<1> QED BY <1>1, <1>2, <1>3, <1>4

\* Every label an action names is one of the queue's.
LEMMA LabelsNamed ==
    /\ {"e_val", "e_ldnext", "e_clear", "e_tail", "e_next", "e_check", "e_link",
        "e_ldptr", "e_help", "e_swing", "d_head", "d_tail", "d_next", "d_check",
        "d_help", "d_val", "d_cas"} \subseteq Labels
    /\ "idle" \notin Labels /\ "assert" \notin Labels /\ "blocked" \notin Labels
    /\ \A t \in Threads : pc[t] \in Labels => InCall(t)
  BY SMT DEF Labels, EnqLabels, DeqLabels, InCall

\* Every step of an enqueue keeps the types.
LEMMA EnqTypeStep ==
    ASSUME TypeOK, NEW t \in Threads, EnqStep(t)
    PROVE  TypeOK'
<1>t. /\ ClientTypeOK(Labels) /\ loc \in [Threads -> LocalType]
      /\ head \in PointerType /\ tail \in PointerType
      /\ next \in [Cells -> PointerType] /\ value \in [Cells -> Payloads]
      /\ freeList \in [Threads -> [1 .. MaxFree -> Cells]]
  BY DEF TypeOK, LocalType
<1>p. /\ \A n \in Cells : next[n] \in PointerType
      /\ loc[t].node \in Cells /\ loc[t].tail \in PointerType
      /\ loc[t].tail.ptr \in Cells /\ loc[t].tail.count + 1 \in Nat
      /\ loc[t].next \in PointerType
      /\ loc[t].next.ptr \in Cells /\ loc[t].next.count + 1 \in Nat
      /\ NoLocals \in LocalType
      /\ Ok \in Results
  BY <1>t, TypeParts, SMT DEF LocalType, Results
<1>1. CASE EnqCall(t)
  <2>1. CASE FreePlaces(t) # {} /\ Invoke(t, "enq", "e_val")
    <3> DEFINE j == First(FreePlaces(t))
    <3>1. j \in FreePlaces(t)
      <4>1. FreePlaces(t) \subseteq Nat
        BY SMT DEF FreePlaces
      <4> QED BY <2>1, <4>1, FirstIsIn
    <3>2. j \in 1 .. MaxFree /\ freeList[t][j] \in Cells
      <4>1. j \in 1 .. MaxFree
        BY <3>1, Zenon DEF FreePlaces
      <4> HIDE DEF j
      <4> QED BY <4>1, <1>t
    <3>3. UNCHANGED list
      BY <1>1, <2>1 DEF EnqCall
    <3>4. /\ SetLocal(t, [NoLocals EXCEPT !.node = freeList[t][j]])
          /\ freeList' = [freeList EXCEPT ![t][j] = NullPtr]
      BY <1>1, <2>1 DEF EnqCall
    <3> HIDE DEF j
    <3>5. freeList' \in [Threads -> [1 .. MaxFree -> Cells]]
      BY <3>2, <3>4, <1>t, NodesAreNumbers, SMT
    <3>6. (loc \in [Threads -> LocalType])'
      BY <3>2, <3>4, LocalsTyped
    <3>7. ClientTypeOK(Labels)'
      BY <1>t, <2>1, LabelsNamed, InvokeType
    <3> QED BY <1>t, <3>3, <3>5, <3>6, <3>7 DEF TypeOK, LocalType, list
  <2>2. CASE FreePlaces(t) = {} /\ Invoke(t, "enq", "assert")
    <3>1. UNCHANGED <<list, freeList, loc>>
      BY <1>1, <2>2 DEF EnqCall
    <3>2. ClientTypeOK(Labels)'
      BY <1>t, <2>2, ScriptAssumption, SMT DEF ClientTypeOK, Invoke, InCall
    <3> QED BY <1>t, <3>1, <3>2 DEF TypeOK, LocalType, list
  <2> QED BY <1>1, <2>1, <2>2 DEF EnqCall
<1>2. CASE EnqWriteValue(t)
  <2>1. Current(t).val \in Payloads
    BY <1>2, <1>t, LabelsNamed, CurrentIsCall DEF EnqWriteValue, Calls
  <2>2. value' \in [Cells -> Payloads]
    BY <1>2, <2>1, <1>t, <1>p DEF EnqWriteValue
  <2>3. ClientTypeOK(Labels)'
    BY <1>2, <1>t, LabelsNamed, GotoType DEF EnqWriteValue
  <2> QED BY <1>2, <1>t, <2>2, <2>3 DEF EnqWriteValue, TypeOK, LocalType
<1>3. CASE EnqLoadOwnNext(t)
  <2>1. ClearedNext(next[loc[t].node]) \in PointerType
    <3>1. next[loc[t].node].count \in Nat
      BY <1>p, TypeParts
    <3> QED BY <3>1, NodesAreNumbers, LocalsTyped DEF ClearedNext
  <2>2. (loc \in [Threads -> LocalType])'
    BY <1>3, <2>1, LocalsTyped DEF EnqLoadOwnNext
  <2>3. ClientTypeOK(Labels)'
    BY <1>3, <1>t, LabelsNamed, GotoType DEF EnqLoadOwnNext
  <2> QED BY <1>3, <1>t, <2>2, <2>3 DEF EnqLoadOwnNext, TypeOK, LocalType, list
<1>4. CASE EnqClearNext(t)
  <2>1. next' \in [Cells -> PointerType]
    BY <1>4, <1>t, <1>p DEF EnqClearNext
  <2>2. ClientTypeOK(Labels)'
    BY <1>4, <1>t, LabelsNamed, GotoType DEF EnqClearNext
  <2> QED BY <1>4, <1>t, <2>1, <2>2 DEF EnqClearNext, TypeOK, LocalType
<1>5. CASE EnqLoadTail(t)
  <2>1. (loc \in [Threads -> LocalType])'
    BY <1>5, <1>t, LocalsTyped DEF EnqLoadTail
  <2>2. ClientTypeOK(Labels)'
    BY <1>5, <1>t, LabelsNamed, GotoType DEF EnqLoadTail
  <2> QED BY <1>5, <1>t, <2>1, <2>2 DEF EnqLoadTail, TypeOK, LocalType, list
<1>6. CASE EnqLoadNext(t)
  <2>1. (loc \in [Threads -> LocalType])'
    BY <1>6, <1>p, LocalsTyped DEF EnqLoadNext
  <2>2. ClientTypeOK(Labels)'
    BY <1>6, <1>t, LabelsNamed, GotoType DEF EnqLoadNext
  <2> QED BY <1>6, <1>t, <2>1, <2>2 DEF EnqLoadNext, TypeOK, LocalType, list
<1>7. CASE EnqCheckTail(t)
  <2>1. pc[t] = "e_check" /\ UNCHANGED <<list, freeList, loc>>
    BY <1>7 DEF EnqCheckTail
  <2>2. \/ Retry(t, "e_tail") \/ Goto(t, "assert")
        \/ Goto(t, "e_link") \/ Goto(t, "e_ldptr")
    BY <1>7, Zenon DEF EnqCheckTail
  <2>3. ClientTypeOK(Labels)'
    BY <2>1, <2>2, <1>t, LabelsNamed, GotoType, StopType, RetryType
  <2> QED BY <1>t, <2>1, <2>3 DEF TypeOK, LocalType, list
<1>8. CASE EnqLink(t)
  <2>1. pc[t] = "e_link" /\ UNCHANGED <<head, tail, value, freeList, loc>>
    BY <1>8 DEF EnqLink
  <2>2. /\ Goto(t, "e_swing") \/ Goto(t, "e_ldptr")
        /\ \/ next' = next
           \/ next' = [next EXCEPT ![loc[t].tail.ptr] =
                           Pointer(loc[t].node, NextCount(loc[t].next.count))]
    BY <1>8, Zenon DEF EnqLink
  <2>3. next' \in [Cells -> PointerType]
    <3>1. Pointer(loc[t].node, NextCount(loc[t].next.count)) \in PointerType
      BY <1>p, LocalsTyped DEF NextCount
    <3> QED BY <2>2, <3>1, <1>t, <1>p
  <2>4. ClientTypeOK(Labels)'
    BY <2>1, <2>2, <1>t, LabelsNamed, GotoType
  <2> QED BY <1>t, <2>1, <2>3, <2>4 DEF TypeOK, LocalType
<1>9. CASE EnqLoadPtr(t)
  <2>1. (loc \in [Threads -> LocalType])'
    BY <1>9, <1>p, LocalsTyped DEF EnqLoadPtr
  <2>2. ClientTypeOK(Labels)'
    BY <1>9, <1>t, LabelsNamed, GotoType DEF EnqLoadPtr
  <2> QED BY <1>9, <1>t, <2>1, <2>2 DEF EnqLoadPtr, TypeOK, LocalType, list
<1>10. CASE EnqHelp(t)
  <2>1. tail' \in PointerType
    <3>1. MovedTail(t) \in PointerType
      BY <1>p, LocalsTyped DEF MovedTail, NextCount
    <3>2. tail' = tail \/ tail' = MovedTail(t)
      BY <1>10, Zenon DEF EnqHelp, HelpTail
    <3> QED BY <3>1, <3>2, <1>t
  <2>2. ClientTypeOK(Labels)'
    BY <1>10, <1>t, LabelsNamed, RetryType DEF EnqHelp
  <2> QED BY <1>10, <1>t, <2>1, <2>2 DEF EnqHelp, TypeOK, LocalType
<1>11. CASE EnqSwing(t)
  <2>1. tail' \in PointerType
    <3>1. Pointer(loc[t].node, NextCount(loc[t].tail.count)) \in PointerType
      BY <1>p, LocalsTyped DEF NextCount
    <3>2. \/ tail' = tail
          \/ tail' = Pointer(loc[t].node, NextCount(loc[t].tail.count))
      BY <1>11, Zenon DEF EnqSwing
    <3> QED BY <3>1, <3>2, <1>t
  <2>2. ClientTypeOK(Labels)'
    BY <1>11, <1>t, <1>p, ReturnType DEF EnqSwing, Finish
  <2>3. (loc \in [Threads -> LocalType])'
    BY <1>11, <1>p, LocalsTyped DEF EnqSwing, Finish
  <2> QED BY <1>11, <1>t, <2>1, <2>2, <2>3 DEF EnqSwing, TypeOK, LocalType
<1> QED BY <1>1, <1>2, <1>3, <1>4, <1>5, <1>6, <1>7, <1>8, <1>9, <1>10, <1>11
        DEF EnqStep

\* Every step of a dequeue keeps the types.
LEMMA DeqTypeStep ==
    ASSUME TypeOK, NEW t \in Threads, DeqStep(t)
    PROVE  TypeOK'
<1>t. /\ ClientTypeOK(Labels) /\ loc \in [Threads -> LocalType]
      /\ head \in PointerType /\ tail \in PointerType
      /\ next \in [Cells -> PointerType] /\ value \in [Cells -> Payloads]
      /\ freeList \in [Threads -> [1 .. MaxFree -> Cells]]
  BY DEF TypeOK, LocalType
<1>p. /\ \A n \in Cells : next[n] \in PointerType /\ value[n] \in Payloads
      /\ loc[t].head.ptr \in Cells /\ loc[t].head.count + 1 \in Nat
      /\ loc[t].tail.count + 1 \in Nat
      /\ loc[t].next.ptr \in Cells /\ loc[t].val \in Payloads
      /\ NoLocals \in LocalType
      /\ Empty \in Results /\ loc[t].val \in Results
  BY <1>t, TypeParts, SMT DEF LocalType, Results
<1>1. CASE DeqCall(t)
  <2>1. ClientTypeOK(Labels)'
    BY <1>1, <1>t, LabelsNamed, InvokeType DEF DeqCall
  <2> QED BY <1>1, <1>t, <2>1 DEF DeqCall, TypeOK, LocalType, list
<1>2. CASE DeqLoadHead(t)
  <2>1. (loc \in [Threads -> LocalType])'
    BY <1>2, <1>t, LocalsTyped DEF DeqLoadHead
  <2>2. ClientTypeOK(Labels)'
    BY <1>2, <1>t, LabelsNamed, GotoType DEF DeqLoadHead
  <2> QED BY <1>2, <1>t, <2>1, <2>2 DEF DeqLoadHead, TypeOK, LocalType, list
<1>3. CASE DeqLoadTail(t)
  <2>1. (loc \in [Threads -> LocalType])'
    BY <1>3, <1>t, LocalsTyped DEF DeqLoadTail
  <2>2. ClientTypeOK(Labels)'
    BY <1>3, <1>t, LabelsNamed, GotoType DEF DeqLoadTail
  <2> QED BY <1>3, <1>t, <2>1, <2>2 DEF DeqLoadTail, TypeOK, LocalType, list
<1>4. CASE DeqLoadNext(t)
  <2>1. (loc \in [Threads -> LocalType])'
    BY <1>4, <1>p, LocalsTyped DEF DeqLoadNext
  <2>2. ClientTypeOK(Labels)'
    BY <1>4, <1>t, LabelsNamed, GotoType DEF DeqLoadNext
  <2> QED BY <1>4, <1>t, <2>1, <2>2 DEF DeqLoadNext, TypeOK, LocalType, list
<1>5. CASE DeqCheckHead(t)
  <2>1. pc[t] = "d_check" /\ UNCHANGED <<list, freeList>>
    BY <1>5 DEF DeqCheckHead
  <2>2. \/ /\ \/ Retry(t, "d_head") \/ Goto(t, "assert")
              \/ Goto(t, "d_help") \/ Goto(t, "d_val")
           /\ loc' = loc
        \/ Finish(t, Empty)
    BY <1>5, Zenon DEF DeqCheckHead
  <2>3. ClientTypeOK(Labels)' /\ (loc \in [Threads -> LocalType])'
    <3>1. CASE Finish(t, Empty)
      BY <3>1, <1>t, <1>p, ReturnType, LocalsTyped DEF Finish
    <3>2. CASE ~Finish(t, Empty)
      BY <2>1, <2>2, <3>2, <1>t, LabelsNamed, GotoType, StopType, RetryType
    <3> QED BY <3>1, <3>2
  <2> QED BY <1>t, <2>1, <2>3 DEF TypeOK, LocalType, list
<1>6. CASE DeqHelp(t)
  <2>1. tail' \in PointerType
    <3>1. MovedTail(t) \in PointerType
      BY <1>p, LocalsTyped DEF MovedTail, NextCount
    <3>2. tail' = tail \/ tail' = MovedTail(t)
      BY <1>6, Zenon DEF DeqHelp, HelpTail
    <3> QED BY <3>1, <3>2, <1>t
  <2>2. ClientTypeOK(Labels)'
    BY <1>6, <1>t, LabelsNamed, RetryType DEF DeqHelp
  <2> QED BY <1>6, <1>t, <2>1, <2>2 DEF DeqHelp, TypeOK, LocalType
<1>7. CASE DeqReadValue(t)
  <2>1. (loc \in [Threads -> LocalType])'
    BY <1>7, <1>p, LocalsTyped DEF DeqReadValue
  <2>2. ClientTypeOK(Labels)'
    BY <1>7, <1>t, LabelsNamed, GotoType DEF DeqReadValue
  <2> QED BY <1>7, <1>t, <2>1, <2>2 DEF DeqReadValue, TypeOK, LocalType, list
<1>8. CASE DeqAdvance(t)
  <2>1. /\ pc[t] = "d_cas" /\ UNCHANGED <<tail, next, value>>
        /\ \/ head' = head
           \/ head' = Pointer(loc[t].next.ptr, NextCount(loc[t].head.count))
    BY <1>8, Zenon DEF DeqAdvance
  <2>2. \/ /\ EmptyPlaces(t) # {}
           /\ freeList' = [freeList EXCEPT ![t][First(EmptyPlaces(t))] = Retired(t)]
           /\ Finish(t, loc[t].val)
        \/ /\ Goto(t, "assert") \/ Retry(t, "d_head")
           /\ UNCHANGED <<freeList, loc>>
    BY <1>8, Zenon DEF DeqAdvance
  <2>3. head' \in PointerType
    <3>1. Pointer(loc[t].next.ptr, NextCount(loc[t].head.count)) \in PointerType
      BY <1>p, LocalsTyped DEF NextCount
    <3> QED BY <2>1, <3>1, <1>t
  <2>4. CASE /\ EmptyPlaces(t) # {}
             /\ freeList' = [freeList EXCEPT ![t][First(EmptyPlaces(t))] = Retired(t)]
             /\ Finish(t, loc[t].val)
    <3>1. EmptyPlaces(t) \subseteq 1 .. MaxFree /\ 1 .. MaxFree \subseteq Nat
      BY SMT DEF EmptyPlaces
    <3>2. First(EmptyPlaces(t)) \in 1 .. MaxFree
      BY <2>4, <3>1, FirstIsIn
    <3>3. freeList' \in [Threads -> [1 .. MaxFree -> Cells]]
      BY <2>4, <3>2, <1>t, <1>p, SMT DEF Retired
    <3>4. ClientTypeOK(Labels)' /\ (loc \in [Threads -> LocalType])'
      BY <2>4, <1>t, <1>p, ReturnType, LocalsTyped DEF Finish
    <3> QED BY <2>1, <2>3, <3>3, <3>4, <1>t DEF TypeOK, LocalType
  <2>5. CASE /\ Goto(t, "assert") \/ Retry(t, "d_head")
             /\ UNCHANGED <<freeList, loc>>
    <3>1. ClientTypeOK(Labels)'
      BY <2>1, <2>5, <1>t, LabelsNamed, StopType, RetryType
    <3> QED BY <2>1, <2>3, <2>5, <3>1, <1>t DEF TypeOK, LocalType
  <2> QED BY <2>2, <2>4, <2>5
<1> QED BY <1>1, <1>2, <1>3, <1>4, <1>5, <1>6, <1>7, <1>8 DEF DeqStep

-----------------------------------------------------------------------------
\* The list, as the sequence s of its n nodes.

\* nx leads from the node h along s to the end, through n different nodes.
IsList(n, s, h, nx) ==
    /\ n \in Nat \ {0} /\ s \in [1 .. n -> Nodes]
    /\ s[1] = h
    /\ \A i \in 1 .. n - 1 : nx[s[i]].ptr = s[i + 1]
    /\ nx[s[n]].ptr = NullPtr
    /\ \A i, j \in 1 .. n : s[i] = s[j] => i = j

\* A list is not changed by next fields of other nodes.
LEMMA ListKept ==
    ASSUME NEW n, NEW s, NEW h, NEW nx, NEW mx, IsList(n, s, h, nx),
           \A i \in 1 .. n : mx[s[i]].ptr = nx[s[i]].ptr
    PROVE  IsList(n, s, h, mx)
<1>1. /\ n \in Nat \ {0} /\ n \in 1 .. n
      /\ \A i \in 1 .. n - 1 : i \in 1 .. n
  BY SMT DEF IsList
<1> QED BY <1>1, Zenon DEF IsList

\* The nodes of the list with x behind them, and the nodes behind the first.
Grown(n, s, x) == [i \in 1 .. n + 1 |-> IF i = n + 1 THEN x ELSE s[i]]
Rest(n, s) == [i \in 1 .. n - 1 |-> s[i + 1]]

\* A list with one node more at its end.
LEMMA GrownIs ==
    ASSUME NEW n \in Nat \ {0}, NEW s \in [1 .. n -> Nodes], NEW x \in Nodes
    PROVE  /\ Grown(n, s, x) \in [1 .. n + 1 -> Nodes]
           /\ Grown(n, s, x)[n + 1] = x
           /\ \A i \in 1 .. n : Grown(n, s, x)[i] = s[i]
<1>1. /\ n + 1 \in 1 .. n + 1
      /\ \A i \in 1 .. n : i \in 1 .. n + 1 /\ i # n + 1
      /\ \A i \in 1 .. n + 1 : i = n + 1 \/ i \in 1 .. n
  BY SMT
<1> QED BY <1>1, Zenon DEF Grown

\* A list without its first node.
LEMMA RestIs ==
    ASSUME NEW n \in Nat \ {0}, NEW s \in [1 .. n -> Nodes]
    PROVE  /\ Rest(n, s) \in [1 .. n - 1 -> Nodes]
           /\ \A i \in 1 .. n - 1 : Rest(n, s)[i] = s[i + 1]
<1>1. \A i \in 1 .. n - 1 : i + 1 \in 1 .. n
  BY SMT
<1> QED BY <1>1, Zenon DEF Rest

\* Linking a node that leads nowhere behind the last one.
LEMMA ListGrows ==
    ASSUME NEW n, NEW s, NEW h, NEW nx, NEW mx, NEW x \in Nodes,
           IsList(n, s, h, nx), \A i \in 1 .. n : s[i] # x,
           \A i \in 1 .. n - 1 : mx[s[i]].ptr = nx[s[i]].ptr,
           mx[s[n]].ptr = x, mx[x].ptr = NullPtr
    PROVE  IsList(n + 1, Grown(n, s, x), h, mx)
<1>1. /\ n \in Nat \ {0} /\ s \in [1 .. n -> Nodes] /\ s[1] = h
      /\ \A i \in 1 .. n - 1 : nx[s[i]].ptr = s[i + 1]
      /\ \A i, j \in 1 .. n : s[i] = s[j] => i = j
  BY DEF IsList
<1> DEFINE r == Grown(n, s, x)
<1>2. /\ r \in [1 .. n + 1 -> Nodes] /\ r[n + 1] = x
      /\ \A i \in 1 .. n : r[i] = s[i]
  <2>1. n \in Nat \ {0} /\ s \in [1 .. n -> Nodes] /\ x \in Nodes
    BY <1>1
  <2>2. /\ Grown(n, s, x) \in [1 .. n + 1 -> Nodes]
        /\ Grown(n, s, x)[n + 1] = x
        /\ \A i \in 1 .. n : Grown(n, s, x)[i] = s[i]
    BY ONLY <2>1, GrownIs
  <2> QED BY <2>2
<1> HIDE DEF r
<1>3. /\ n + 1 \in Nat \ {0} /\ 1 \in 1 .. n /\ n \in 1 .. n
      /\ \A i \in 1 .. (n + 1) - 1 : i \in 1 .. n /\ (i = n \/ i \in 1 .. n - 1)
      /\ \A i \in 1 .. n - 1 : i \in 1 .. n /\ i + 1 \in 1 .. n
      /\ \A i \in 1 .. n + 1 : i = n + 1 \/ i \in 1 .. n
  BY <1>1, SMT
<1>4. \A i \in 1 .. (n + 1) - 1 : mx[r[i]].ptr = r[i + 1]
  <2> SUFFICES ASSUME NEW i \in 1 .. (n + 1) - 1 PROVE mx[r[i]].ptr = r[i + 1]
    OBVIOUS
  <2>1. CASE i = n
    BY <2>1, <1>2, <1>3, Zenon
  <2>2. CASE i \in 1 .. n - 1
    BY <2>2, <1>1, <1>2, <1>3, Zenon
  <2> QED BY <2>1, <2>2, <1>3, Zenon
<1>5. \A i, j \in 1 .. n + 1 : r[i] = r[j] => i = j
  BY <1>1, <1>2, <1>3, Zenon
<1>6. r[1] = h /\ mx[r[n + 1]].ptr = NullPtr
  BY <1>1, <1>2, <1>3, Zenon
<1>7. IsList(n + 1, r, h, mx)
  BY <1>2, <1>3, <1>4, <1>5, <1>6, Zenon DEF IsList
<1> QED BY <1>7 DEF r

\* Taking the first node off.
LEMMA ListShrinks ==
    ASSUME NEW n, NEW s, NEW h, NEW nx, IsList(n, s, h, nx), n # 1
    PROVE  /\ IsList(n - 1, Rest(n, s), nx[h].ptr, nx)
           /\ \A i \in 1 .. n - 1 : Rest(n, s)[i] # h
<1>1. /\ n \in Nat \ {0} /\ s \in [1 .. n -> Nodes] /\ s[1] = h
      /\ \A i \in 1 .. n - 1 : nx[s[i]].ptr = s[i + 1]
      /\ \A i, j \in 1 .. n : s[i] = s[j] => i = j
      /\ nx[s[n]].ptr = NullPtr
  BY DEF IsList
<1> DEFINE r == Rest(n, s)
<1>2. r \in [1 .. n - 1 -> Nodes] /\ \A i \in 1 .. n - 1 : r[i] = s[i + 1]
  BY <1>1, RestIs
<1> HIDE DEF r
<1>3. /\ n - 1 \in Nat \ {0} /\ 1 \in 1 .. n /\ 1 \in 1 .. n - 1
      /\ n - 1 \in 1 .. n - 1 /\ (n - 1) + 1 = n
      /\ \A i \in 1 .. n - 1 : i + 1 \in 1 .. n /\ i + 1 # 1
      /\ \A i \in 1 .. (n - 1) - 1 : i + 1 \in 1 .. n - 1 /\ i \in 1 .. n - 1
      /\ \A i, j \in 1 .. n - 1 : i + 1 = j + 1 => i = j
  BY <1>1, SMT
<1>4. \A i \in 1 .. (n - 1) - 1 : nx[r[i]].ptr = r[i + 1]
  <2> SUFFICES ASSUME NEW i \in 1 .. (n - 1) - 1 PROVE nx[r[i]].ptr = r[i + 1]
    OBVIOUS
  <2>1. i \in 1 .. n - 1 /\ i + 1 \in 1 .. n - 1
    BY <1>3, Zenon
  <2>2. r[i] = s[i + 1] /\ r[i + 1] = s[(i + 1) + 1]
    BY <2>1, <1>2, Zenon
  <2> QED BY <2>1, <2>2, <1>1, Zenon
<1>5. \A i, j \in 1 .. n - 1 : r[i] = r[j] => i = j
  <2> SUFFICES ASSUME NEW i \in 1 .. n - 1, NEW j \in 1 .. n - 1, r[i] = r[j]
               PROVE  i = j
    OBVIOUS
  <2>1. s[i + 1] = s[j + 1]
    BY <1>2, Zenon
  <2>2. i + 1 \in 1 .. n /\ j + 1 \in 1 .. n
    BY <1>3, Zenon
  <2>3. i + 1 = j + 1
    BY <2>1, <2>2, <1>1, Zenon
  <2> QED BY <2>3, <1>3, Zenon
<1>6. r[1] = nx[h].ptr /\ nx[r[n - 1]].ptr = NullPtr
  BY <1>1, <1>2, <1>3, Zenon
<1>7. IsList(n - 1, r, nx[h].ptr, nx)
  BY <1>2, <1>3, <1>4, <1>5, <1>6, Zenon DEF IsList
<1>8. ASSUME NEW i \in 1 .. n - 1 PROVE r[i] # h
  <2>1. r[i] = s[i + 1]
    BY <1>2, Zenon
  <2>2. i + 1 \in 1 .. n /\ i + 1 # 1
    BY <1>3, Zenon
  <2> QED BY <2>1, <2>2, <1>1, <1>3, Zenon
<1> QED BY <1>7, <1>8 DEF r

-----------------------------------------------------------------------------
\* The places off the list: at[t][j] is the node in place j of t's free list,
\* and for j = 0 the one in the hands of t.
Held == [t \in Threads |-> [j \in 0 .. MaxFree |->
            IF j = 0 THEN InHand(t) ELSE freeList[t][j]]]

\* No node is in two places, or in one and in the list.
OnePlace(n, s, at) ==
    /\ \A t \in Threads, j \in 0 .. MaxFree : at[t][j] \in Nodes \cup {NullPtr}
    /\ \A t, u \in Threads, j, k \in 0 .. MaxFree :
           at[t][j] = at[u][k] /\ at[t][j] # NullPtr => t = u /\ j = k
    /\ \A t \in Threads, j \in 0 .. MaxFree, i \in 1 .. n : at[t][j] # s[i]

\* No node is lost.
AllPlaced(n, s, at) ==
    \A x \in Nodes : \/ \E i \in 1 .. n : s[i] = x
                    \/ \E t \in Threads, j \in 0 .. MaxFree : at[t][j] = x

\* at and bt differ at most in the places j and k of t.
SameBut(at, bt, t, j, k) ==
    \A u \in Threads, i \in 0 .. MaxFree :
        u # t \/ (i # j /\ i # k) => bt[u][i] = at[u][i]

\* As long as every place holds what it held, the nodes stay where they are.
LEMMA PlacesKept ==
    ASSUME NEW n, NEW s, NEW at, NEW bt, OnePlace(n, s, at),
           \A u \in Threads, i \in 0 .. MaxFree : bt[u][i] = at[u][i]
    PROVE  /\ OnePlace(n, s, bt)
           /\ AllPlaced(n, s, at) => AllPlaced(n, s, bt)
<1>1. OnePlace(n, s, bt)
  BY SMT DEF OnePlace
<1>2. AllPlaced(n, s, at) => AllPlaced(n, s, bt)
  BY SMT DEF AllPlaced
<1> QED BY <1>1, <1>2

\* A thread moves a node from its place j to its empty place k.
LEMMA NodeTaken ==
    ASSUME NEW n, NEW s \in [1 .. n -> Nodes], NEW at, NEW bt, OnePlace(n, s, at),
           NEW t \in Threads, NEW j \in 0 .. MaxFree, NEW k \in 0 .. MaxFree,
           j # k, SameBut(at, bt, t, j, k),
           at[t][k] = NullPtr, bt[t][j] = NullPtr, bt[t][k] = at[t][j]
    PROVE  /\ OnePlace(n, s, bt)
           /\ AllPlaced(n, s, at) => AllPlaced(n, s, bt)
<1>1. \A u \in Threads, i \in 0 .. MaxFree :
          \/ u = t /\ i = j /\ bt[u][i] = NullPtr
          \/ u = t /\ i = k /\ bt[u][i] = at[t][j]
          \/ (u # t \/ (i # j /\ i # k)) /\ bt[u][i] = at[u][i]
  BY Zenon DEF SameBut
<1>2. \A u \in Threads, i \in 0 .. MaxFree : bt[u][i] \in Nodes \cup {NullPtr}
  BY <1>1, Zenon DEF OnePlace
<1>3. \A u, v \in Threads, i, l \in 0 .. MaxFree :
          bt[u][i] = bt[v][l] /\ bt[u][i] # NullPtr => u = v /\ i = l
  BY <1>1, SMT DEF OnePlace
<1>4. \A u \in Threads, i \in 0 .. MaxFree, m \in 1 .. n : bt[u][i] # s[m]
  <2>1. \A m \in 1 .. n : s[m] # NullPtr
    BY NodesAreNumbers
  <2> QED BY <1>1, <2>1, SMT DEF OnePlace
<1>5. ASSUME AllPlaced(n, s, at) PROVE AllPlaced(n, s, bt)
  <2>1. ASSUME NEW x \in Nodes, NEW u \in Threads, NEW i \in 0 .. MaxFree,
               at[u][i] = x
        PROVE  \E v \in Threads, l \in 0 .. MaxFree : bt[v][l] = x
    <3>1. x # NullPtr
      BY NodesAreNumbers
    <3>2. CASE u = t /\ i = j
      BY <2>1, <3>2, Zenon
    <3>3. CASE u # t \/ (i # j /\ i # k)
      BY <2>1, <3>3, Zenon DEF SameBut
    <3> QED BY <2>1, <3>1, <3>2, <3>3
  <2> QED BY <1>5, <2>1, Zenon DEF AllPlaced
<1> QED BY <1>2, <1>3, <1>4, <1>5 DEF OnePlace

\* A thread links the node in its place j behind the last node of the list.
LEMMA NodeLinked ==
    ASSUME NEW n \in Nat \ {0}, NEW s \in [1 .. n -> Nodes], NEW at, NEW bt,
           OnePlace(n, s, at),
           NEW t \in Threads, NEW j \in 0 .. MaxFree, at[t][j] # NullPtr,
           SameBut(at, bt, t, j, j), bt[t][j] = NullPtr
    PROVE  /\ OnePlace(n + 1, Grown(n, s, at[t][j]), bt)
           /\ AllPlaced(n, s, at) => AllPlaced(n + 1, Grown(n, s, at[t][j]), bt)
<1> DEFINE x == at[t][j]
           r == Grown(n, s, x)
<1>0. x \in Nodes /\ x # NullPtr
  BY Zenon DEF OnePlace
<1>1. /\ r[n + 1] = x /\ \A i \in 1 .. n : r[i] = s[i]
      /\ r \in [1 .. n + 1 -> Nodes]
  BY <1>0, GrownIs, Zenon
<1> HIDE DEF r, x
<1>2. /\ \A i \in 1 .. n + 1 : i = n + 1 \/ i \in 1 .. n
      /\ n + 1 \in 1 .. n + 1 /\ \A i \in 1 .. n : i \in 1 .. n + 1
  BY SMT
<1>3. \A u \in Threads, i \in 0 .. MaxFree :
          \/ u = t /\ i = j /\ bt[u][i] = NullPtr /\ at[u][i] = x
          \/ (u # t \/ i # j) /\ bt[u][i] = at[u][i]
  BY Zenon DEF SameBut, x
<1>4. \A u \in Threads, i \in 0 .. MaxFree : bt[u][i] \in Nodes \cup {NullPtr}
  BY <1>3, Zenon DEF OnePlace
<1>5. \A u, v \in Threads, i, l \in 0 .. MaxFree :
          bt[u][i] = bt[v][l] /\ bt[u][i] # NullPtr => u = v /\ i = l
  BY <1>3, SMT DEF OnePlace
<1>6. ASSUME NEW u \in Threads, NEW i \in 0 .. MaxFree, NEW m \in 1 .. n + 1
      PROVE  bt[u][i] # r[m]
  <2>1. CASE bt[u][i] = NullPtr
    BY <1>1, <2>1, NodesAreNumbers
  <2>2. CASE bt[u][i] # NullPtr
    <3>0. \/ u = t /\ i = j /\ bt[u][i] = NullPtr /\ at[u][i] = x
          \/ (u # t \/ i # j) /\ bt[u][i] = at[u][i]
      BY ONLY <1>3, u \in Threads, i \in 0 .. MaxFree
    <3>1. bt[u][i] = at[u][i] /\ (u # t \/ i # j)
      BY <3>0, <2>2
    <3>2. at[u][i] # x
      BY <3>1, <2>2, <1>0, SMT DEF OnePlace, x
    <3>3. \A l \in 1 .. n : at[u][i] # s[l]
      BY Zenon DEF OnePlace
    <3> QED BY <3>1, <3>2, <3>3, <1>1, <1>2, Zenon
  <2> QED BY <2>1, <2>2
<1>7. ASSUME AllPlaced(n, s, at) PROVE AllPlaced(n + 1, r, bt)
  <2> SUFFICES ASSUME NEW y \in Nodes
               PROVE  \/ \E i \in 1 .. n + 1 : r[i] = y
                      \/ \E u \in Threads, i \in 0 .. MaxFree : bt[u][i] = y
    BY DEF AllPlaced
  <2>1. CASE \E i \in 1 .. n : s[i] = y
    BY <2>1, <1>1, <1>2, Zenon
  <2>2. CASE \E u \in Threads, i \in 0 .. MaxFree : at[u][i] = y
    BY <2>2, <1>1, <1>2, <1>3, Zenon
  <2> QED BY <2>1, <2>2, <1>7, Zenon DEF AllPlaced
<1>8. OnePlace(n + 1, r, bt)
  BY <1>4, <1>5, <1>6, Zenon DEF OnePlace
<1> QED BY <1>7, <1>8 DEF r, x

\* A thread takes the first node off the list: it puts it in its empty place k,
\* or loses it.
LEMMA NodeRetired ==
    ASSUME NEW n, NEW s, NEW h, NEW nx, NEW at, NEW bt,
           IsList(n, s, h, nx), n # 1, OnePlace(n, s, at),
           NEW t \in Threads, NEW k \in 0 .. MaxFree, at[t][k] = NullPtr,
           SameBut(at, bt, t, k, k), bt[t][k] \in {h, NullPtr}
    PROVE  /\ OnePlace(n - 1, Rest(n, s), bt)
           /\ bt[t][k] = h =>
                 (AllPlaced(n, s, at) => AllPlaced(n - 1, Rest(n, s), bt))
<1> DEFINE r == Rest(n, s)
<1>0. /\ n \in Nat \ {0} /\ s \in [1 .. n -> Nodes] /\ s[1] = h
      /\ 1 \in 1 .. n /\ n \in 1 .. n
  BY SMT DEF IsList
<1>1. /\ r \in [1 .. n - 1 -> Nodes] /\ \A i \in 1 .. n - 1 : r[i] = s[i + 1]
      /\ \A i \in 1 .. n - 1 : r[i] # h
  <2>1. r \in [1 .. n - 1 -> Nodes] /\ \A i \in 1 .. n - 1 : r[i] = s[i + 1]
    BY <1>0, RestIs
  <2>2. \A i \in 1 .. n - 1 : r[i] # h
    BY ListShrinks
  <2> QED BY <2>1, <2>2
<1> HIDE DEF r
<1>2. /\ \A i \in 1 .. n - 1 : i + 1 \in 1 .. n
      /\ \A i \in 1 .. n : i = 1 \/ (i - 1 \in 1 .. n - 1 /\ (i - 1) + 1 = i)
  BY <1>0, SMT
<1>3. \A u \in Threads, i \in 0 .. MaxFree :
          \/ u = t /\ i = k /\ bt[u][i] \in {h, NullPtr} /\ at[u][i] = NullPtr
          \/ (u # t \/ i # k) /\ bt[u][i] = at[u][i]
  BY Zenon DEF SameBut
<1>h. h \in Nodes /\ h # NullPtr
  BY <1>0, NodesAreNumbers
<1>4. \A u \in Threads, i \in 0 .. MaxFree : at[u][i] # h
  BY <1>0, Zenon DEF OnePlace
<1>5. \A u \in Threads, i \in 0 .. MaxFree : bt[u][i] \in Nodes \cup {NullPtr}
  BY <1>3, <1>h, Zenon DEF OnePlace
<1>6. \A u, v \in Threads, i, l \in 0 .. MaxFree :
          bt[u][i] = bt[v][l] /\ bt[u][i] # NullPtr => u = v /\ i = l
  BY <1>3, <1>4, SMT DEF OnePlace
<1>7. ASSUME NEW u \in Threads, NEW i \in 0 .. MaxFree, NEW m \in 1 .. n - 1
      PROVE  bt[u][i] # r[m]
  <2>1. r[m] \in Nodes /\ r[m] # h /\ r[m] # NullPtr /\ r[m] = s[m + 1]
    BY <1>1, NodesAreNumbers
  <2>2. at[u][i] # r[m]
    <3>1. m + 1 \in 1 .. n
      BY <1>2
    <3>2. \A l \in 1 .. n : at[u][i] # s[l]
      BY Zenon DEF OnePlace
    <3> QED BY <2>1, <3>1, <3>2
  <2>3. \/ u = t /\ i = k /\ bt[u][i] \in {h, NullPtr} /\ at[u][i] = NullPtr
        \/ (u # t \/ i # k) /\ bt[u][i] = at[u][i]
    BY ONLY <1>3, u \in Threads, i \in 0 .. MaxFree
  <2>4. bt[u][i] \in {h, NullPtr} \/ bt[u][i] = at[u][i]
    BY <2>3
  <2> QED BY <2>1, <2>2, <2>4
<1>8. ASSUME AllPlaced(n, s, at), bt[t][k] = h PROVE AllPlaced(n - 1, r, bt)
  <2> SUFFICES ASSUME NEW y \in Nodes
               PROVE  \/ \E i \in 1 .. n - 1 : r[i] = y
                      \/ \E u \in Threads, i \in 0 .. MaxFree : bt[u][i] = y
    BY DEF AllPlaced
  <2>1. CASE \E i \in 1 .. n : s[i] = y
    <3>1. PICK i \in 1 .. n : s[i] = y
      BY <2>1
    <3>2. CASE i = 1
      BY <3>1, <3>2, <1>0, <1>8, Zenon
    <3>3. CASE i # 1
      <4>1. i - 1 \in 1 .. n - 1 /\ (i - 1) + 1 = i
        BY <3>3, <1>2
      <4>2. r[i - 1] = y
        BY <4>1, <3>1, <1>1
      <4> QED BY <4>1, <4>2
    <3> QED BY <3>2, <3>3
  <2>2. CASE \E u \in Threads, i \in 0 .. MaxFree : at[u][i] = y
    <3>1. y # NullPtr
      BY NodesAreNumbers
    <3> QED BY <2>2, <3>1, <1>3, Zenon
  <2> QED BY <2>1, <2>2, <1>8, Zenon DEF AllPlaced
<1>9. OnePlace(n - 1, r, bt)
  BY <1>5, <1>6, <1>7, Zenon DEF OnePlace
<1> QED BY <1>8, <1>9 DEF r

-----------------------------------------------------------------------------
\* The state of the list and of the free lists: s names the nodes of the list,
\* tail is the last of them or the one before, and the others are off it.
TailOn(n, s, p) == p = s[n] \/ (n # 1 /\ p = s[n - 1])

ListState(n, s) ==
    /\ IsList(n, s, head.ptr, next)
    /\ TailOn(n, s, tail.ptr)
    /\ OnePlace(n, s, Held)

\* While no assertion has failed, no node is lost.
NoneLost(n, s) == NoAssertFails => AllPlaced(n, s, Held)

\* What the ends of the list tell: tail lags if and only if a node is behind it;
\* if head is behind tail, the dummy has a next node.
LEMMA ListFacts ==
    ASSUME TypeOK, NEW n, NEW s, ListState(n, s)
    PROVE  /\ n \in Nat \ {0} /\ s \in [1 .. n -> Nodes] /\ 1 \in 1 .. n /\ n \in 1 .. n
           /\ head.ptr = s[1] /\ head.ptr \in Nodes /\ tail.ptr \in Nodes
           /\ next[tail.ptr].ptr = NullPtr => tail.ptr = s[n]
           /\ next[tail.ptr].ptr # NullPtr =>
                  /\ n # 1 /\ next[tail.ptr].ptr = s[n] /\ tail.ptr = s[n - 1]
                  /\ s[n] # head.ptr /\ s[n] \in Nodes
           /\ tail.ptr # head.ptr =>
                  /\ n # 1 /\ next[head.ptr].ptr # NullPtr
                  /\ next[head.ptr].ptr = s[2] /\ 2 \in 1 .. n
           /\ \A i \in 1 .. n : s[i] = tail.ptr => i = n \/ i = n - 1
<1>1. /\ n \in Nat \ {0} /\ s \in [1 .. n -> Nodes] /\ 1 \in 1 .. n /\ n \in 1 .. n
      /\ s[1] = head.ptr /\ next[s[n]].ptr = NullPtr
      /\ \A i \in 1 .. n - 1 : next[s[i]].ptr = s[i + 1]
      /\ \A i, j \in 1 .. n : s[i] = s[j] => i = j
      /\ TailOn(n, s, tail.ptr)
  BY SMT DEF ListState, IsList
<1>2. ASSUME n # 1
      PROVE  /\ n - 1 \in 1 .. n /\ n - 1 \in 1 .. n - 1 /\ (n - 1) + 1 = n /\ n - 1 # n
             /\ 1 \in 1 .. n - 1 /\ 1 + 1 = 2 /\ 2 \in 1 .. n
  BY <1>1, <1>2, SMT
<1>3. head.ptr \in Nodes /\ tail.ptr \in Nodes
  BY <1>1, <1>2, Zenon DEF TailOn
<1>4. n # 1 => /\ next[s[n - 1]].ptr = s[n] /\ s[n] \in Nodes /\ s[n] # NullPtr
               /\ s[n] # head.ptr /\ s[n - 1] # s[n]
               /\ next[head.ptr].ptr = s[2] /\ s[2] \in Nodes /\ s[2] # NullPtr
  <2> SUFFICES ASSUME n # 1
               PROVE  /\ next[s[n - 1]].ptr = s[n] /\ s[n] \in Nodes /\ s[n] # NullPtr
                      /\ s[n] # head.ptr /\ s[n - 1] # s[n]
                      /\ next[head.ptr].ptr = s[2] /\ s[2] \in Nodes /\ s[2] # NullPtr
    OBVIOUS
  <2>1. next[s[n - 1]].ptr = s[n] /\ next[head.ptr].ptr = s[2]
    BY <1>1, <1>2, Zenon
  <2>2. s[n] \in Nodes /\ s[2] \in Nodes
    BY <1>1, <1>2
  <2>3. s[n] # head.ptr /\ s[n - 1] # s[n]
    BY <1>1, <1>2, Zenon
  <2> QED BY <2>1, <2>2, <2>3, NodesAreNumbers
<1>5. next[tail.ptr].ptr = NullPtr => tail.ptr = s[n]
  BY <1>1, <1>4 DEF TailOn
<1>6. next[tail.ptr].ptr # NullPtr =>
          /\ n # 1 /\ next[tail.ptr].ptr = s[n] /\ tail.ptr = s[n - 1]
          /\ s[n] # head.ptr /\ s[n] \in Nodes
  BY <1>1, <1>4 DEF TailOn
<1>7. tail.ptr # head.ptr => n # 1
  BY <1>1 DEF TailOn
<1>8. \A i \in 1 .. n : s[i] = tail.ptr => i = n \/ i = n - 1
  BY <1>1, <1>2, Zenon DEF TailOn
<1> QED BY <1>1, <1>2, <1>3, <1>4, <1>5, <1>6, <1>7, <1>8

-----------------------------------------------------------------------------
\* What a step does to the words other threads have read.
ListMoves ==
    /\ tail' = tail \/ (next[tail.ptr].ptr # NullPtr /\ tail.count < tail'.count)
    /\ head' = head \/ head.count < head'.count
    /\ \A n \in Cells : next[n].count <= next'[n].count
    /\ \/ next'[tail.ptr] = next[tail.ptr]
       \/ /\ next[tail.ptr].ptr = NullPtr /\ next'[tail.ptr].ptr # NullPtr
          /\ next[tail.ptr].count < next'[tail.ptr].count
    /\ tail.ptr # head.ptr =>
           /\ next'[head.ptr] = next[head.ptr]
           /\ value'[next[head.ptr].ptr] = value[next[head.ptr].ptr]
           /\ head' = head => tail'.ptr # head.ptr

\* A step of another thread that keeps its hands off t's own node keeps what t
\* may believe.
LEMMA OthersKeep ==
    ASSUME TypeOK, TypeOK', NEW t \in Threads, Snapshot(t), ListMoves,
           pc'[t] = pc[t], loc'[t] = loc[t],
           pc[t] # "e_swing" => next'[loc[t].node] = next[loc[t].node]
    PROVE  Snapshot(t)'
<1>t. /\ head.count \in Nat /\ tail.count \in Nat /\ tail.ptr \in Cells
      /\ head'.count \in Nat /\ tail'.count \in Nat
      /\ loc[t].head.count \in Nat /\ loc[t].tail.count \in Nat
      /\ loc[t].next.count \in Nat /\ loc[t].tail.ptr \in Cells
      /\ \A n \in Cells : next[n].count \in Nat /\ next'[n].count \in Nat
  <2>1. \A n \in Cells : next'[n].count \in Nat
    BY SMT DEF TypeOK, PointerType
  <2>2. head'.count \in Nat /\ tail'.count \in Nat
    BY SMT DEF TypeOK, PointerType
  <2> QED BY <2>1, <2>2, TypeParts
<1>1. OwnNode(t)'
  BY SMT DEF Snapshot, OwnNode, ClearedNext
<1>2. EndsRead(t)'
  BY <1>t, SMT DEF Snapshot, EndsRead, ListMoves
<1>3. loc[t].tail = tail' /\ (loc[t].tail = tail \/ loc[t].tail.count < tail.count)
          => loc[t].tail = tail /\ tail' = tail
  BY <1>t, SMT DEF ListMoves
<1>4. loc[t].head = head' /\ (loc[t].head = head \/ loc[t].head.count < head.count)
          => loc[t].head = head /\ head' = head
  BY <1>t, SMT DEF ListMoves
<1>5. NextRead(t)'
  <2>1. ASSUME pc[t] = "e_check", loc[t].tail = tail'
        PROVE  \/ loc[t].next = next'[loc[t].tail.ptr]
               \/ /\ loc[t].next.ptr = NullPtr /\ next'[loc[t].tail.ptr].ptr # NullPtr
                  /\ loc[t].next.count < next'[loc[t].tail.ptr].count
    <3>1. loc[t].tail = tail /\ tail' = tail
      BY <2>1, <1>3, SMT DEF Snapshot, EndsRead
    <3>2. \/ loc[t].next = next[tail.ptr]
          \/ /\ loc[t].next.ptr = NullPtr /\ next[tail.ptr].ptr # NullPtr
             /\ loc[t].next.count < next[tail.ptr].count
      BY <2>1, <3>1, SMT DEF Snapshot, NextRead
    <3> QED BY <3>1, <3>2, <1>t, SMT DEF ListMoves
  <2>2. ASSUME pc[t] = "e_link"
        PROVE  /\ loc[t].next.ptr = NullPtr
               /\ \/ loc[t].next = next'[loc[t].tail.ptr] /\ loc[t].tail.ptr = tail'.ptr
                  \/ loc[t].next.count < next'[loc[t].tail.ptr].count
    <3>1. /\ loc[t].next.ptr = NullPtr
          /\ \/ loc[t].next = next[loc[t].tail.ptr] /\ loc[t].tail.ptr = tail.ptr
             \/ loc[t].next.count < next[loc[t].tail.ptr].count
      BY <2>2, SMT DEF Snapshot, NextRead
    <3>2. CASE loc[t].next = next[loc[t].tail.ptr] /\ loc[t].tail.ptr = tail.ptr
      BY <3>1, <3>2, <1>t, SMT DEF ListMoves
    <3>3. CASE loc[t].next.count < next[loc[t].tail.ptr].count
      BY <3>1, <3>3, <1>t, SMT DEF ListMoves
    <3> QED BY <3>1, <3>2, <3>3
  <2>3. ASSUME pc[t] = "e_link", loc[t].tail = tail'
        PROVE  loc[t].next = next'[loc[t].tail.ptr] \/ next'[loc[t].tail.ptr].ptr # NullPtr
    <3>1. loc[t].tail = tail /\ tail' = tail
      BY <2>3, <1>3, SMT DEF Snapshot, EndsRead
    <3>2. loc[t].next = next[tail.ptr] \/ next[tail.ptr].ptr # NullPtr
      BY <2>3, <3>1, SMT DEF Snapshot, NextRead
    <3> QED BY <3>1, <3>2, <1>t, SMT DEF ListMoves
  <2>4. ASSUME pc[t] = "e_ldptr", loc[t].tail = tail'
        PROVE  next'[loc[t].tail.ptr].ptr # NullPtr
    <3>1. loc[t].tail = tail /\ tail' = tail
      BY <2>4, <1>3, SMT DEF Snapshot, EndsRead
    <3>2. next[tail.ptr].ptr # NullPtr
      BY <2>4, <3>1, SMT DEF Snapshot, NextRead
    <3> QED BY <3>1, <3>2, <1>t, SMT DEF ListMoves
  <2> QED BY <2>1, <2>2, <2>3, <2>4, Zenon DEF NextRead
<1>6. TailStepsOn(t)'
  <2>1. ASSUME pc[t] \in {"e_help", "d_help", "e_swing"}, loc[t].tail = tail'
        PROVE  loc[t].tail = tail /\ tail' = tail
    BY <2>1, <1>3, SMT DEF Snapshot, EndsRead
  <2>2. ASSUME pc[t] \in {"e_help", "d_help"}, loc[t].tail = tail'
        PROVE  loc[t].next.ptr = next'[tail'.ptr].ptr /\ loc[t].next.ptr # NullPtr
    BY <2>1, <2>2, SMT DEF Snapshot, TailStepsOn, ListMoves
  <2>3. ASSUME pc[t] = "e_swing", loc[t].tail = tail'
        PROVE  next'[tail'.ptr].ptr = loc[t].node
    <3>1. loc[t].node # NullPtr
      BY <2>3, SMT DEF Snapshot, OwnNode, EnqLabels
    <3> QED BY <2>1, <2>3, <3>1, SMT DEF Snapshot, TailStepsOn, ListMoves
  <2> QED BY <2>2, <2>3, Zenon DEF TailStepsOn
<1>7. HeadRead(t)'
  <2>1. ASSUME pc[t] \in {"d_next", "d_check", "d_val", "d_cas"}, loc[t].head = head'
        PROVE  loc[t].head = head /\ head' = head
    BY <2>1, <1>4, SMT DEF Snapshot, EndsRead
  <2>2. ASSUME pc[t] \in {"d_next", "d_check"}, loc[t].head = head',
               loc[t].head.ptr # loc[t].tail.ptr
        PROVE  /\ tail'.ptr # head'.ptr
               /\ pc[t] = "d_check" => loc[t].next.ptr = next'[head'.ptr].ptr
    <3>1. /\ tail.ptr # head.ptr
          /\ pc[t] = "d_check" => loc[t].next.ptr = next[head.ptr].ptr
      BY <2>1, <2>2, SMT DEF Snapshot, HeadRead
    <3> QED BY <2>1, <2>2, <3>1, SMT DEF ListMoves
  <2>3. ASSUME pc[t] = "d_check", loc[t].tail = tail', loc[t].head.ptr = loc[t].tail.ptr
        PROVE  loc[t].next.ptr \in {NullPtr, next'[tail'.ptr].ptr}
    <3>1. loc[t].tail = tail /\ tail' = tail
      BY <2>3, <1>3, SMT DEF Snapshot, EndsRead
    <3>2. loc[t].next.ptr \in {NullPtr, next[tail.ptr].ptr}
      BY <2>3, <3>1, SMT DEF Snapshot, HeadRead
    <3> QED BY <3>1, <3>2, SMT DEF ListMoves
  <2>4. ASSUME pc[t] \in {"d_val", "d_cas"}, loc[t].head = head'
        PROVE  /\ tail'.ptr # head'.ptr /\ loc[t].next.ptr = next'[head'.ptr].ptr
               /\ pc[t] = "d_cas" => loc[t].val = value'[loc[t].next.ptr]
    <3>1. /\ tail.ptr # head.ptr /\ loc[t].next.ptr = next[head.ptr].ptr
          /\ pc[t] = "d_cas" => loc[t].val = value[loc[t].next.ptr]
      BY <2>1, <2>4, SMT DEF Snapshot, HeadRead
    <3> QED BY <2>1, <2>4, <3>1, SMT DEF ListMoves
  <2> QED BY <2>2, <2>3, <2>4, SMT DEF HeadRead
<1> QED BY <1>1, <1>2, <1>5, <1>6, <1>7 DEF Snapshot

-----------------------------------------------------------------------------
\* The invariant.  Snapshots and ListState need each other: a thread cannot be
\* deceived because nodes have one place, and nodes keep to one place because
\* no thread is deceived.
AllSnapshots == \A t \in Threads : Snapshot(t)

IInv == /\ TypeOK
        /\ AllSnapshots
        /\ next[NullPtr].ptr = NullPtr
        /\ \E n, s : ListState(n, s) /\ NoneLost(n, s)

\* t moves to l; no other thread is touched.
Moves(t, l) ==
    /\ pc' = [pc EXCEPT ![t] = l]
    /\ \A u \in Threads \ {t} : loc'[u] = loc[u]

\* A step that moves t alone leaves the others where they are.
LEMMA OnlyMoves ==
    ASSUME TypeOK, NEW t \in Threads, NEW l, Moves(t, l)
    PROVE  pc'[t] = l /\ \A u \in Threads \ {t} : pc'[u] = pc[u] /\ loc'[u] = loc[u]
  BY Zenon DEF TypeOK, ClientTypeOK, Moves

\* What the steps of Clients, and setting the locals of a thread, do to pc and loc.
LEMMA LocMoves ==
    ASSUME TypeOK, NEW t \in Threads
    PROVE  /\ \A l : SetLocal(t, l) =>
                  loc'[t] = l /\ \A u \in Threads \ {t} : loc'[u] = loc[u]
           /\ \A l : Goto(t, l) => pc' = [pc EXCEPT ![t] = l]
           /\ \A l : Retry(t, l) => \E m \in {l, "blocked"} : pc' = [pc EXCEPT ![t] = m]
           /\ \A k, l : Invoke(t, k, l) => pc' = [pc EXCEPT ![t] = l]
           /\ \A r : Return(t, r) => pc' = [pc EXCEPT ![t] = "idle"]
<1>1. \A l : SetLocal(t, l) => loc'[t] = l /\ \A u \in Threads \ {t} : loc'[u] = loc[u]
  BY Zenon DEF TypeOK, SetLocal
<1>2. \A l : Retry(t, l) => \E m \in {l, "blocked"} : pc' = [pc EXCEPT ![t] = m]
  BY RetryMoves
<1> QED BY <1>1, <1>2, Zenon DEF Goto, Invoke, Return

\* The other threads keep what they believe.
LEMMA OthersKept ==
    ASSUME TypeOK, TypeOK', AllSnapshots, ListMoves,
           NEW t \in Threads, NEW l, Moves(t, l),
           \A u \in Threads \ {t} : pc[u] # "e_swing" =>
               next'[loc[u].node] = next[loc[u].node]
    PROVE  \A u \in Threads \ {t} : Snapshot(u)'
<1> SUFFICES ASSUME NEW u \in Threads \ {t} PROVE Snapshot(u)'
  OBVIOUS
<1>1. pc'[u] = pc[u] /\ loc'[u] = loc[u]
  BY OnlyMoves
<1>2. Snapshot(u)
  BY DEF AllSnapshots
<1> QED BY <1>1, <1>2, OthersKeep

\* The places of a thread: the node in its hands, then its free list.
LEMMA HeldIs ==
    ASSUME NEW t \in Threads
    PROVE  /\ Held[t][0] = InHand(t) /\ Held'[t][0] = InHand(t)'
           /\ \A j \in 1 .. MaxFree : /\ Held[t][j] = freeList[t][j]
                                     /\ Held'[t][j] = freeList'[t][j]
           /\ 0 \in 0 .. MaxFree /\ \A j \in 1 .. MaxFree : j \in 0 .. MaxFree /\ j # 0
           /\ \A j \in 0 .. MaxFree : j = 0 \/ j \in 1 .. MaxFree
<1>1. /\ 0 \in 0 .. MaxFree /\ \A j \in 1 .. MaxFree : j \in 0 .. MaxFree /\ j # 0
      /\ \A j \in 0 .. MaxFree : j = 0 \/ j \in 1 .. MaxFree
  BY FreeListSizes, SMT
<1>2. /\ \A j \in 0 .. MaxFree : Held[t][j] = IF j = 0 THEN InHand(t) ELSE freeList[t][j]
      /\ \A j \in 0 .. MaxFree :
             Held'[t][j] = IF j = 0 THEN InHand(t)' ELSE freeList'[t][j]
  BY Zenon DEF Held, InHand
<1> QED BY <1>1, <1>2

\* Whoever neither takes nor gives a node leaves the places as they are.
LEMMA SamePlaces ==
    ASSUME TypeOK, NEW t \in Threads, NEW l, Moves(t, l),
           InHand(t)' = InHand(t), UNCHANGED freeList
    PROVE  \A u \in Threads, i \in 0 .. MaxFree : Held'[u][i] = Held[u][i]
<1> SUFFICES ASSUME NEW u \in Threads, NEW i \in 0 .. MaxFree
             PROVE  Held'[u][i] = Held[u][i]
  OBVIOUS
<1>1. InHand(u)' = InHand(u)
  <2>1. u # t => pc'[u] = pc[u] /\ loc'[u] = loc[u]
    BY OnlyMoves
  <2> QED BY <2>1 DEF InHand
<1> QED BY <1>1, HeldIs

\* A node in the hands of an enqueuer is in no other place.
LEMMA OwnIsOff ==
    ASSUME TypeOK, AllSnapshots, NEW n, NEW s, ListState(n, s), NEW t \in Threads,
           pc[t] \in EnqLabels \ {"e_swing"}
    PROVE  /\ loc[t].node \in Nodes /\ InHand(t) = loc[t].node /\ loc[t].node # NullPtr
           /\ \A i \in 1 .. n : s[i] # loc[t].node
           /\ loc[t].node # tail.ptr /\ loc[t].node # head.ptr
           /\ tail.ptr # head.ptr => loc[t].node # next[head.ptr].ptr
           /\ \A u \in Threads \ {t} : pc[u] # "e_swing" => loc[u].node # loc[t].node
<1> DEFINE x == loc[t].node
<1>1. x \in Nodes /\ x # NullPtr /\ InHand(t) = x
  BY NodesAreNumbers DEF AllSnapshots, Snapshot, OwnNode, InHand
<1>2. \A i \in 1 .. n : s[i] # x
  <2>1. \A i \in 1 .. n : Held[t][0] # s[i]
    BY HeldIs, Zenon DEF ListState, OnePlace
  <2> QED BY <1>1, <2>1, HeldIs
<1>3. x # tail.ptr /\ x # head.ptr /\ (tail.ptr # head.ptr => x # next[head.ptr].ptr)
  <2>1. \A i \in 1 .. n : s[i] # x
    BY <1>2
  <2>2. n # 1 => n - 1 \in 1 .. n
    BY ListFacts, SMT
  <2> HIDE DEF x
  <2>3. tail.ptr = s[n] \/ (n # 1 /\ tail.ptr = s[n - 1])
    BY DEF ListState, TailOn
  <2> QED BY <2>1, <2>2, <2>3, ListFacts
<1>4. ASSUME NEW u \in Threads \ {t}, pc[u] # "e_swing" PROVE loc[u].node # x
  <2>1. InHand(u) = loc[u].node
    BY <1>4 DEF InHand
  <2>2. Held[u][0] # Held[t][0] \/ Held[u][0] = NullPtr
    BY HeldIs, Zenon DEF ListState, OnePlace
  <2> QED BY <1>1, <2>1, <2>2, HeldIs
<1> QED BY <1>1, <1>2, <1>3, <1>4

\* No assertion had failed before a step of a thread that could take one.
LEMMA NoneFailedBefore ==
    ASSUME TypeOK, NEW t \in Threads, NEW l, Moves(t, l), pc[t] # "assert",
           NoAssertFails'
    PROVE  NoAssertFails
  BY OnlyMoves, Zenon DEF NoAssertFails

\* A step on a thread's own locals that does not touch its node.
LEMMA LocalStep ==
    ASSUME TypeOK, TypeOK', AllSnapshots,
           NEW n, NEW s, ListState(n, s), NoneLost(n, s),
           NEW t \in Threads, NEW l, Moves(t, l), pc[t] # "assert",
           InHand(t)' = InHand(t), UNCHANGED <<list, freeList>>
    PROVE  /\ \A u \in Threads \ {t} : Snapshot(u)'
           /\ \E m, r : ListState(m, r)' /\ NoneLost(m, r)'
<1>1. UNCHANGED <<head, tail, next, value>>
  BY DEF list
<1>2. ListMoves
  BY <1>1, TypeParts, SMT DEF ListMoves
<1>3. \A u \in Threads \ {t} : Snapshot(u)'
  BY <1>1, <1>2, OthersKept
<1>4. \A u \in Threads, i \in 0 .. MaxFree : Held'[u][i] = Held[u][i]
  BY SamePlaces
<1>5. OnePlace(n, s, Held') /\ (AllPlaced(n, s, Held) => AllPlaced(n, s, Held'))
  BY <1>4, PlacesKept DEF ListState
<1>6. ListState(n, s)'
  BY <1>1, <1>5 DEF ListState
<1>7. NoneLost(n, s)'
  BY <1>5, NoneFailedBefore DEF NoneLost
<1> QED BY <1>3, <1>6, <1>7

\* Setting one local leaves the others.
LEMMA OneLocal ==
    ASSUME NEW l \in LocalType
    PROVE  /\ \A x : LET m == [l EXCEPT !.node = x]
                   IN  m.node = x /\ m.head = l.head /\ m.tail = l.tail
                       /\ m.next = l.next /\ m.val = l.val
           /\ \A x : LET m == [l EXCEPT !.head = x]
                   IN  m.node = l.node /\ m.head = x /\ m.tail = l.tail
                       /\ m.next = l.next /\ m.val = l.val
           /\ \A x : LET m == [l EXCEPT !.tail = x]
                   IN  m.node = l.node /\ m.head = l.head /\ m.tail = x
                       /\ m.next = l.next /\ m.val = l.val
           /\ \A x : LET m == [l EXCEPT !.next = x]
                   IN  m.node = l.node /\ m.head = l.head /\ m.tail = l.tail
                       /\ m.next = x /\ m.val = l.val
           /\ \A x : LET m == [l EXCEPT !.val = x]
                   IN  m.node = l.node /\ m.head = l.head /\ m.tail = l.tail
                       /\ m.next = l.next /\ m.val = x
  BY SMT DEF LocalType

\* What a thread does inside its enqueue without writing to shared memory keeps
\* the invariant: it reads a word, or compares and goes on.
LEMMA EnqReads ==
    ASSUME TypeOK, TypeOK', AllSnapshots, NEW n, NEW s, ListState(n, s),
           NoneLost(n, s), NEW t \in Threads,
           \/ EnqLoadOwnNext(t) \/ EnqLoadTail(t) \/ EnqLoadNext(t)
           \/ EnqCheckTail(t) \/ EnqLoadPtr(t)
    PROVE  AllSnapshots' /\ \E m, r : ListState(m, r)' /\ NoneLost(m, r)'
<1>0. Snapshot(t) /\ loc[t] \in LocalType /\ tail.ptr \in Cells /\ loc[t].tail.ptr \in Cells
  BY TypeParts DEF AllSnapshots
<1>1. CASE EnqLoadOwnNext(t)
  <2>1. /\ pc[t] = "e_ldnext" /\ Moves(t, "e_clear") /\ pc'[t] = "e_clear"
        /\ UNCHANGED <<list, freeList>>
        /\ loc'[t] = [loc[t] EXCEPT !.next = ClearedNext(next[loc[t].node])]
    BY <1>1, LocMoves, OnlyMoves DEF EnqLoadOwnNext, Moves
  <2>2. /\ loc'[t].node = loc[t].node /\ loc'[t].next = ClearedNext(next[loc[t].node])
        /\ next' = next
    BY <2>1, <1>0, OneLocal DEF list
  <2>3. Snapshot(t)'
    BY <1>0, <2>1, <2>2, SMT DEF Snapshot, OwnNode, EndsRead, NextRead, TailStepsOn,
       HeadRead, EnqLabels, DeqLabels, ClearedNext
  <2> QED BY <2>1, <2>2, <2>3, LocalStep, Zenon DEF AllSnapshots, InHand
<1>2. CASE EnqLoadTail(t)
  <2>1. /\ pc[t] = "e_tail" /\ Moves(t, "e_next") /\ pc'[t] = "e_next"
        /\ UNCHANGED <<list, freeList>>
        /\ loc'[t] = [loc[t] EXCEPT !.tail = tail]
    BY <1>2, LocMoves, OnlyMoves DEF EnqLoadTail, Moves
  <2>2. /\ loc'[t].node = loc[t].node /\ loc'[t].tail = tail
        /\ tail' = tail /\ next' = next
    BY <2>1, <1>0, OneLocal DEF list
  <2>3. Snapshot(t)'
    BY <1>0, <2>1, <2>2, SMT DEF Snapshot, OwnNode, EndsRead, NextRead, TailStepsOn,
       HeadRead, EnqLabels, DeqLabels
  <2> QED BY <2>1, <2>2, <2>3, LocalStep, Zenon DEF AllSnapshots, InHand
<1>3. CASE EnqLoadNext(t)
  <2>1. /\ pc[t] = "e_next" /\ Moves(t, "e_check") /\ pc'[t] = "e_check"
        /\ UNCHANGED <<list, freeList>>
        /\ loc'[t] = [loc[t] EXCEPT !.next = next[loc[t].tail.ptr]]
    BY <1>3, LocMoves, OnlyMoves DEF EnqLoadNext, Moves
  <2>2. /\ loc'[t].node = loc[t].node /\ loc'[t].tail = loc[t].tail
        /\ loc'[t].next = next[loc[t].tail.ptr] /\ tail' = tail /\ next' = next
    BY <2>1, <1>0, OneLocal DEF list
  <2>3. Snapshot(t)'
    BY <1>0, <2>1, <2>2, SMT DEF Snapshot, OwnNode, EndsRead, NextRead, TailStepsOn,
       HeadRead, EnqLabels, DeqLabels
  <2> QED BY <2>1, <2>2, <2>3, LocalStep, Zenon DEF AllSnapshots, InHand
<1>4. CASE EnqCheckTail(t)
  <2>1. /\ pc[t] = "e_check" /\ UNCHANGED <<list, freeList, loc>>
        /\ tail' = tail /\ next' = next
    BY <1>4 DEF EnqCheckTail, list
  <2>2. \/ \E l \in {"e_tail", "blocked"} : pc' = [pc EXCEPT ![t] = l]
        \/ pc' = [pc EXCEPT ![t] = "assert"]
        \/ /\ pc' = [pc EXCEPT ![t] = "e_link"]
           /\ loc[t].tail = tail /\ loc[t].next.ptr = NullPtr
        \/ /\ pc' = [pc EXCEPT ![t] = "e_ldptr"]
           /\ loc[t].tail = tail /\ loc[t].next.ptr # NullPtr
    <3>1. \/ Retry(t, "e_tail") \/ Goto(t, "assert")
          \/ Goto(t, "e_link") /\ loc[t].tail = tail /\ loc[t].next.ptr = NullPtr
          \/ Goto(t, "e_ldptr") /\ loc[t].tail = tail /\ loc[t].next.ptr # NullPtr
      BY <1>4, SMT DEF EnqCheckTail, LooksLast, Poison, NullPtr
    <3> QED BY <3>1, LocMoves
  <2>3. PICK l \in {"e_tail", "blocked", "assert", "e_link", "e_ldptr"} :
            /\ pc' = [pc EXCEPT ![t] = l]
            /\ l = "e_link" => loc[t].tail = tail /\ loc[t].next.ptr = NullPtr
            /\ l = "e_ldptr" => loc[t].tail = tail /\ loc[t].next.ptr # NullPtr
    BY <2>2
  <2>4. Moves(t, l) /\ pc'[t] = l
    BY <2>1, <2>3, OnlyMoves DEF Moves
  <2>5. Snapshot(t)'
    BY <1>0, <2>1, <2>3, <2>4, SMT DEF Snapshot, OwnNode, EndsRead, NextRead,
       TailStepsOn, HeadRead, EnqLabels, DeqLabels
  <2>6. l # "e_swing"
    BY <2>3
  <2> QED BY <2>1, <2>4, <2>5, <2>6, LocalStep DEF AllSnapshots, InHand
<1>5. CASE EnqLoadPtr(t)
  <2>1. /\ pc[t] = "e_ldptr" /\ Moves(t, "e_help") /\ pc'[t] = "e_help"
        /\ UNCHANGED <<list, freeList>>
        /\ loc'[t] = [loc[t] EXCEPT !.next = next[loc[t].tail.ptr]]
    BY <1>5, LocMoves, OnlyMoves DEF EnqLoadPtr, Moves
  <2>2. /\ loc'[t].node = loc[t].node /\ loc'[t].tail = loc[t].tail
        /\ loc'[t].next = next[loc[t].tail.ptr] /\ tail' = tail /\ next' = next
    BY <2>1, <1>0, OneLocal DEF list
  <2>3. Snapshot(t)'
    BY <1>0, <2>1, <2>2, SMT DEF Snapshot, OwnNode, EndsRead, NextRead, TailStepsOn,
       HeadRead, EnqLabels, DeqLabels
  <2> QED BY <2>1, <2>2, <2>3, LocalStep, Zenon DEF AllSnapshots, InHand
<1> QED BY <1>1, <1>2, <1>3, <1>4, <1>5

\* So does what it does inside its dequeue, the empty result included.
LEMMA DeqReads ==
    ASSUME TypeOK, TypeOK', AllSnapshots, NEW n, NEW s, ListState(n, s),
           NoneLost(n, s), NEW t \in Threads,
           \/ DeqCall(t) \/ DeqLoadHead(t) \/ DeqLoadTail(t) \/ DeqLoadNext(t)
           \/ DeqCheckHead(t) \/ DeqReadValue(t)
    PROVE  AllSnapshots' /\ \E m, r : ListState(m, r)' /\ NoneLost(m, r)'
<1>0. /\ Snapshot(t) /\ loc[t] \in LocalType /\ tail.ptr \in Cells
      /\ loc[t].head.ptr \in Cells /\ loc[t].tail.ptr \in Cells
  BY TypeParts DEF AllSnapshots
<1>1. CASE DeqCall(t)
  <2>1. /\ pc[t] = "idle" /\ Moves(t, "d_head") /\ pc'[t] = "d_head"
        /\ UNCHANGED <<list, freeList, loc>>
    BY <1>1, LocMoves, OnlyMoves DEF DeqCall, Invoke, InCall, Moves
  <2>2. Snapshot(t)'
    BY <1>0, <2>1, SMT DEF Snapshot, OwnNode, EndsRead, NextRead, TailStepsOn,
       HeadRead, EnqLabels, DeqLabels
  <2> QED BY <2>1, <2>2, LocalStep, Zenon DEF AllSnapshots, InHand
<1>2. CASE DeqLoadHead(t)
  <2>1. /\ pc[t] = "d_head" /\ Moves(t, "d_tail") /\ pc'[t] = "d_tail"
        /\ UNCHANGED <<list, freeList>>
        /\ loc'[t] = [loc[t] EXCEPT !.head = head]
    BY <1>2, LocMoves, OnlyMoves DEF DeqLoadHead, Moves
  <2>2. loc'[t].node = loc[t].node /\ loc'[t].head = head /\ head' = head
    BY <2>1, <1>0, OneLocal DEF list
  <2>3. Snapshot(t)'
    BY <1>0, <2>1, <2>2, SMT DEF Snapshot, OwnNode, EndsRead, NextRead, TailStepsOn,
       HeadRead, EnqLabels, DeqLabels
  <2> QED BY <2>1, <2>2, <2>3, LocalStep, Zenon DEF AllSnapshots, InHand
<1>3. CASE DeqLoadTail(t)
  <2>1. /\ pc[t] = "d_tail" /\ Moves(t, "d_next") /\ pc'[t] = "d_next"
        /\ UNCHANGED <<list, freeList>>
        /\ loc'[t] = [loc[t] EXCEPT !.tail = tail]
    BY <1>3, LocMoves, OnlyMoves DEF DeqLoadTail, Moves
  <2>2. /\ loc'[t].node = loc[t].node /\ loc'[t].head = loc[t].head
        /\ loc'[t].tail = tail /\ head' = head /\ tail' = tail
    BY <2>1, <1>0, OneLocal DEF list
  <2>3. Snapshot(t)'
    BY <1>0, <2>1, <2>2, SMT DEF Snapshot, OwnNode, EndsRead, NextRead, TailStepsOn,
       HeadRead, EnqLabels, DeqLabels
  <2> QED BY <2>1, <2>2, <2>3, LocalStep, Zenon DEF AllSnapshots, InHand
<1>4. CASE DeqLoadNext(t)
  <2>1. /\ pc[t] = "d_next" /\ Moves(t, "d_check") /\ pc'[t] = "d_check"
        /\ UNCHANGED <<list, freeList>>
        /\ loc'[t] = [loc[t] EXCEPT !.next = next[loc[t].head.ptr]]
    BY <1>4, LocMoves, OnlyMoves DEF DeqLoadNext, Moves
  <2>2. /\ loc'[t].node = loc[t].node /\ loc'[t].head = loc[t].head
        /\ loc'[t].tail = loc[t].tail /\ loc'[t].next = next[loc[t].head.ptr]
        /\ head' = head /\ tail' = tail /\ next' = next
    BY <2>1, <1>0, OneLocal DEF list
  <2>3. Snapshot(t)'
    BY <1>0, <2>1, <2>2, SMT DEF Snapshot, OwnNode, EndsRead, NextRead, TailStepsOn,
       HeadRead, EnqLabels, DeqLabels
  <2> QED BY <2>1, <2>2, <2>3, LocalStep, Zenon DEF AllSnapshots, InHand
<1>5. CASE DeqCheckHead(t)
  <2>1. /\ pc[t] = "d_check" /\ UNCHANGED <<list, freeList>>
        /\ head' = head /\ tail' = tail /\ next' = next
    BY <1>5 DEF DeqCheckHead, list
  <2>2. CASE Finish(t, Empty)
    <3>1. /\ Moves(t, "idle") /\ pc'[t] = "idle" /\ loc'[t] = NoLocals
      BY <2>2, LocMoves, OnlyMoves DEF Finish, Moves
    <3>2. loc'[t].node = NullPtr /\ loc[t].node = NullPtr
      BY <1>0, <2>1, <3>1, SMT DEF NoLocals, Snapshot, OwnNode, DeqLabels
    <3>3. Snapshot(t)'
      BY <3>1, <3>2, SMT DEF Snapshot, OwnNode, EndsRead, NextRead, TailStepsOn,
         HeadRead, EnqLabels, DeqLabels
    <3> QED BY <2>1, <3>1, <3>2, <3>3, LocalStep, Zenon DEF AllSnapshots, InHand
  <2>3. CASE ~Finish(t, Empty)
    <3>1. /\ loc' = loc
          /\ \/ Retry(t, "d_head") \/ Goto(t, "assert")
             \/ /\ Goto(t, "d_help") /\ loc[t].head.ptr = loc[t].tail.ptr
                /\ loc[t].next.ptr # NullPtr
             \/ /\ Goto(t, "d_val") /\ loc[t].head = head
                /\ loc[t].head.ptr # loc[t].tail.ptr
      BY <1>5, <2>3, SMT DEF DeqCheckHead, HeadUnchanged, HeadMeetsTail, Poison, NullPtr
    <3>2. PICK l \in {"d_head", "blocked", "assert", "d_help", "d_val"} :
              /\ pc' = [pc EXCEPT ![t] = l]
              /\ l = "d_help" => /\ loc[t].head.ptr = loc[t].tail.ptr
                                 /\ loc[t].next.ptr # NullPtr
              /\ l = "d_val" => /\ loc[t].head = head
                                /\ loc[t].head.ptr # loc[t].tail.ptr
      BY <3>1, LocMoves
    <3>3. Moves(t, l) /\ pc'[t] = l
      BY <3>1, <3>2, OnlyMoves DEF Moves
    <3>4. Snapshot(t)'
      BY <1>0, <2>1, <3>1, <3>2, <3>3, SMT DEF Snapshot, OwnNode, EndsRead, NextRead,
         TailStepsOn, HeadRead, EnqLabels, DeqLabels
    <3>5. l # "e_swing"
      BY <3>2
    <3> QED BY <2>1, <3>1, <3>3, <3>4, <3>5, LocalStep DEF AllSnapshots, InHand
  <2> QED BY <2>2, <2>3
<1>6. CASE DeqReadValue(t)
  <2>1. /\ pc[t] = "d_val" /\ Moves(t, "d_cas") /\ pc'[t] = "d_cas"
        /\ UNCHANGED <<list, freeList>>
        /\ loc'[t] = [loc[t] EXCEPT !.val = value[loc[t].next.ptr]]
    BY <1>6, LocMoves, OnlyMoves DEF DeqReadValue, Moves
  <2>2. /\ loc'[t].node = loc[t].node /\ loc'[t].head = loc[t].head
        /\ loc'[t].next = loc[t].next /\ loc'[t].val = value[loc[t].next.ptr]
        /\ head' = head /\ tail' = tail /\ next' = next /\ value' = value
    BY <2>1, <1>0, OneLocal DEF list
  <2>3. Snapshot(t)'
    BY <1>0, <2>1, <2>2, SMT DEF Snapshot, OwnNode, EndsRead, NextRead, TailStepsOn,
       HeadRead, EnqLabels, DeqLabels
  <2> QED BY <2>1, <2>2, <2>3, LocalStep, Zenon DEF AllSnapshots, InHand
<1> QED BY <1>1, <1>2, <1>3, <1>4, <1>5, <1>6

\* Nobody holds a node of the list.
LEMMA HandsOff ==
    ASSUME TypeOK, NEW n, NEW s, ListState(n, s),
           NEW u \in Threads, pc[u] # "e_swing"
    PROVE  /\ \A i \in 1 .. n : loc[u].node # s[i]
           /\ loc[u].node # tail.ptr /\ loc[u].node # head.ptr
<1>1. InHand(u) = loc[u].node
  BY DEF InHand
<1>2. \A i \in 1 .. n : Held[u][0] # s[i]
  BY HeldIs, Zenon DEF ListState, OnePlace
<1>3. \A i \in 1 .. n : loc[u].node # s[i]
  BY <1>1, <1>2, HeldIs
<1>4. n # 1 => n - 1 \in 1 .. n
  BY ListFacts, SMT
<1>5. tail.ptr = s[n] \/ (n # 1 /\ tail.ptr = s[n - 1])
  BY DEF ListState, TailOn
<1> QED BY <1>3, <1>4, <1>5, ListFacts

\* An enqueue begins: its node moves from a free list into its hands.
LEMMA EnqCallKeeps ==
    ASSUME TypeOK, TypeOK', AllSnapshots, NEW n, NEW s, ListState(n, s),
           NoneLost(n, s), NEW t \in Threads, EnqCall(t)
    PROVE  AllSnapshots' /\ \E m, r : ListState(m, r)' /\ NoneLost(m, r)'
<1>0. pc[t] = "idle" /\ loc[t].node = NullPtr /\ InHand(t) = NullPtr /\ Snapshot(t)
  BY DEF EnqCall, Invoke, InCall, AllSnapshots, Snapshot, OwnNode, InHand
<1>1. CASE FreePlaces(t) # {} /\ Invoke(t, "enq", "e_val")
  <2>1. PICK j \in FreePlaces(t) :
            /\ SetLocal(t, [NoLocals EXCEPT !.node = freeList[t][j]])
            /\ freeList' = [freeList EXCEPT ![t][j] = NullPtr]
    <3>1. FreePlaces(t) \subseteq Nat
      BY SMT DEF FreePlaces
    <3>2. First(FreePlaces(t)) \in FreePlaces(t)
      BY <1>1, <3>1, FirstIsIn
    <3> QED BY <1>1, <3>2 DEF EnqCall
  <2>2. j \in 1 .. MaxFree /\ freeList[t][j] # NullPtr /\ j \in 0 .. MaxFree /\ j # 0
    BY HeldIs, Zenon DEF FreePlaces
  <2>3. /\ UNCHANGED list /\ Moves(t, "e_val") /\ pc'[t] = "e_val"
        /\ loc'[t] = [NoLocals EXCEPT !.node = freeList[t][j]]
    <3>1. UNCHANGED list
      BY <1>1 DEF EnqCall
    <3>2. Moves(t, "e_val") /\ loc'[t] = [NoLocals EXCEPT !.node = freeList[t][j]]
      BY <1>1, <2>1, LocMoves DEF Moves
    <3> QED BY <3>1, <3>2, OnlyMoves
  <2>4. loc'[t].node = freeList[t][j]
    BY <2>3, TypeParts, OneLocal
  <2>5. /\ freeList'[t][j] = NullPtr
        /\ \A u \in Threads, i \in 1 .. MaxFree :
               u # t \/ i # j => freeList'[u][i] = freeList[u][i]
    <3>1. freeList \in [Threads -> [1 .. MaxFree -> Cells]]
      BY DEF TypeOK
    <3> QED BY <2>1, <2>2, <3>1, Zenon
  <2>6. SameBut(Held, Held', t, j, 0)
    <3> SUFFICES ASSUME NEW u \in Threads, NEW i \in 0 .. MaxFree,
                        u # t \/ (i # j /\ i # 0)
                 PROVE  Held'[u][i] = Held[u][i]
      BY DEF SameBut
    <3>1. CASE i = 0
      <4>1. u # t /\ pc'[u] = pc[u] /\ loc'[u] = loc[u]
        BY <3>1, <2>3, OnlyMoves
      <4> QED BY <3>1, <4>1, HeldIs DEF InHand
    <3>2. CASE i # 0
      <4>1. i \in 1 .. MaxFree /\ (u # t \/ i # j)
        BY <3>2, HeldIs
      <4>2. freeList'[u][i] = freeList[u][i]
        BY <4>1, <2>5
      <4> QED BY <4>1, <4>2, HeldIs
    <3> QED BY <3>1, <3>2
  <2>7. /\ Held[t][0] = NullPtr /\ Held[t][j] = freeList[t][j]
        /\ Held'[t][j] = NullPtr /\ Held'[t][0] = Held[t][j]
    BY <1>0, <2>2, <2>3, <2>4, <2>5, HeldIs DEF InHand
  <2>8. freeList[t][j] \in Nodes
    <3>1. Held[t][j] \in Nodes \cup {NullPtr}
      BY <2>2, Zenon DEF ListState, OnePlace
    <3> QED BY <3>1, <2>2, <2>7
  <2>9. UNCHANGED <<head, tail, next, value>>
    BY <2>3 DEF list
  <2>10. Snapshot(t)'
    BY <2>2, <2>3, <2>4, <2>8, SMT DEF Snapshot, OwnNode, EndsRead, NextRead,
       TailStepsOn, HeadRead, EnqLabels, DeqLabels
  <2>11. \A u \in Threads \ {t} : Snapshot(u)'
    <3>1. ListMoves
      BY <2>9, TypeParts, SMT DEF ListMoves
    <3> QED BY <2>3, <2>9, <3>1, OthersKept
  <2>12. /\ OnePlace(n, s, Held')
         /\ AllPlaced(n, s, Held) => AllPlaced(n, s, Held')
    <3>1. s \in [1 .. n -> Nodes] /\ 0 \in 0 .. MaxFree
      BY ListFacts, HeldIs
    <3> QED BY <2>2, <2>6, <2>7, <3>1, NodeTaken DEF ListState
  <2>13. ListState(n, s)'
    BY <2>9, <2>12 DEF ListState
  <2>14. NoneLost(n, s)'
    <3>1. pc[t] # "assert"
      BY <1>0
    <3> QED BY <2>3, <2>12, <3>1, NoneFailedBefore DEF NoneLost
  <2> QED BY <2>10, <2>11, <2>13, <2>14 DEF AllSnapshots
<1>2. CASE FreePlaces(t) = {} /\ Invoke(t, "enq", "assert")
  <2>1. /\ UNCHANGED <<list, freeList, loc>> /\ Moves(t, "assert") /\ pc'[t] = "assert"
    BY <1>2, LocMoves, OnlyMoves DEF EnqCall, Moves
  <2>2. Snapshot(t)'
    BY <1>0, <2>1, SMT DEF Snapshot, OwnNode, EndsRead, NextRead,
       TailStepsOn, HeadRead, EnqLabels, DeqLabels
  <2> QED BY <1>0, <2>1, <2>2, LocalStep, Zenon DEF AllSnapshots, InHand
<1> QED BY <1>1, <1>2 DEF EnqCall

\* Writing into a node that is not in the list.
LEMMA OwnWrites ==
    ASSUME TypeOK, TypeOK', AllSnapshots, NEW n, NEW s, ListState(n, s),
           NoneLost(n, s), NEW t \in Threads, EnqWriteValue(t) \/ EnqClearNext(t)
    PROVE  AllSnapshots' /\ \E m, r : ListState(m, r)' /\ NoneLost(m, r)'
<1> DEFINE x == loc[t].node
<1>0. /\ pc[t] \in EnqLabels \ {"e_swing"} /\ pc[t] # "assert" /\ Snapshot(t)
      /\ UNCHANGED <<head, tail, freeList, loc>>
  BY DEF EnqWriteValue, EnqClearNext, EnqLabels, AllSnapshots
<1>1. /\ x \in Nodes /\ x # NullPtr /\ x \in Cells /\ \A i \in 1 .. n : s[i] # x
      /\ x # tail.ptr /\ x # head.ptr
      /\ tail.ptr # head.ptr => x # next[head.ptr].ptr
      /\ \A u \in Threads \ {t} : pc[u] # "e_swing" => loc[u].node # x
      /\ tail.ptr \in Cells /\ head.ptr \in Cells
      /\ \A c \in Cells : next[c].count \in Nat /\ next[c].ptr \in Cells
      /\ \A u \in Threads : loc[u].node \in Cells
  BY <1>0, OwnIsOff, NodesAreNumbers, TypeParts
<1>2. PICK l \in {"e_ldnext", "e_tail"} :
          /\ Moves(t, l) /\ pc'[t] = l
          /\ l = "e_ldnext" => next' = next
          /\ l = "e_tail" => next'[x].ptr = NullPtr
          /\ \A c \in Cells \ {x} : next'[c] = next[c] /\ value'[c] = value[c]
          /\ next'[x].count = next[x].count
  <2>1. CASE EnqWriteValue(t)
    <3>1. /\ Moves(t, "e_ldnext") /\ pc'[t] = "e_ldnext" /\ next' = next
          /\ value' = [value EXCEPT ![x] = Current(t).val]
      BY <2>1, <1>0, LocMoves, OnlyMoves DEF EnqWriteValue, Moves
    <3>2. \A c \in Cells \ {x} : value'[c] = value[c]
      BY <3>1, Zenon DEF TypeOK
    <3> QED BY <3>1, <3>2
  <2>2. CASE EnqClearNext(t)
    <3>1. /\ Moves(t, "e_tail") /\ pc'[t] = "e_tail" /\ value' = value
          /\ next' = [next EXCEPT ![x] = loc[t].next]
          /\ loc[t].next = ClearedNext(next[x])
      BY <2>2, <1>0, LocMoves, OnlyMoves DEF EnqClearNext, Moves, Snapshot, OwnNode
    <3>2. /\ \A c \in Cells \ {x} : next'[c] = next[c]
          /\ next'[x] = Pointer(NullPtr, next[x].count)
      BY <1>1, <3>1, Zenon DEF TypeOK, ClearedNext
    <3>3. next'[x].ptr = NullPtr /\ next'[x].count = next[x].count
      BY <3>2 DEF Pointer
    <3> QED BY <3>1, <3>2, <3>3
  <2> QED BY <2>1, <2>2
<1> HIDE DEF x
<1>3. ListMoves
  <2>1. \A c \in Cells : next[c].count <= next'[c].count
    BY <1>1, <1>2, SMT
  <2>2. /\ next'[tail.ptr] = next[tail.ptr] /\ next'[head.ptr] = next[head.ptr]
        /\ tail.ptr # head.ptr => value'[next[head.ptr].ptr] = value[next[head.ptr].ptr]
    BY <1>1, <1>2
  <2> QED BY <1>0, <2>1, <2>2 DEF ListMoves
<1>4. \A u \in Threads \ {t} : Snapshot(u)'
  <2>1. \A u \in Threads \ {t} : pc[u] # "e_swing" => next'[loc[u].node] = next[loc[u].node]
    BY <1>1, <1>2
  <2> QED BY <1>2, <1>3, <2>1, OthersKept
<1>5. Snapshot(t)'
  BY <1>0, <1>1, <1>2, SMT DEF Snapshot, OwnNode, EndsRead, NextRead, TailStepsOn,
     HeadRead, EnqLabels, DeqLabels, x
<1>6. InHand(t)' = InHand(t)
  BY <1>0, <1>2 DEF InHand
<1>7. \A u \in Threads, i \in 0 .. MaxFree : Held'[u][i] = Held[u][i]
  BY <1>0, <1>2, <1>6, SamePlaces
<1>8. OnePlace(n, s, Held') /\ (AllPlaced(n, s, Held) => AllPlaced(n, s, Held'))
  BY <1>7, PlacesKept DEF ListState
<1>9. ListState(n, s)'
  <2>1. \A i \in 1 .. n : next'[s[i]].ptr = next[s[i]].ptr
    <3>1. ASSUME NEW i \in 1 .. n PROVE s[i] \in Cells \ {x}
      <4>0. s \in [1 .. n -> Nodes]
        BY ListFacts
      <4>1. s[i] \in Nodes
        BY <4>0
      <4> QED BY <1>1, <4>1, NodesAreNumbers
    <3> QED BY <3>1, <1>2
  <2>2. IsList(n, s, head.ptr, next')
    BY <2>1, ListKept DEF ListState
  <2> QED BY <1>0, <1>8, <2>2 DEF ListState
<1>10. NoneLost(n, s)'
  BY <1>0, <1>2, <1>8, NoneFailedBefore DEF NoneLost
<1> QED BY <1>4, <1>5, <1>9, <1>10 DEF AllSnapshots

\* The compare-and-swap on the last node's next field: it links the node, or
\* finds that another has been linked there.
LEMMA EnqLinkKeeps ==
    ASSUME ~WeakCAS, TypeOK, TypeOK', AllSnapshots, NEW n, NEW s, ListState(n, s),
           NoneLost(n, s), NEW t \in Threads, EnqLink(t)
    PROVE  AllSnapshots' /\ \E m, r : ListState(m, r)' /\ NoneLost(m, r)'
<1> DEFINE x == loc[t].node
           last == loc[t].tail.ptr
<1>0. /\ pc[t] = "e_link" /\ pc[t] \in EnqLabels \ {"e_swing"} /\ Snapshot(t)
      /\ UNCHANGED <<head, tail, value, freeList, loc>>
  BY DEF EnqLink, EnqLabels, AllSnapshots
<1>1. /\ x \in Nodes /\ x # NullPtr /\ x \in Cells /\ \A i \in 1 .. n : s[i] # x
      /\ InHand(t) = x /\ x # tail.ptr
      /\ tail.ptr \in Cells /\ head.ptr \in Cells /\ last \in Cells
      /\ \A c \in Cells : next[c].count \in Nat
      /\ loc[t].next.count \in Nat
  BY <1>0, OwnIsOff, NodesAreNumbers, TypeParts
<1>2. /\ loc[t].next.ptr = NullPtr /\ next[x].ptr = NullPtr
      /\ \/ loc[t].next = next[last] /\ last = tail.ptr
         \/ loc[t].next.count < next[last].count
      /\ loc[t].tail = tail => loc[t].next = next[last] \/ next[last].ptr # NullPtr
  BY <1>0, Zenon DEF Snapshot, NextRead, OwnNode
<1>3. CASE next[last] # loc[t].next
  <2>1. Goto(t, "e_ldptr") /\ next' = next
    BY <1>3, SMT DEF EnqLink, CasOutcomes
  <2>2. Moves(t, "e_ldptr") /\ pc'[t] = "e_ldptr" /\ UNCHANGED <<list, freeList>>
    BY <1>0, <2>1, LocMoves, OnlyMoves DEF Moves, list
  <2>3. loc[t].tail = tail => next[last].ptr # NullPtr
    BY <1>2, <1>3
  <2>4. Snapshot(t)'
    BY <1>0, <2>1, <2>2, <2>3, SMT DEF Snapshot, OwnNode, EndsRead, NextRead,
       TailStepsOn, HeadRead, EnqLabels, DeqLabels
  <2> QED BY <1>0, <2>2, <2>4, LocalStep, Zenon DEF AllSnapshots, InHand
<1>4. CASE next[last] = loc[t].next
  <2>1. /\ Goto(t, "e_swing")
        /\ next' = [next EXCEPT ![last] = Pointer(x, NextCount(loc[t].next.count))]
    BY <1>4, SMT DEF EnqLink, CasOutcomes
  <2>2. last = tail.ptr /\ next[tail.ptr].ptr = NullPtr
    BY <1>1, <1>2, <1>4, SMT
  <2>3. Moves(t, "e_swing") /\ pc'[t] = "e_swing"
    BY <1>0, <2>1, LocMoves, OnlyMoves DEF Moves
  <2>4. /\ next'[tail.ptr] = Pointer(x, next[tail.ptr].count + 1)
        /\ \A c \in Cells \ {tail.ptr} : next'[c] = next[c]
    <3>1. next \in [Cells -> PointerType]
      BY DEF TypeOK
    <3> QED BY <1>1, <1>4, <2>1, <2>2, <3>1, Zenon DEF NextCount
  <2>5. next'[tail.ptr].ptr = x /\ next'[tail.ptr].count = next[tail.ptr].count + 1
    BY <2>4 DEF Pointer
  <2>6. ListMoves
    <3>1. \A c \in Cells : next[c].count <= next'[c].count
      BY <1>1, <2>4, <2>5, SMT
    <3>2. next[tail.ptr].count < next'[tail.ptr].count
      BY <1>1, <2>5, SMT
    <3>3. tail.ptr # head.ptr => next'[head.ptr] = next[head.ptr]
      BY <1>1, <2>4
    <3> HIDE DEF x, last
    <3> QED BY <1>0, <1>1, <2>2, <2>5, <3>1, <3>2, <3>3 DEF ListMoves
  <2>7. \A u \in Threads \ {t} : Snapshot(u)'
    <3>1. ASSUME NEW u \in Threads \ {t}, pc[u] # "e_swing"
          PROVE  next'[loc[u].node] = next[loc[u].node]
      <4>1. loc[u].node \in Cells /\ loc[u].node # tail.ptr
        BY <3>1, HandsOff, TypeParts
      <4> QED BY <4>1, <2>4
    <3> QED BY <2>3, <2>6, <3>1, OthersKept
  <2>8. Snapshot(t)'
    <3>1. /\ loc'[t].node = x /\ loc'[t] = loc[t] /\ tail' = tail
      BY <1>0
    <3> QED BY <1>0, <1>1, <2>3, <2>5, <3>1, SMT DEF Snapshot, OwnNode, EndsRead,
         NextRead, TailStepsOn, HeadRead, EnqLabels, DeqLabels
  <2>9. tail.ptr = s[n] /\ n \in Nat \ {0} /\ s \in [1 .. n -> Nodes] /\ n \in 1 .. n
    BY <2>2, ListFacts
  <2>10. IsList(n + 1, Grown(n, s, x), head.ptr, next')
    <3>1. IsList(n, s, head.ptr, next)
      BY DEF ListState
    <3>2. ASSUME NEW i \in 1 .. n - 1 PROVE next'[s[i]].ptr = next[s[i]].ptr
      <4>1. i \in 1 .. n /\ i # n
        BY <2>9, SMT
      <4>2. s[i] # tail.ptr
        BY <2>9, <3>1, <4>1, Zenon DEF IsList
      <4>3. s[i] \in Cells
        <5>1. s[i] \in Nodes
          BY <2>9, <4>1
        <5> QED BY <5>1, NodesAreNumbers
      <4> QED BY <2>4, <4>2, <4>3
    <3>3. next'[x].ptr = NullPtr
      BY <1>1, <1>2, <2>4
    <3>4. next'[s[n]].ptr = x
      BY <2>5, <2>9
    <3> HIDE DEF x
    <3> QED BY <1>1, <3>1, <3>2, <3>3, <3>4, ListGrows
  <2>11. TailOn(n + 1, Grown(n, s, x), tail.ptr)
    <3>1. Grown(n, s, x)[n] = s[n] /\ n + 1 # 1 /\ (n + 1) - 1 = n
      <4>1. n + 1 # 1 /\ (n + 1) - 1 = n
        BY <2>9, SMT
      <4>2. \A i \in 1 .. n : Grown(n, s, x)[i] = s[i]
        BY <1>1, <2>9, GrownIs
      <4> QED BY <2>9, <4>1, <4>2
    <3> QED BY <2>9, <3>1 DEF TailOn
  <2>12. SameBut(Held, Held', t, 0, 0)
    <3> SUFFICES ASSUME NEW u \in Threads, NEW i \in 0 .. MaxFree, u # t \/ i # 0
                 PROVE  Held'[u][i] = Held[u][i]
      BY DEF SameBut
    <3>1. CASE i = 0
      <4>1. u # t /\ pc'[u] = pc[u] /\ loc'[u] = loc[u]
        BY <3>1, <2>3, OnlyMoves
      <4> QED BY <3>1, <4>1, HeldIs DEF InHand
    <3>2. CASE i # 0
      BY <1>0, <3>2, HeldIs
    <3> QED BY <3>1, <3>2
  <2>13. /\ OnePlace(n + 1, Grown(n, s, x), Held')
         /\ AllPlaced(n, s, Held) => AllPlaced(n + 1, Grown(n, s, x), Held')
    <3>1. Held[t][0] = x /\ Held'[t][0] = NullPtr /\ 0 \in 0 .. MaxFree
      BY <1>1, <2>3, HeldIs DEF InHand
    <3>2. OnePlace(n, s, Held)
      BY DEF ListState
    <3> HIDE DEF x
    <3>3. Held[t][0] # NullPtr
      BY <1>1, <3>1
    <3>4. /\ OnePlace(n + 1, Grown(n, s, Held[t][0]), Held')
          /\ AllPlaced(n, s, Held) => AllPlaced(n + 1, Grown(n, s, Held[t][0]), Held')
      BY <2>9, <2>12, <3>1, <3>2, <3>3, NodeLinked
    <3> QED BY <3>1, <3>4
  <2>r. PICK r : r = Grown(n, s, x)
    OBVIOUS
  <2>14. ListState(n + 1, r)'
    BY <1>0, <2>10, <2>11, <2>13, <2>r DEF ListState
  <2>15. NoneLost(n + 1, r)'
    <3>1. pc[t] # "assert"
      BY <1>0
    <3> QED BY <2>3, <2>13, <2>r, <3>1, NoneFailedBefore DEF NoneLost
  <2> QED BY <2>7, <2>8, <2>14, <2>15 DEF AllSnapshots
<1> QED BY <1>3, <1>4

\* A compare-and-swap succeeds only on the word it expects.
LEMMA CasOutcome ==
    ASSUME NEW a, NEW e, NEW won \in CasOutcomes(a, e)
    PROVE  won = FALSE \/ (won = TRUE /\ a = e)
<1>1. CASE a # e
  BY <1>1 DEF CasOutcomes
<1>2. CASE a = e
  BY <1>2 DEF CasOutcomes
<1> QED BY <1>1, <1>2

\* A compare-and-swap that moves a lagging tail to the node behind it.
LEMMA TailSteps ==
    ASSUME TypeOK, TypeOK', AllSnapshots, NEW n, NEW s, ListState(n, s),
           NoneLost(n, s), NEW t \in Threads, NEW l, Moves(t, l), pc[t] # "assert",
           InHand(t)' = InHand(t), UNCHANGED <<head, next, value, freeList>>,
           tail' = Pointer(next[tail.ptr].ptr, tail.count + 1),
           next[tail.ptr].ptr # NullPtr
    PROVE  /\ \A u \in Threads \ {t} : Snapshot(u)'
           /\ \E m, r : ListState(m, r)' /\ NoneLost(m, r)'
<1>1. /\ tail'.ptr = s[n] /\ s[n] # head.ptr /\ tail'.count = tail.count + 1
      /\ tail.ptr \in Cells /\ tail.count \in Nat
      /\ \A c \in Cells : next[c].count \in Nat
  BY ListFacts, TypeParts DEF Pointer
<1>2. ListMoves
  <2>1. tail.count < tail'.count /\ \A c \in Cells : next[c].count <= next[c].count
    BY <1>1, SMT
  <2> QED BY <1>1, <2>1 DEF ListMoves
<1>3. \A u \in Threads \ {t} : Snapshot(u)'
  BY <1>2, OthersKept
<1>4. \A u \in Threads, i \in 0 .. MaxFree : Held'[u][i] = Held[u][i]
  BY SamePlaces
<1>5. OnePlace(n, s, Held') /\ (AllPlaced(n, s, Held) => AllPlaced(n, s, Held'))
  BY <1>4, PlacesKept DEF ListState
<1>6. ListState(n, s)'
  BY <1>1, <1>5 DEF ListState, TailOn
<1>7. NoneLost(n, s)'
  BY <1>5, NoneFailedBefore DEF NoneLost
<1> QED BY <1>3, <1>6, <1>7

\* The three steps that swing tail keep the list, what was read and the nodes.
LEMMA TailMovers ==
    ASSUME TypeOK, TypeOK', AllSnapshots, NEW n, NEW s, ListState(n, s),
           NoneLost(n, s), NEW t \in Threads,
           EnqHelp(t) \/ EnqSwing(t) \/ DeqHelp(t)
    PROVE  AllSnapshots' /\ \E m, r : ListState(m, r)' /\ NoneLost(m, r)'
<1>0. /\ Snapshot(t) /\ pc[t] \in {"e_help", "e_swing", "d_help"}
      /\ UNCHANGED <<head, next, value, freeList>>
  BY DEF AllSnapshots, EnqHelp, EnqSwing, DeqHelp
<1>1. \/ tail' = tail
      \/ /\ tail' = Pointer(next[tail.ptr].ptr, tail.count + 1)
         /\ next[tail.ptr].ptr # NullPtr
  <2>1. CASE EnqHelp(t) \/ DeqHelp(t)
    <3>1. \/ tail' = tail
          \/ /\ loc[t].tail = tail
             /\ tail' = Pointer(loc[t].next.ptr, loc[t].tail.count + 1)
      <4>1. PICK won \in CasOutcomes(tail, loc[t].tail) :
                tail' = IF won THEN MovedTail(t) ELSE tail
        BY <2>1, Zenon DEF EnqHelp, DeqHelp, HelpTail
      <4>2. won = FALSE \/ (won = TRUE /\ tail = loc[t].tail)
        BY CasOutcome
      <4> QED BY <4>1, <4>2 DEF MovedTail, NextCount
    <3>2. loc[t].tail = tail =>
              loc[t].next.ptr = next[tail.ptr].ptr /\ loc[t].next.ptr # NullPtr
      BY <1>0, <2>1, SMT DEF Snapshot, TailStepsOn, EnqHelp, DeqHelp
    <3> QED BY <3>1, <3>2
  <2>2. CASE EnqSwing(t)
    <3>1. \/ tail' = tail
          \/ /\ loc[t].tail = tail
             /\ tail' = Pointer(loc[t].node, loc[t].tail.count + 1)
      <4>1. PICK won \in CasOutcomes(tail, loc[t].tail) :
                tail' = IF won THEN Pointer(loc[t].node, NextCount(loc[t].tail.count))
                        ELSE tail
        BY <2>2, Zenon DEF EnqSwing
      <4>2. won = FALSE \/ (won = TRUE /\ tail = loc[t].tail)
        BY CasOutcome
      <4> QED BY <4>1, <4>2 DEF NextCount
    <3>2. pc[t] = "e_swing" /\ loc[t].node # NullPtr
      BY <1>0, <2>2, SMT DEF Snapshot, OwnNode, EnqSwing, EnqLabels
    <3>3. loc[t].tail = tail => next[tail.ptr].ptr = loc[t].node
      BY <1>0, <3>2, Zenon DEF Snapshot, TailStepsOn
    <3> QED BY <3>1, <3>2, <3>3
  <2> QED BY <2>1, <2>2, <1>0, SMT DEF EnqHelp, EnqSwing, DeqHelp
<1>2. \E l : /\ Moves(t, l) /\ pc[t] # "assert" /\ InHand(t)' = InHand(t)
             /\ Snapshot(t)'
  <2>1. CASE EnqHelp(t)
    <3>1. PICK l \in {"e_tail", "blocked"} : pc' = [pc EXCEPT ![t] = l]
      BY <2>1, LocMoves DEF EnqHelp
    <3>2. Moves(t, l) /\ pc'[t] = l /\ loc'[t] = loc[t] /\ pc[t] = "e_help"
      BY <2>1, <3>1, OnlyMoves DEF EnqHelp, Moves
    <3>3. Snapshot(t)'
      BY <1>0, <3>1, <3>2, SMT DEF Snapshot, OwnNode, EndsRead, NextRead,
         TailStepsOn, HeadRead, EnqLabels, DeqLabels
    <3>4. InHand(t)' = InHand(t)
      BY <3>1, <3>2 DEF InHand
    <3> QED BY <3>2, <3>3, <3>4
  <2>2. CASE DeqHelp(t)
    <3>1. PICK l \in {"d_head", "blocked"} : pc' = [pc EXCEPT ![t] = l]
      BY <2>2, LocMoves DEF DeqHelp
    <3>2. Moves(t, l) /\ pc'[t] = l /\ loc'[t] = loc[t] /\ pc[t] = "d_help"
      BY <2>2, <3>1, OnlyMoves DEF DeqHelp, Moves
    <3>3. Snapshot(t)'
      BY <1>0, <3>1, <3>2, SMT DEF Snapshot, OwnNode, EndsRead, NextRead,
         TailStepsOn, HeadRead, EnqLabels, DeqLabels
    <3>4. InHand(t)' = InHand(t)
      BY <3>1, <3>2 DEF InHand
    <3> QED BY <3>2, <3>3, <3>4
  <2>3. CASE EnqSwing(t)
    <3>1. Moves(t, "idle") /\ pc'[t] = "idle" /\ loc'[t] = NoLocals /\ pc[t] = "e_swing"
      BY <2>3, LocMoves, OnlyMoves DEF EnqSwing, Finish, Moves
    <3>2. loc'[t].node = NullPtr
      BY <3>1 DEF NoLocals
    <3>3. Snapshot(t)'
      BY <3>1, <3>2, SMT DEF Snapshot, OwnNode, EndsRead, NextRead,
         TailStepsOn, HeadRead, EnqLabels, DeqLabels
    <3>4. InHand(t)' = InHand(t)
      BY <3>1, <3>2 DEF InHand
    <3> QED BY <3>1, <3>3, <3>4
  <2> QED BY <2>1, <2>2, <2>3
<1>3. CASE tail' = tail
  <2>1. UNCHANGED <<list, freeList>>
    BY <1>0, <1>3 DEF list
  <2> QED BY <1>2, <2>1, LocalStep DEF AllSnapshots
<1>4. CASE /\ tail' = Pointer(next[tail.ptr].ptr, tail.count + 1)
           /\ next[tail.ptr].ptr # NullPtr
  BY <1>0, <1>2, <1>4, TailSteps DEF AllSnapshots
<1> QED BY <1>1, <1>3, <1>4

\* The compare-and-swap on head: the dummy leaves the list for a free list.
LEMMA DeqAdvanceKeeps ==
    ASSUME TypeOK, TypeOK', AllSnapshots, NEW n, NEW s, ListState(n, s),
           NoneLost(n, s), NEW t \in Threads, DeqAdvance(t)
    PROVE  AllSnapshots' /\ \E m, r : ListState(m, r)' /\ NoneLost(m, r)'
<1>0. /\ pc[t] = "d_cas" /\ Snapshot(t) /\ UNCHANGED <<tail, next, value>>
      /\ loc[t].node = NullPtr
  BY SMT DEF DeqAdvance, AllSnapshots, Snapshot, OwnNode, DeqLabels
<1>1. CASE Retry(t, "d_head") /\ UNCHANGED <<head, freeList, loc>>
  <2>1. PICK l \in {"d_head", "blocked"} : pc' = [pc EXCEPT ![t] = l]
    BY <1>1, LocMoves
  <2>2. Moves(t, l) /\ pc'[t] = l /\ UNCHANGED <<list, freeList>> /\ loc'[t] = loc[t]
    BY <1>0, <1>1, <2>1, OnlyMoves DEF Moves, list
  <2>3. Snapshot(t)'
    BY <1>0, <2>1, <2>2, SMT DEF Snapshot, OwnNode, EndsRead, NextRead,
       TailStepsOn, HeadRead, EnqLabels, DeqLabels
  <2>4. InHand(t)' = InHand(t)
    BY <1>0, <2>1, <2>2 DEF InHand
  <2> QED BY <1>0, <2>2, <2>3, <2>4, LocalStep DEF AllSnapshots
<1>2. CASE ~(Retry(t, "d_head") /\ UNCHANGED <<head, freeList, loc>>)
  <2>1. /\ loc[t].head = head
        /\ head' = Pointer(loc[t].next.ptr, loc[t].head.count + 1)
        /\ \/ /\ EmptyPlaces(t) # {}
              /\ freeList' = [freeList EXCEPT ![t][First(EmptyPlaces(t))] = Retired(t)]
              /\ Finish(t, loc[t].val)
           \/ Goto(t, "assert") /\ UNCHANGED <<freeList, loc>>
    <3>1. PICK won \in CasOutcomes(head, loc[t].head) :
              IF won
              THEN /\ head' = Pointer(loc[t].next.ptr, NextCount(loc[t].head.count))
                   /\ IF EmptyPlaces(t) # {}
                      THEN /\ freeList' = [freeList EXCEPT
                                  ![t][First(EmptyPlaces(t))] = Retired(t)]
                           /\ Finish(t, loc[t].val)
                      ELSE Goto(t, "assert") /\ UNCHANGED <<freeList, loc>>
              ELSE Retry(t, "d_head") /\ UNCHANGED <<head, freeList, loc>>
      BY Zenon DEF DeqAdvance
    <3>2. won = FALSE \/ (won = TRUE /\ head = loc[t].head)
      BY CasOutcome
    <3>3. won = TRUE /\ head = loc[t].head
      BY <1>2, <3>1, <3>2, Zenon
    <3> QED BY <3>1, <3>3, Zenon DEF NextCount
  <2>2. /\ tail.ptr # head.ptr /\ loc[t].next.ptr = next[head.ptr].ptr
        /\ Retired(t) = head.ptr
    BY <1>0, <2>1, SMT DEF Snapshot, HeadRead, Retired
  <2>3. /\ head'.ptr = next[head.ptr].ptr /\ head'.count = head.count + 1
        /\ head.count \in Nat /\ head.ptr \in Nodes
        /\ n # 1 /\ n \in Nat \ {0} /\ s \in [1 .. n -> Nodes] /\ s[1] = head.ptr
    BY <2>1, <2>2, ListFacts, TypeParts DEF Pointer
  <2>4. PICK l \in {"idle", "assert"} :
            /\ Moves(t, l) /\ pc'[t] = l /\ loc'[t].node = NullPtr
            /\ l # "assert" => /\ EmptyPlaces(t) # {}
                               /\ freeList' = [freeList EXCEPT
                                      ![t][First(EmptyPlaces(t))] = head.ptr]
            /\ l = "assert" => freeList' = freeList
    <3>1. CASE /\ EmptyPlaces(t) # {}
               /\ freeList' = [freeList EXCEPT ![t][First(EmptyPlaces(t))] = Retired(t)]
               /\ Finish(t, loc[t].val)
      <4>1. Moves(t, "idle") /\ pc'[t] = "idle" /\ loc'[t] = NoLocals
        BY <3>1, LocMoves, OnlyMoves DEF Finish, Moves
      <4>2. loc'[t].node = NullPtr
        BY <4>1 DEF NoLocals
      <4> QED BY <2>2, <3>1, <4>1, <4>2
    <3>2. CASE Goto(t, "assert") /\ UNCHANGED <<freeList, loc>>
      <4>1. Moves(t, "assert") /\ pc'[t] = "assert"
        BY <3>2, LocMoves, OnlyMoves DEF Moves
      <4> QED BY <1>0, <3>2, <4>1
    <3> QED BY <2>1, <3>1, <3>2
  <2>5. ListMoves
    <3>1. head.count < head'.count /\ head' # head
      BY <2>3, SMT
    <3>2. \A c \in Cells : next[c].count <= next'[c].count
      BY <1>0, TypeParts, SMT
    <3> QED BY <1>0, <3>1, <3>2 DEF ListMoves
  <2>6. \A u \in Threads \ {t} : Snapshot(u)'
    BY <1>0, <2>4, <2>5, OthersKept
  <2>7. Snapshot(t)'
    BY <2>4, SMT DEF Snapshot, OwnNode, EndsRead, NextRead,
       TailStepsOn, HeadRead, EnqLabels, DeqLabels
  <2>8. PICK k \in 0 .. MaxFree :
            /\ Held[t][k] = NullPtr /\ SameBut(Held, Held', t, k, k)
            /\ Held'[t][k] \in {head.ptr, NullPtr}
            /\ l # "assert" => Held'[t][k] = head.ptr
    <3>1. InHand(t) = NullPtr /\ InHand(t)' = NullPtr
      BY <1>0, <2>4 DEF InHand
    <3>2. ASSUME NEW u \in Threads PROVE InHand(u)' = InHand(u)
      <4>1. u # t => pc'[u] = pc[u] /\ loc'[u] = loc[u]
        BY <2>4, OnlyMoves
      <4> QED BY <3>1, <4>1 DEF InHand
    <3>3. CASE l = "assert"
      <4>1. \A u \in Threads, i \in 0 .. MaxFree : Held'[u][i] = Held[u][i]
        BY <2>4, <3>2, <3>3, HeldIs
      <4>2. Held[t][0] = NullPtr /\ 0 \in 0 .. MaxFree
        BY <3>1, HeldIs
      <4> QED BY <3>3, <4>1, <4>2, Zenon DEF SameBut
    <3>4. CASE l # "assert"
      <4> DEFINE k == First(EmptyPlaces(t))
      <4>1. k \in EmptyPlaces(t)
        <5>1. EmptyPlaces(t) \subseteq Nat
          BY SMT DEF EmptyPlaces
        <5> QED BY <2>4, <3>4, <5>1, FirstIsIn
      <4>2. freeList' = [freeList EXCEPT ![t][k] = head.ptr]
        BY <2>4, <3>4
      <4> HIDE DEF k
      <4>3. k \in 1 .. MaxFree /\ freeList[t][k] = NullPtr /\ k \in 0 .. MaxFree /\ k # 0
        BY <4>1, HeldIs, Zenon DEF EmptyPlaces
      <4>4. /\ freeList'[t][k] = head.ptr
            /\ \A u \in Threads, i \in 1 .. MaxFree :
                   u # t \/ i # k => freeList'[u][i] = freeList[u][i]
        <5>1. freeList \in [Threads -> [1 .. MaxFree -> Cells]]
          BY DEF TypeOK
        <5> QED BY <4>2, <4>3, <5>1, Zenon
      <4>5. SameBut(Held, Held', t, k, k)
        <5> SUFFICES ASSUME NEW u \in Threads, NEW i \in 0 .. MaxFree, u # t \/ i # k
                     PROVE  Held'[u][i] = Held[u][i]
          BY DEF SameBut
        <5>1. CASE i = 0
          BY <3>2, <5>1, HeldIs
        <5>2. CASE i # 0
          <6>1. i \in 1 .. MaxFree
            BY <5>2, HeldIs
          <6> QED BY <6>1, <4>4, HeldIs
        <5> QED BY <5>1, <5>2
      <4>6. Held[t][k] = NullPtr /\ Held'[t][k] = head.ptr
        BY <4>3, <4>4, HeldIs
      <4> QED BY <4>3, <4>5, <4>6
    <3> QED BY <3>3, <3>4
  <2>9. /\ OnePlace(n - 1, Rest(n, s), Held')
        /\ l # "assert" => (AllPlaced(n, s, Held) => AllPlaced(n - 1, Rest(n, s), Held'))
    <3>1. IsList(n, s, head.ptr, next) /\ OnePlace(n, s, Held)
      BY DEF ListState
    <3> QED BY <2>3, <2>8, <3>1, NodeRetired
  <2>10. IsList(n - 1, Rest(n, s), head'.ptr, next')
    <3>1. IsList(n - 1, Rest(n, s), next[head.ptr].ptr, next)
      BY <2>3, ListShrinks DEF ListState
    <3> QED BY <1>0, <2>3, <3>1
  <2>11. TailOn(n - 1, Rest(n, s), tail.ptr)
    <3>0. /\ n - 1 \in 1 .. n - 1 /\ (n - 1) + 1 = n
          /\ n - 1 # 1 => /\ (n - 1) - 1 \in 1 .. n - 1 /\ ((n - 1) - 1) + 1 = n - 1
      BY <2>3, SMT
    <3>1. \A i \in 1 .. n - 1 : Rest(n, s)[i] = s[i + 1]
      BY <2>3, RestIs
    <3>2. Rest(n, s)[n - 1] = s[n] /\ (n - 1 # 1 => Rest(n, s)[(n - 1) - 1] = s[n - 1])
      BY <3>0, <3>1
    <3>3. tail.ptr = s[n] \/ tail.ptr = s[n - 1]
      BY DEF ListState, TailOn
    <3>4. tail.ptr = s[n - 1] => n - 1 # 1
      BY <2>2, <2>3
    <3> QED BY <3>2, <3>3, <3>4 DEF TailOn
  <2>12. ListState(n - 1, Rest(n, s))'
    BY <1>0, <2>9, <2>10, <2>11 DEF ListState
  <2>13. NoneLost(n - 1, Rest(n, s))'
    <3>1. NoAssertFails' => NoAssertFails /\ l # "assert"
      BY <1>0, <2>4, NoneFailedBefore DEF NoAssertFails
    <3> QED BY <2>9, <3>1 DEF NoneLost
  <2> QED BY <2>6, <2>7, <2>12, <2>13 DEF AllSnapshots
<1> QED BY <1>1, <1>2

-----------------------------------------------------------------------------
\* The invariant holds initially: the list is the dummy, every other node is on
\* the free list of one thread.
LEMMA InitInv == Init => IInv
<1> SUFFICES ASSUME Init PROVE IInv
  OBVIOUS
<1>1. TypeOK
  BY InitTypeOK
<1>2. ASSUME NEW t \in Threads PROVE pc[t] = "idle" /\ loc[t] = NoLocals /\ loc[t].node = NullPtr
  BY SMT DEF Init, ClientInit, NoLocals
<1>3. AllSnapshots
  <2> SUFFICES ASSUME NEW t \in Threads PROVE Snapshot(t)
    BY DEF AllSnapshots
  <2> QED BY <1>2, SMT DEF Snapshot, OwnNode, EndsRead, NextRead, TailStepsOn,
       HeadRead, EnqLabels, DeqLabels
<1> DEFINE s == [i \in 1 .. 1 |-> Dummy]
<1>4. s \in [1 .. 1 -> Nodes] /\ s[1] = Dummy /\ \A i \in 1 .. 1 : i = 1 /\ s[i] = Dummy
  BY NodesAreNumbers, SMT
<1> HIDE DEF s
<1>5. head.ptr = Dummy /\ tail.ptr = Dummy /\ next[Dummy].ptr = NullPtr
  <2>1. next[Dummy] = Pointer(NullPtr, 0)
    BY NodesAreNumbers, Zenon DEF Init
  <2> QED BY <2>1 DEF Init, Pointer
<1>6. IsList(1, s, head.ptr, next)
  <2>1. 1 \in Nat \ {0} /\ 1 .. 1 - 1 = {}
    BY SMT
  <2> QED BY <1>4, <1>5, <2>1 DEF IsList
<1>7. \A t \in Threads, j \in 1 .. MaxFree :
          freeList[t][j] = IF t < NumThreads /\ j <= InitialFree
                           THEN InitialNode(t, j) ELSE NullPtr
  BY SMT DEF Init
<1>8. \A t \in Threads, j \in 1 .. MaxFree : t \in Nat /\ j \in Nat /\ j >= 1 /\ MaxFree \in Nat \ {0}
  BY ThreadNumbers, FreeListSizes, SMT
<1>9. ASSUME NEW t \in Threads, NEW j \in 1 .. MaxFree
      PROVE  /\ InitialNode(t, j) = MaxFree * t + (j - 1) + 2
             /\ MaxFree * t \in Nat /\ j - 1 \in 0 .. MaxFree - 1
             /\ InitialNode(t, j) # Dummy /\ InitialNode(t, j) # NullPtr
  <2>1. t \in Nat /\ j \in Nat /\ j >= 1 /\ j <= MaxFree /\ MaxFree \in Nat
    BY <1>8, SMT
  <2>2. t * MaxFree = MaxFree * t /\ MaxFree * t \in Nat
    BY <2>1, SMT
  <2> QED BY <2>1, <2>2, SMT DEF InitialNode, Dummy, NullPtr
<1>10. ASSUME NEW t \in Threads, NEW u \in Threads,
              NEW j \in 1 .. MaxFree, NEW k \in 1 .. MaxFree,
              InitialNode(t, j) = InitialNode(u, k)
       PROVE  t = u /\ j = k
  <2>1. MaxFree * t + (j - 1) = MaxFree * u + (k - 1)
    BY <1>8, <1>9, <1>10, SMT
  <2>2. t = u /\ j - 1 = k - 1
    <3>1. /\ MaxFree \in Nat \ {0} /\ t \in Nat /\ u \in Nat
          /\ j - 1 \in 0 .. MaxFree - 1 /\ k - 1 \in 0 .. MaxFree - 1
      BY <1>8, <1>9
    <3> QED BY ONLY <2>1, <3>1, ModUnique
  <2> QED BY <1>8, <2>2, SMT
<1>11. \A t \in Threads : Held[t][0] = NullPtr
  BY <1>2, HeldIs DEF InHand
<1>12. \A t \in Threads, j \in 0 .. MaxFree : Held[t][j] # NullPtr =>
           /\ j \in 1 .. MaxFree /\ t < NumThreads /\ j <= InitialFree
           /\ Held[t][j] = InitialNode(t, j) /\ Held[t][j] \in Nodes
  <2> SUFFICES ASSUME NEW t \in Threads, NEW j \in 0 .. MaxFree, Held[t][j] # NullPtr
               PROVE  /\ j \in 1 .. MaxFree /\ t < NumThreads /\ j <= InitialFree
                      /\ Held[t][j] = InitialNode(t, j) /\ Held[t][j] \in Nodes
    OBVIOUS
  <2>1. j \in 1 .. MaxFree /\ Held[t][j] = freeList[t][j]
    BY <1>11, HeldIs
  <2>2. t < NumThreads /\ j <= InitialFree /\ Held[t][j] = InitialNode(t, j)
    BY <1>7, <2>1
  <2>3. t \in {u \in Threads : u < NumThreads} /\ j \in 1 .. InitialFree
    BY <2>1, <2>2, FreeListSizes, SMT
  <2>4. InitialNode(t, j) \in Nodes
    BY <2>3 DEF Nodes
  <2> QED BY <2>1, <2>2, <2>4
<1>13. OnePlace(1, s, Held)
  <2>1. \A t \in Threads, j \in 0 .. MaxFree : Held[t][j] \in Nodes \cup {NullPtr}
    BY <1>12
  <2>2. ASSUME NEW t \in Threads, NEW u \in Threads,
               NEW j \in 0 .. MaxFree, NEW k \in 0 .. MaxFree,
               Held[t][j] = Held[u][k], Held[t][j] # NullPtr
        PROVE  t = u /\ j = k
    BY <1>10, <1>12, <2>2
  <2>3. \A t \in Threads, j \in 0 .. MaxFree, i \in 1 .. 1 : Held[t][j] # s[i]
    BY <1>4, <1>9, <1>12, NodesAreNumbers
  <2> QED BY <2>1, <2>2, <2>3 DEF OnePlace
<1>14. AllPlaced(1, s, Held)
  <2> SUFFICES ASSUME NEW x \in Nodes
               PROVE  \/ \E i \in 1 .. 1 : s[i] = x
                      \/ \E t \in Threads, j \in 0 .. MaxFree : Held[t][j] = x
    BY DEF AllPlaced
  <2>1. CASE x = Dummy
    <3>1. 1 \in 1 .. 1
      BY SMT
    <3> QED BY <1>4, <2>1, <3>1
  <2>2. CASE x # Dummy
    <3>1. PICK t \in {u \in Threads : u < NumThreads}, j \in 1 .. InitialFree :
              x = InitialNode(t, j)
      BY <2>2, SMT DEF Nodes
    <3>2. t \in Threads /\ t < NumThreads /\ j \in 1 .. MaxFree /\ j <= InitialFree
      BY FreeListSizes, SMT
    <3>3. freeList[t][j] = x
      BY <1>7, <3>1, <3>2
    <3> QED BY <3>2, <3>3, HeldIs
  <2> QED BY <2>1, <2>2
<1>15. ListState(1, s) /\ NoneLost(1, s)
  BY <1>4, <1>5, <1>6, <1>13, <1>14 DEF ListState, TailOn, NoneLost
<1>16. next[NullPtr].ptr = NullPtr
  <2>1. next[NullPtr] = Pointer(NullPtr, 0)
    BY NodesAreNumbers, Zenon DEF Init
  <2> QED BY <2>1 DEF Pointer
<1> QED BY <1>1, <1>3, <1>15, <1>16 DEF IInv

\* nodes[0].next is never written: a node being cleared or linked behind is one.
LEMMA NullIsNotLinked ==
    ASSUME ~WeakCAS, TypeOK, AllSnapshots, NEW n, NEW s, ListState(n, s),
           next[NullPtr].ptr = NullPtr, NEW t \in Threads, Step(t)
    PROVE  next'[NullPtr].ptr = NullPtr
<1>0. Snapshot(t) /\ next \in [Cells -> PointerType] /\ NullPtr \in Cells
  BY NodesAreNumbers DEF AllSnapshots, TypeOK
<1>1. CASE EnqClearNext(t)
  <2>1. loc[t].node # NullPtr
    BY <1>0, <1>1, SMT DEF EnqClearNext, Snapshot, OwnNode, EnqLabels
  <2>2. next' = [next EXCEPT ![loc[t].node] = loc[t].next]
    BY <1>1 DEF EnqClearNext
  <2>3. next'[NullPtr] = next[NullPtr]
    BY <2>1, <2>2, <1>0, Zenon
  <2> QED BY <2>3
<1>2. CASE EnqLink(t)
  <2>1. PICK won \in CasOutcomes(next[loc[t].tail.ptr], loc[t].next) :
            IF won
            THEN next' = [next EXCEPT ![loc[t].tail.ptr] =
                             Pointer(loc[t].node, NextCount(loc[t].next.count))]
            ELSE next' = next
    BY <1>2, Zenon DEF EnqLink
  <2>2. CASE ~won
    BY <2>1, <2>2
  <2>3. CASE won
    <3>1. next[loc[t].tail.ptr] = loc[t].next
      BY <2>1, <2>3, CasOutcome, Zenon
    <3>2. loc[t].tail.ptr = tail.ptr
      <4>1. next[loc[t].tail.ptr].count \in Nat /\ pc[t] = "e_link"
        BY <1>2, TypeParts DEF EnqLink
      <4>2. \/ loc[t].tail.ptr = tail.ptr
            \/ loc[t].next.count < next[loc[t].tail.ptr].count
        BY <1>0, <4>1, SMT DEF Snapshot, NextRead
      <4> QED BY <3>1, <4>1, <4>2, SMT
    <3>3. tail.ptr # NullPtr
      BY ListFacts, NodesAreNumbers
    <3>4. next'[NullPtr] = next[NullPtr]
      BY <2>1, <2>3, <3>2, <3>3, <1>0, Zenon
    <3> QED BY <3>4
  <2> QED BY <2>2, <2>3
<1>3. CASE ~(EnqClearNext(t) \/ EnqLink(t))
  <2>1. next' = next
    BY <1>3 DEF Step, EnqStep, DeqStep, EnqCall, EnqWriteValue, EnqLoadOwnNext,
       EnqLoadTail, EnqLoadNext, EnqCheckTail, EnqLoadPtr, EnqHelp, EnqSwing,
       DeqCall, DeqLoadHead, DeqLoadTail, DeqLoadNext, DeqCheckHead, DeqHelp,
       DeqReadValue, DeqAdvance, list
  <2> QED BY <2>1
<1> QED BY <1>1, <1>2, <1>3

\* Every step keeps the invariant.
LEMMA NextInv == ASSUME ~WeakCAS, IInv, [Next]_vars PROVE IInv'
<1>0. TypeOK /\ AllSnapshots /\ next[NullPtr].ptr = NullPtr
  BY DEF IInv
<1>1. PICK n, s : ListState(n, s) /\ NoneLost(n, s)
  BY DEF IInv
<1>2. CASE UNCHANGED vars
  <2>1. TypeOK'
    BY <1>0, <1>2 DEF TypeOK, ClientTypeOK, InCall, vars
  <2>2. AllSnapshots'
    BY <1>0, <1>2 DEF AllSnapshots, Snapshot, OwnNode, EndsRead, NextRead, TailStepsOn,
       HeadRead, vars
  <2>3. ListState(n, s)' /\ NoneLost(n, s)'
    BY <1>1, <1>2 DEF ListState, NoneLost, NoAssertFails, Held, InHand, vars
  <2>4. next'[NullPtr].ptr = NullPtr
    BY <1>0, <1>2 DEF vars
  <2> QED BY <2>1, <2>2, <2>3, <2>4 DEF IInv
<1>3. ASSUME NEW t \in Threads, Step(t) PROVE IInv'
  <2>1. TypeOK'
    BY <1>0, <1>3, EnqTypeStep, DeqTypeStep DEF Step
  <2>0. next'[NullPtr].ptr = NullPtr
    BY <1>0, <1>1, <1>3, NullIsNotLinked
  <2>2. CASE \/ EnqLoadOwnNext(t) \/ EnqLoadTail(t) \/ EnqLoadNext(t)
             \/ EnqCheckTail(t) \/ EnqLoadPtr(t)
    BY <1>0, <1>1, <2>0, <2>1, <2>2, EnqReads DEF IInv
  <2>3. CASE \/ DeqCall(t) \/ DeqLoadHead(t) \/ DeqLoadTail(t) \/ DeqLoadNext(t)
             \/ DeqCheckHead(t) \/ DeqReadValue(t)
    BY <1>0, <1>1, <2>0, <2>1, <2>3, DeqReads DEF IInv
  <2>4. CASE EnqCall(t)
    BY <1>0, <1>1, <2>0, <2>1, <2>4, EnqCallKeeps DEF IInv
  <2>5. CASE EnqWriteValue(t) \/ EnqClearNext(t)
    BY <1>0, <1>1, <2>0, <2>1, <2>5, OwnWrites DEF IInv
  <2>6. CASE EnqLink(t)
    BY <1>0, <1>1, <2>0, <2>1, <2>6, EnqLinkKeeps DEF IInv
  <2>7. CASE EnqHelp(t) \/ EnqSwing(t) \/ DeqHelp(t)
    BY <1>0, <1>1, <2>0, <2>1, <2>7, TailMovers DEF IInv
  <2>8. CASE DeqAdvance(t)
    BY <1>0, <1>1, <2>0, <2>1, <2>8, DeqAdvanceKeeps DEF IInv
  <2> QED BY <1>3, <2>2, <2>3, <2>4, <2>5, <2>6, <2>7, <2>8
          DEF Step, EnqStep, DeqStep
<1> QED BY <1>2, <1>3 DEF Next, Terminating

-----------------------------------------------------------------------------
\* From the invariant to the properties of the runs, which speak of the nodes met
\* when following next from head.

\* ListFrom computes the list.
LEMMA ListFromIs ==
    ASSUME NEW n, NEW s, NEW h, NEW nx, IsList(n, s, h, nx), nx[NullPtr].ptr = NullPtr
    PROVE  LET N == Cardinality(Nodes) IN
           /\ N \in Nat /\ n <= N
           /\ \A i \in 0 .. N : ListFrom(h, nx)[i] = IF i < n THEN s[i + 1] ELSE NullPtr
<1> DEFINE N == Cardinality(Nodes)
           F(f) == [i \in 0 .. N |-> IF i = 0 THEN h ELSE nx[f[i - 1]].ptr]
           g == [i \in 0 .. N |-> IF i < n THEN s[i + 1] ELSE NullPtr]
<1>0. /\ n \in Nat \ {0} /\ s \in [1 .. n -> Nodes] /\ s[1] = h
      /\ \A i \in 1 .. n - 1 : nx[s[i]].ptr = s[i + 1]
      /\ nx[s[n]].ptr = NullPtr
      /\ \A i, j \in 1 .. n : s[i] = s[j] => i = j
  BY DEF IsList
<1>1. N \in Nat /\ n <= N
  <2>1. IsFiniteSet(1 .. n) /\ Cardinality(1 .. n) = n
    <3>1. 1 \in Int /\ n \in Int /\ n - 1 + 1 = n /\ ~(1 > n)
      BY <1>0, SMT
    <3>2. /\ IsFiniteSet(1 .. n)
          /\ Cardinality(1 .. n) = IF 1 > n THEN 0 ELSE n - 1 + 1
      BY <3>1, FS_Interval, Zenon
    <3> QED BY <3>1, <3>2
  <2>2. s \in Injection(1 .. n, Nodes)
    BY <1>0 DEF Injection, IsInjective
  <2>3. Cardinality(1 .. n) <= Cardinality(Nodes)
    BY <2>1, <2>2, NodesFinite, FS_Injection
  <2>4. N \in Nat
    BY NodesFinite, FS_CardinalityType
  <2> QED BY <2>1, <2>3, <2>4
<1> HIDE DEF N
<1>2. g = F(g)
  <2>1. ASSUME NEW i \in 0 .. N
        PROVE  g[i] = IF i = 0 THEN h ELSE nx[g[i - 1]].ptr
    <3>1. CASE i = 0
      BY <1>0, <1>1, <3>1, SMT
    <3>2. CASE i # 0 /\ i < n
      <4>1. i - 1 \in 0 .. N /\ i - 1 < n /\ (i - 1) + 1 = i /\ i \in 1 .. n - 1
        BY <1>0, <1>1, <3>2, SMT
      <4>2. g[i - 1] = s[i] /\ g[i] = s[i + 1]
        BY <3>2, <4>1
      <4> QED BY <1>0, <3>2, <4>1, <4>2
    <3>3. CASE i = n
      <4>1. i - 1 \in 0 .. N /\ i - 1 < n /\ (i - 1) + 1 = n /\ i # 0 /\ ~(i < n)
        BY <1>0, <1>1, <3>3, SMT
      <4>2. g[i - 1] = s[n] /\ g[i] = NullPtr
        BY <4>1
      <4> QED BY <1>0, <4>1, <4>2
    <3>4. CASE i > n
      <4>1. i - 1 \in 0 .. N /\ ~(i - 1 < n) /\ i # 0 /\ ~(i < n)
        BY <1>0, <1>1, <3>4, SMT
      <4>2. g[i - 1] = NullPtr /\ g[i] = NullPtr
        BY <4>1
      <4> QED BY <4>1, <4>2
    <3> QED BY <3>1, <3>2, <3>3, <3>4, <1>0, SMT
  <2>2. g = [i \in 0 .. N |-> g[i]]
    OBVIOUS
  <2> HIDE DEF g
  <2> QED BY <2>1, <2>2, Zenon
<1> HIDE DEF g
<1>3. \E f : f = F(f)
  BY <1>2
<1>4. ListFrom(h, nx) = CHOOSE f : f = F(f)
  BY DEF ListFrom, N
<1>5. ListFrom(h, nx) = F(ListFrom(h, nx))
  BY <1>3, <1>4, Zenon
<1>6. PICK f : f = ListFrom(h, nx)
  OBVIOUS
<1>7. \A i \in 0 .. N : f[i] = IF i = 0 THEN h ELSE nx[f[i - 1]].ptr
  BY <1>5, <1>6, Zenon
<1>8. \A i \in 0 .. N : g[i] = IF i = 0 THEN h ELSE nx[g[i - 1]].ptr
  BY <1>2, Zenon
<1>9. \A i \in 0 .. N : f[i] = g[i]
  <2> DEFINE D == {i \in 0 .. N : f[i] # g[i]}
  <2> SUFFICES ASSUME D # {} PROVE FALSE
    OBVIOUS
  <2>1. D \subseteq Nat
    BY SMT
  <2>2. PICK i \in D : \A j \in D : i <= j
    BY <2>1, LeastNumber
  <2>3. i \in 0 .. N /\ f[i] # g[i]
    BY <2>2
  <2>4. i # 0
    BY <1>7, <1>8, <2>3
  <2>5. i - 1 \in 0 .. N /\ ~(i <= i - 1)
    BY <1>1, <2>3, <2>4, SMT
  <2>6. f[i - 1] = g[i - 1]
    BY <2>2, <2>5
  <2> QED BY <1>7, <1>8, <2>3, <2>4, <2>6
<1>10. \A i \in 0 .. N : ListFrom(h, nx)[i] = IF i < n THEN s[i + 1] ELSE NullPtr
  BY <1>6, <1>9 DEF g
<1> QED BY <1>1, <1>10 DEF N

\* The nodes met are the nodes of s, and they end.
LEMMA InListIs ==
    ASSUME NEW n, NEW s, ListState(n, s), next[NullPtr].ptr = NullPtr
    PROVE  /\ ListAt[Cardinality(Nodes)] = NullPtr
           /\ \A x : x \in InList <=> \E i \in 1 .. n : s[i] = x
<1> DEFINE N == Cardinality(Nodes)
<1>1. IsList(n, s, head.ptr, next)
  BY DEF ListState
<1>2. /\ N \in Nat /\ n <= N /\ n \in Nat \ {0}
      /\ \A i \in 0 .. N : ListAt[i] = IF i < n THEN s[i + 1] ELSE NullPtr
  <2>1. n \in Nat \ {0}
    BY <1>1 DEF IsList
  <2> QED BY <1>1, <2>1, ListFromIs DEF ListAt
<1> HIDE DEF N
<1>3. N \in 0 .. N /\ ~(N < n)
  BY <1>2, SMT
<1>4. ListAt[N] = NullPtr
  BY <1>2, <1>3
<1>5. ASSUME NEW i \in 1 .. n PROVE s[i] \in InList
  <2>1. i - 1 \in 0 .. N /\ i - 1 < n /\ (i - 1) + 1 = i
    BY <1>2, SMT
  <2>2. ListAt[i - 1] = s[i]
    BY <1>2, <2>1
  <2>3. s[i] # NullPtr
    BY <1>1, NodesAreNumbers DEF IsList
  <2> QED BY <2>1, <2>2, <2>3 DEF InList, N
<1>6. ASSUME NEW x \in InList PROVE \E i \in 1 .. n : s[i] = x
  <2>1. PICK i \in 0 .. N : x = ListAt[i] /\ x # NullPtr
    BY Zenon DEF InList, N
  <2>2. i < n /\ x = s[i + 1]
    BY <1>2, <2>1
  <2>3. i + 1 \in 1 .. n
    BY <1>2, <2>2, SMT
  <2> QED BY <2>2, <2>3
<1> QED BY <1>4, <1>5, <1>6 DEF N

\* The list is one, with tail on it.
LEMMA ListIsWellFormed ==
    ASSUME TypeOK, NEW n, NEW s, ListState(n, s), next[NullPtr].ptr = NullPtr
    PROVE  ListWellFormed
<1>1. /\ ListAt[Cardinality(Nodes)] = NullPtr
      /\ \A x : x \in InList <=> \E i \in 1 .. n : s[i] = x
  BY InListIs
<1>2. n \in 1 .. n /\ (n # 1 => n - 1 \in 1 .. n)
  BY ListFacts, SMT
<1>3. tail.ptr \in InList
  BY <1>1, <1>2 DEF ListState, TailOn
<1>4. next[tail.ptr].ptr # NullPtr => next[next[tail.ptr].ptr].ptr = NullPtr
  <2>1. next[s[n]].ptr = NullPtr
    BY DEF ListState, IsList
  <2> QED BY <2>1, ListFacts
<1> QED BY <1>1, <1>3, <1>4 DEF ListWellFormed

\* A compare-and-swap about to succeed has read the list as it is.
LEMMA SnapshotsAreValid ==
    ASSUME TypeOK, AllSnapshots, NEW n, NEW s, ListState(n, s),
           next[NullPtr].ptr = NullPtr
    PROVE  SnapshotsValid
<1>1. \A x : x \in InList <=> \E i \in 1 .. n : s[i] = x
  BY InListIs
<1>2. tail.ptr \in InList
  BY ListIsWellFormed DEF ListWellFormed
<1>3. HeadSnapshotValid
  <2> SUFFICES ASSUME NEW t \in Threads, pc[t] = "d_cas", loc[t].head = head
               PROVE  /\ loc[t].next.ptr = next[head.ptr].ptr
                      /\ loc[t].next.ptr \in InList
                      /\ loc[t].val = value[loc[t].next.ptr]
    BY DEF HeadSnapshotValid
  <2>1. /\ tail.ptr # head.ptr /\ loc[t].next.ptr = next[head.ptr].ptr
        /\ loc[t].val = value[loc[t].next.ptr]
    BY SMT DEF AllSnapshots, Snapshot, HeadRead
  <2>2. next[head.ptr].ptr = s[2] /\ 2 \in 1 .. n
    BY <2>1, ListFacts
  <2> QED BY <1>1, <2>1, <2>2
<1>4. LinksAtEnd
  <2> SUFFICES ASSUME NEW t \in Threads, pc[t] = "e_link",
                      next[loc[t].tail.ptr] = loc[t].next
               PROVE  loc[t].tail.ptr \in InList
    BY DEF LinksAtEnd
  <2>1. next[loc[t].tail.ptr].count \in Nat
    BY TypeParts
  <2>2. \/ loc[t].tail.ptr = tail.ptr
        \/ loc[t].next.count < next[loc[t].tail.ptr].count
    BY SMT DEF AllSnapshots, Snapshot, NextRead
  <2>3. loc[t].tail.ptr = tail.ptr
    BY <2>1, <2>2, SMT
  <2> QED BY <1>2, <2>3
<1> QED BY <1>3, <1>4 DEF SnapshotsValid, AllSnapshots

\* Each node is in one place.
LEMMA OnePlaceEach ==
    ASSUME NEW n, NEW s, ListState(n, s), next[NullPtr].ptr = NullPtr,
           AllPlaced(n, s, Held)
    PROVE  NodeHasOnePlace
<1> SUFFICES ASSUME NEW x \in Nodes
             PROVE  LET free    == {p \in Threads \X (1 .. MaxFree) : freeList[p[1]][p[2]] = x}
                        holders == {t \in Threads : InHand(t) = x}
                    IN  Cardinality(free) + Cardinality(holders)
                            = IF x \in InList THEN 0 ELSE 1
  BY Zenon DEF NodeHasOnePlace
<1> DEFINE free    == {p \in Threads \X (1 .. MaxFree) : freeList[p[1]][p[2]] = x}
           holders == {t \in Threads : InHand(t) = x}
<1>0. x # NullPtr
  BY NodesAreNumbers
<1>1. \A p \in free : /\ p[1] \in Threads /\ p[2] \in 1 .. MaxFree
                      /\ p = <<p[1], p[2]>> /\ Held[p[1]][p[2]] = x
  BY HeldIs
<1>2. \A t \in holders : t \in Threads /\ Held[t][0] = x
  BY HeldIs
<1>3. \A t \in Threads : Held[t][0] = x => t \in holders
  BY HeldIs
<1>4. \A t \in Threads, j \in 1 .. MaxFree : Held[t][j] = x => <<t, j>> \in free
  BY HeldIs
<1> HIDE DEF free, holders
<1>5. \A j \in 1 .. MaxFree : j \in 0 .. MaxFree /\ j # 0
  BY SMT
<1>6. 0 \in 0 .. MaxFree
  BY FreeListSizes, SMT
<1>7. \A t, u \in Threads, j, k \in 0 .. MaxFree :
          Held[t][j] = x /\ Held[u][k] = x => t = u /\ j = k
  <2>1. \A t, u \in Threads, j, k \in 0 .. MaxFree :
            Held[t][j] = Held[u][k] /\ Held[t][j] # NullPtr => t = u /\ j = k
    BY Zenon DEF ListState, OnePlace
  <2> SUFFICES ASSUME NEW t \in Threads, NEW u \in Threads,
                      NEW j \in 0 .. MaxFree, NEW k \in 0 .. MaxFree,
                      Held[t][j] = x, Held[u][k] = x
               PROVE  t = u /\ j = k
    BY Zenon
  <2> QED BY <1>0, <2>1
<1>8. CASE x \in InList
  <2>1. \A t \in Threads, j \in 0 .. MaxFree : Held[t][j] # x
    <3>1. PICK i \in 1 .. n : s[i] = x
      BY <1>8, InListIs
    <3> QED BY <3>1, Zenon DEF ListState, OnePlace
  <2>2. free = {} /\ holders = {}
    BY <1>1, <1>2, <1>5, <1>6, <2>1
  <2>3. Cardinality(free) + Cardinality(holders) = 0
    BY <2>2, FS_EmptySet, SMT
  <2> QED BY <1>8, <2>3 DEF free, holders
<1>9. CASE x \notin InList
  <2>1. ~ \E i \in 1 .. n : s[i] = x
    BY <1>9, InListIs
  <2>2. PICK t \in Threads, j \in 0 .. MaxFree : Held[t][j] = x
    BY <2>1, Zenon DEF AllPlaced
  <2>3. CASE j = 0
    <3>1. free = {} /\ holders = {t}
      BY <1>1, <1>2, <1>3, <1>5, <1>6, <1>7, <2>2, <2>3
    <3>2. Cardinality(free) = 0 /\ Cardinality(holders) = 1
      BY <3>1, FS_EmptySet, FS_Singleton
    <3>3. Cardinality(free) + Cardinality(holders) = 1
      BY <3>2, SMT
    <3> QED BY <1>9, <3>3 DEF free, holders
  <2>4. CASE j # 0
    <3>1. j \in 1 .. MaxFree
      BY <2>4, SMT
    <3>2. holders = {}
      BY <1>2, <1>6, <1>7, <2>2, <2>4
    <3>3. free = {<<t, j>>}
      BY <1>1, <1>4, <1>5, <1>7, <2>2, <3>1
    <3>4. Cardinality(free) = 1 /\ Cardinality(holders) = 0
      BY <3>2, <3>3, FS_EmptySet, FS_Singleton
    <3>5. Cardinality(free) + Cardinality(holders) = 1
      BY <3>4, SMT
    <3> QED BY <1>9, <3>5 DEF free, holders
  <2> QED BY <2>3, <2>4
<1> QED BY <1>8, <1>9

\* What the invariant says of the run's properties.
LEMMA InvImplies ==
    IInv => ListInv /\ SnapshotsValid /\ (NoAssertFails => FreeListsInv)
<1> SUFFICES ASSUME IInv
             PROVE  ListInv /\ SnapshotsValid /\ (NoAssertFails => FreeListsInv)
  OBVIOUS
<1>1. TypeOK /\ AllSnapshots /\ next[NullPtr].ptr = NullPtr
  BY DEF IInv
<1>2. PICK n, s : ListState(n, s) /\ NoneLost(n, s)
  BY DEF IInv
<1>3. ListWellFormed
  BY <1>1, <1>2, ListIsWellFormed
<1>4. SnapshotsValid
  BY <1>1, <1>2, SnapshotsAreValid
<1>5. NoAssertFails => NodeHasOnePlace
  BY <1>1, <1>2, OnePlaceEach DEF NoneLost
<1> QED BY <1>1, <1>3, <1>4, <1>5 DEF ListInv, FreeListsInv

-----------------------------------------------------------------------------
\* The theorems.  With a compare-and-swap that may fail for no reason they do
\* not hold: an enqueuer then takes the last node for one that has a next node.

\* With the strong compare-and-swap the invariant holds in every execution.
THEOREM Invariant == ASSUME ~WeakCAS PROVE Spec => []IInv
<1>1. IInv /\ [Next]_vars => IInv'
  BY NextInv
<1> QED BY <1>1, InitInv, PTL DEF Spec

\* Whatever enqueuers and dequeuers do and wherever they stall, following next
\* from head ends, tail is a node of the list, and lags its end by one node at
\* most.
THEOREM ListCorrect == ASSUME ~WeakCAS PROVE Spec => []ListInv
<1>1. IInv => ListInv
  BY InvImplies
<1> QED BY <1>1, Invariant, PTL

\* A compare-and-swap that succeeds has read the next node and the value of the
\* current dummy, or links behind the last node, however often the nodes it
\* read have been recycled since.
THEOREM SnapshotsHold == ASSUME ~WeakCAS PROVE Spec => []SnapshotsValid
<1>1. IInv => SnapshotsValid
  BY InvImplies
<1> QED BY <1>1, Invariant, PTL

\* While none of the assertions has failed, every node is in the list, in one
\* place of one free list or in the hands of one enqueuer: none is in use twice
\* and none is lost.  Which scripts let an assertion fail depends on the sizes of
\* the free lists; that is left to the runs.
THEOREM NodesRecycled == ASSUME ~WeakCAS PROVE Spec => [](NoAssertFails => FreeListsInv)
<1>1. IInv => (NoAssertFails => FreeListsInv)
  BY InvImplies
<1> QED BY <1>1, Invariant, PTL
=============================================================================
