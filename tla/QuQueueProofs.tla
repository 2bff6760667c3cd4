---------------------------- MODULE QuQueueProofs ----------------------------
(***************************************************************************)
(* Theorems about QuQueue, for any threads and scripts: the list stays one *)
(* list with all that anybody holds on it, and the queue keeps the promise *)
(* of a queue that may drop an item and may say that it is empty.          *)
(*                                                                         *)
(* The inductive invariant names the nodes of the list in their order, as  *)
(* a sequence s: next leads from each to the one behind it.  The list only *)
(* grows; head, tail and whatever a thread has read are nodes of it, and a *)
(* next field that is not null never changes, so that what a thread has    *)
(* read stays true however old it is.                                      *)
(***************************************************************************)
EXTENDS QuQueue, QueueLemmas

-----------------------------------------------------------------------------
\* Nodes.

\* A node other than the first dummy is the number of a call of a thread.
LEMMA NodesAre ==
    /\ InitNode \in Nodes /\ NoNode \notin Nodes
    /\ \A x \in Nodes : x # InitNode =>
           \E t \in Threads, i \in Nat : x = <<t, i>> /\ i >= 1 /\ x \in EnqCalls
    /\ \A t \in Threads : \A i \in 1 .. Len(Script[t]) :
           Script[t][i].kind = "enq" => <<t, i>> \in Nodes /\ <<t, i>> # InitNode
    /\ \A x \in EnqCalls : Data(x) \in Payloads
<1>1. \A t \in Threads : Script[t] \in Seq(Calls) /\ DOMAIN Script[t] = 1 .. Len(Script[t])
                         /\ Len(Script[t]) \in Nat
  BY ScriptAssumption, SMT
<1>2. ASSUME NEW x \in EnqCalls
      PROVE  \E t \in Threads : \E i \in 1 .. Len(Script[t]) :
                 x = <<t, i>> /\ Script[t][i].kind = "enq"
  <2>1. PICK t \in Threads :
            x \in {<<t, i>> : i \in {j \in DOMAIN Script[t] : Script[t][j].kind = "enq"}}
    BY SMT DEF EnqCalls
  <2> QED BY <1>1, <2>1
<1>3. ASSUME NEW x \in EnqCalls
      PROVE  /\ \E t \in Threads, i \in Nat : x = <<t, i>> /\ i >= 1
             /\ x # NoNode /\ x # InitNode /\ Data(x) \in Payloads
  <2>0. PICK t \in Threads : \E i \in 1 .. Len(Script[t]) : x = <<t, i>>
    BY <1>2
  <2>1. PICK i \in 1 .. Len(Script[t]) : x = <<t, i>>
    BY <2>0
  <2>2. i \in Nat /\ i >= 1 /\ i # 0
    BY <1>1, SMT
  <2>3. Script[t][i] \in Calls
    BY <1>1, SMT
  <2>4. Data(x) \in Payloads
    BY <2>1, <2>3 DEF Data, Calls
  <2> QED BY <2>1, <2>2, <2>4 DEF NoNode, InitNode
<1>4. InitNode # NoNode
  BY DEF InitNode, NoNode
<1>5. ASSUME NEW t \in Threads, NEW i \in 1 .. Len(Script[t]), Script[t][i].kind = "enq"
      PROVE  <<t, i>> \in EnqCalls
  BY <1>1, <1>5, SMT DEF EnqCalls
<1> QED BY <1>3, <1>4, <1>5 DEF Nodes

\* There are finitely many.
LEMMA NodesFinite == IsFiniteSet(Nodes)
<1> DEFINE Of(t) == {<<t, i>> : i \in {j \in DOMAIN Script[t] : Script[t][j].kind = "enq"}}
           All == {Of(t) : t \in Threads}
<1>1. ASSUME NEW t \in Threads PROVE IsFiniteSet(Of(t))
  <2> DEFINE D == {j \in DOMAIN Script[t] : Script[t][j].kind = "enq"}
             f == [i \in D |-> <<t, i>>]
  <2>1. Len(Script[t]) \in Nat /\ DOMAIN Script[t] = 1 .. Len(Script[t])
    BY ScriptAssumption, SMT
  <2>2. IsFiniteSet(1 .. Len(Script[t]))
    <3>1. 1 \in Int /\ Len(Script[t]) \in Int
      BY <2>1, SMT
    <3> QED BY <3>1, FS_Interval, Zenon
  <2>3. IsFiniteSet(D)
    BY <2>1, <2>2, FS_Subset
  <2>4. f \in Surjection(D, Of(t))
    BY SMT DEF Surjection
  <2> HIDE DEF D, f
  <2>5. \A T : f \in Surjection(D, T) => IsFiniteSet(T)
    BY <2>3, FS_Surjection
  <2> QED BY <2>4, <2>5
<1> DEFINE g == [t \in Threads |-> Of(t)]
<1>2. g \in Surjection(Threads, All)
  BY Zenon DEF Surjection
<1>3. \A T \in All : IsFiniteSet(T)
  BY <1>1
<1>4. EnqCalls = UNION All
  BY DEF EnqCalls
<1> HIDE DEF g, All, Of
<1>5. IsFiniteSet(All)
  BY <1>2, ThreadsFinite, FS_Surjection
<1>6. IsFiniteSet(EnqCalls)
  BY <1>3, <1>4, <1>5, FS_UNION
<1> QED BY <1>6, FS_AddElement DEF Nodes

-----------------------------------------------------------------------------
\* The list.

\* x is one of the first n nodes of s.
On(n, s, x) == \E i \in 1 .. n : s[i] = x

\* s are the n nodes behind each other from the first dummy; no other node leads
\* anywhere.
IsChain(n, s, nx) ==
    /\ n \in Nat \ {0} /\ s \in [1 .. n -> Nodes] /\ s[1] = InitNode
    /\ \A i \in 1 .. n - 1 : nx[s[i]] = s[i + 1]
    /\ nx[s[n]] = NoNode
    /\ \A i, j \in 1 .. n : s[i] = s[j] => i = j
    /\ \A x \in Nodes : nx[x] # NoNode => On(n, s, x)

\* The nodes of s with x behind them.
Grown(n, s, x) == [i \in 1 .. n + 1 |-> IF i = n + 1 THEN x ELSE s[i]]

\* They are n + 1 nodes.
LEMMA GrownIs ==
    ASSUME NEW n \in Nat \ {0}, NEW s \in [1 .. n -> Nodes], NEW x \in Nodes
    PROVE  /\ Grown(n, s, x) \in [1 .. n + 1 -> Nodes]
           /\ Grown(n, s, x)[n + 1] = x
           /\ \A i \in 1 .. n : Grown(n, s, x)[i] = s[i]
           /\ \A y : On(n + 1, Grown(n, s, x), y) <=> (On(n, s, y) \/ y = x)
<1>1. /\ n + 1 \in 1 .. n + 1
      /\ \A i \in 1 .. n : i \in 1 .. n + 1 /\ i # n + 1
      /\ \A i \in 1 .. n + 1 : i = n + 1 \/ i \in 1 .. n
  BY SMT
<1>2. /\ Grown(n, s, x) \in [1 .. n + 1 -> Nodes]
      /\ Grown(n, s, x)[n + 1] = x
      /\ \A i \in 1 .. n : Grown(n, s, x)[i] = s[i]
  BY <1>1, Zenon DEF Grown
<1> QED BY <1>1, <1>2, Zenon DEF On

\* Linking a node behind one that leads nowhere: that one was the last.
LEMMA ChainGrows ==
    ASSUME NEW n, NEW s, NEW nx \in [Nodes -> Nodes \cup {NoNode}], NEW mx,
           IsChain(n, s, nx), NEW last, On(n, s, last), nx[last] = NoNode,
           NEW x \in Nodes, ~On(n, s, x), mx = [nx EXCEPT ![last] = x]
    PROVE  IsChain(n + 1, Grown(n, s, x), mx) /\ last = s[n]
<1>1. /\ n \in Nat \ {0} /\ s \in [1 .. n -> Nodes] /\ s[1] = InitNode
      /\ \A i \in 1 .. n - 1 : nx[s[i]] = s[i + 1]
      /\ nx[s[n]] = NoNode
      /\ \A i, j \in 1 .. n : s[i] = s[j] => i = j
      /\ \A y \in Nodes : nx[y] # NoNode => On(n, s, y)
  BY DEF IsChain
<1> DEFINE r == Grown(n, s, x)
<1>2. /\ r \in [1 .. n + 1 -> Nodes] /\ r[n + 1] = x
      /\ \A i \in 1 .. n : r[i] = s[i]
      /\ \A y : On(n + 1, r, y) <=> (On(n, s, y) \/ y = x)
  <2>1. n \in Nat \ {0} /\ s \in [1 .. n -> Nodes] /\ x \in Nodes
    BY <1>1
  <2> QED BY ONLY <2>1, GrownIs
<1> HIDE DEF r
<1>3. /\ n + 1 \in Nat \ {0} /\ 1 \in 1 .. n /\ n \in 1 .. n
      /\ \A i \in 1 .. (n + 1) - 1 : i \in 1 .. n /\ (i = n \/ i \in 1 .. n - 1)
      /\ \A i \in 1 .. n - 1 : i \in 1 .. n /\ i + 1 \in 1 .. n /\ i # n
      /\ \A i \in 1 .. n : i = n \/ i \in 1 .. n - 1
      /\ \A i \in 1 .. n + 1 : i = n + 1 \/ i \in 1 .. n
  BY <1>1, SMT
<1>4. last = s[n] /\ last \in Nodes
  <2>1. PICK i \in 1 .. n : s[i] = last
    BY DEF On
  <2>2. i \in 1 .. n - 1 => s[i + 1] \in Nodes /\ nx[s[i]] = s[i + 1]
    BY <1>1, <1>3
  <2> QED BY <1>1, <1>3, <2>1, <2>2, NodesAre
<1>5. /\ mx[last] = x /\ \A y \in Nodes : y # last => mx[y] = nx[y]
  BY <1>4, Zenon
<1>6. ASSUME NEW i \in 1 .. (n + 1) - 1 PROVE mx[r[i]] = r[i + 1]
  <2>1. CASE i = n
    BY <2>1, <1>2, <1>3, <1>4, <1>5
  <2>2. CASE i \in 1 .. n - 1
    <3>1. s[i] \in Nodes /\ s[i] # last
      BY <2>2, <1>1, <1>3, <1>4
    <3> QED BY <2>2, <3>1, <1>1, <1>2, <1>3, <1>5
  <2> QED BY <2>1, <2>2, <1>3
<1>7. mx[r[n + 1]] = NoNode
  <2>1. nx[x] = NoNode /\ x # last
    BY <1>1
  <2> QED BY <2>1, <1>2, <1>5
<1>8. \A i, j \in 1 .. n + 1 : r[i] = r[j] => i = j
  <2>1. \A i \in 1 .. n : s[i] # x
    BY DEF On
  <2> QED BY <2>1, <1>1, <1>2, <1>3, Zenon
<1>9. ASSUME NEW y \in Nodes, mx[y] # NoNode PROVE On(n + 1, r, y)
  <2>1. CASE y = last
    BY <2>1, <1>2
  <2>2. CASE y # last
    BY <2>2, <1>1, <1>2, <1>5, <1>9
  <2> QED BY <2>1, <2>2
<1>10. IsChain(n + 1, r, mx)
  BY <1>1, <1>2, <1>3, <1>6, <1>7, <1>8, <1>9 DEF IsChain
<1> QED BY <1>4, <1>10 DEF r

-----------------------------------------------------------------------------
\* The invariant.
Reading == {"e_next", "e_walk", "e_link", "d_next", "d_cas"}

\* What t has read is on the list, and the next node it has seen is still the one
\* behind; so is the node it has linked.
Reads(n, s, t) ==
    /\ loc[t].node = NoNode \/ On(n, s, loc[t].node)
    /\ pc[t] \in Reading => loc[t].node # NoNode
    /\ pc[t] \in {"e_walk", "d_cas"} =>
           loc[t].next # NoNode /\ loc[t].next = next[loc[t].node]
    /\ pc[t] = "e_swing" => On(n, s, NewNode(t))

\* A node is linked by its own call, once.
Fresh(n, s) ==
    \A t \in Threads, j \in Nat : On(n, s, <<t, j>>) =>
        /\ j <= ip[t]
        /\ pc[t] \in EnqLabels \ {"e_swing"} => j # ip[t]

ListState(n, s) ==
    /\ IsChain(n, s, next) /\ On(n, s, head) /\ On(n, s, tail)
    /\ Fresh(n, s)
    /\ \A t \in Threads : Reads(n, s, t)

InOwnCall == InCallOf(EnqLabels, DeqLabels)

IInv == TypeOK /\ InOwnCall /\ \E n, s : ListState(n, s)

\* The locals of a thread.
LocalType == [node : Nodes \cup {NoNode}, next : Nodes \cup {NoNode}]

\* Setting the locals of a thread keeps the types and the locals of the others.
LEMMA LocalsSet ==
    ASSUME TypeOK, NEW t \in Threads
    PROVE  /\ \A l : SetLocal(t, l) =>
                  /\ loc'[t] = l
                  /\ \A u \in Threads \ {t} : loc'[u] = loc[u]
                  /\ l \in LocalType => loc' \in [Threads -> LocalType]
           /\ \A x \in Nodes \cup {NoNode} :
                  /\ [loc[t] EXCEPT !.node = x] \in LocalType
                  /\ [loc[t] EXCEPT !.next = x] \in LocalType
                  /\ [loc[t] EXCEPT !.node = x].node = x
                  /\ [loc[t] EXCEPT !.next = x].next = x
                  /\ [loc[t] EXCEPT !.next = x].node = loc[t].node
           /\ NoLocals \in LocalType /\ NoLocals.node = NoNode
<1>1. loc \in [Threads -> LocalType] /\ loc[t] \in LocalType
  BY DEF TypeOK, LocalType
<1>2. \A l : SetLocal(t, l) =>
          /\ loc'[t] = l
          /\ \A u \in Threads \ {t} : loc'[u] = loc[u]
          /\ l \in LocalType => loc' \in [Threads -> LocalType]
  BY <1>1, Zenon DEF SetLocal
<1>3. NoLocals \in LocalType /\ NoLocals.node = NoNode
  BY DEF NoLocals, LocalType
<1>4. \A x \in Nodes \cup {NoNode} :
          /\ [loc[t] EXCEPT !.node = x] \in LocalType
          /\ [loc[t] EXCEPT !.next = x] \in LocalType
          /\ [loc[t] EXCEPT !.node = x].node = x
          /\ [loc[t] EXCEPT !.next = x].next = x
          /\ [loc[t] EXCEPT !.next = x].node = loc[t].node
  BY <1>1, SMT DEF LocalType
<1> QED BY <1>2, <1>3, <1>4

\* What t holds in its call are nodes: the one it has read, the one behind, and
\* in an enqueue the one it has taken.
LEMMA NodesHeld ==
    ASSUME TypeOK, InOwnCall, NEW n, NEW s, ListState(n, s), NEW t \in Threads
    PROVE  /\ n \in Nat \ {0} /\ s \in [1 .. n -> Nodes]
           /\ \A x : On(n, s, x) => x \in Nodes /\ x # NoNode
           /\ pc[t] \in Reading => On(n, s, loc[t].node) /\ loc[t].node \in Nodes
           /\ pc[t] \in {"e_walk", "d_cas"} =>
                  On(n, s, loc[t].next) /\ loc[t].next \in EnqCalls
           /\ pc[t] \in EnqLabels =>
                  /\ NewNode(t) \in Nodes /\ NewNode(t) # InitNode
                  /\ ip[t] \in Nat /\ Data(NewNode(t)) = Current(t).val
<1>1. /\ n \in Nat \ {0} /\ s \in [1 .. n -> Nodes] /\ s[1] = InitNode /\ next[s[n]] = NoNode
      /\ \A i \in 1 .. n - 1 : next[s[i]] = s[i + 1]
      /\ \A i, j \in 1 .. n : s[i] = s[j] => i = j
  BY DEF ListState, IsChain
<1>2. \A x : On(n, s, x) => x \in Nodes /\ x # NoNode
  BY <1>1, NodesAre DEF On
<1>3. pc[t] \in Reading => On(n, s, loc[t].node) /\ loc[t].node \in Nodes
  BY <1>2 DEF ListState, Reads
<1>4. ASSUME pc[t] \in {"e_walk", "d_cas"}
      PROVE  On(n, s, loc[t].next) /\ loc[t].next \in EnqCalls
  <2>1. On(n, s, loc[t].node) /\ loc[t].next # NoNode /\ loc[t].next = next[loc[t].node]
    BY <1>3, <1>4 DEF ListState, Reads, Reading
  <2>2. PICK i \in 1 .. n : s[i] = loc[t].node
    BY <2>1 DEF On
  <2>3. i # n
    BY <1>1, <2>1, <2>2
  <2>4. i \in 1 .. n - 1 /\ i + 1 \in 1 .. n /\ i + 1 # 1 /\ 1 \in 1 .. n
    BY <1>1, <2>3, SMT
  <2>5. loc[t].next = s[i + 1]
    BY <1>1, <2>1, <2>2, <2>4
  <2>6. s[i + 1] \in Nodes /\ s[i + 1] # InitNode
    BY <1>1, <2>4
  <2> QED BY <2>4, <2>5, <2>6 DEF On, Nodes
<1>5. ASSUME pc[t] \in EnqLabels
      PROVE  /\ NewNode(t) \in Nodes /\ NewNode(t) # InitNode
             /\ ip[t] \in Nat /\ Data(NewNode(t)) = Current(t).val
  <2>1. ip[t] \in 1 .. Len(Script[t]) /\ ip[t] \in Nat
    <3>1. InCall(t)
      BY <1>5, SMT DEF InCall, EnqLabels
    <3>2. Script[t] \in Seq(Calls) /\ Len(Script[t]) \in Nat
      BY ScriptAssumption, SMT
    <3>3. ip[t] \in Nat /\ ip[t] >= 1 /\ ip[t] <= Len(Script[t])
      BY <3>1 DEF TypeOK, ClientTypeOK
    <3> QED BY <3>2, <3>3, SMT
  <2>2. Script[t][ip[t]].kind = "enq"
    BY <1>5 DEF InOwnCall, InCallOf, Current
  <2> QED BY <2>1, <2>2, NodesAre DEF NewNode, Data, Current
<1> QED BY <1>1, <1>2, <1>3, <1>4, <1>5

\* Every label an action names is one of the queue's.
LEMMA LabelsNamed ==
    /\ {"e_tail", "e_next", "e_walk", "e_link", "e_swing",
        "d_head", "d_next", "d_cas"} \subseteq Labels
    /\ "idle" \notin Labels /\ "blocked" \notin Labels
    /\ \A t \in Threads : pc[t] \in Labels => InCall(t)
  BY SMT DEF Labels, EnqLabels, DeqLabels, InCall

\* Every step keeps the types.
LEMMA TypeStep ==
    ASSUME TypeOK, InOwnCall, NEW n, NEW s, ListState(n, s), NEW t \in Threads, Step(t)
    PROVE  TypeOK'
<1>0. /\ ClientTypeOK(Labels) /\ head \in Nodes /\ tail \in Nodes
      /\ next \in [Nodes -> Nodes \cup {NoNode}] /\ loc \in [Threads -> LocalType]
      /\ Ok \in Results /\ Empty \in Results /\ Payloads \subseteq Results
  BY DEF TypeOK, LocalType, Results
<1>1. ASSUME EnqCall(t) \/ DeqCall(t) PROVE TypeOK'
  <2>1. ClientTypeOK(Labels)'
    BY <1>0, <1>1, LabelsNamed, InvokeType DEF EnqCall, DeqCall
  <2> QED BY <1>0, <1>1, <2>1 DEF EnqCall, DeqCall, shared, TypeOK, LocalType
<1>2. ASSUME EnqLoadTail(t) \/ DeqLoadHead(t) PROVE TypeOK'
  <2>1. ClientTypeOK(Labels)'
    BY <1>0, <1>2, LabelsNamed, GotoType DEF EnqLoadTail, DeqLoadHead
  <2>2. loc' \in [Threads -> LocalType]
    BY <1>0, <1>2, LocalsSet DEF EnqLoadTail, DeqLoadHead
  <2> QED BY <1>0, <1>2, <2>1, <2>2 DEF EnqLoadTail, DeqLoadHead, shared, TypeOK, LocalType
<1>3. ASSUME EnqLoadNext(t) PROVE TypeOK'
  <2>1. next[loc[t].node] \in Nodes \cup {NoNode}
    BY <1>0, <1>3, NodesHeld DEF EnqLoadNext, Reading
  <2>2. loc' \in [Threads -> LocalType]
    BY <1>3, <2>1, LocalsSet DEF EnqLoadNext
  <2>3. Goto(t, "e_link") \/ Goto(t, "e_walk")
    BY <1>3, Zenon DEF EnqLoadNext
  <2>4. ClientTypeOK(Labels)'
    BY <1>0, <1>3, <2>3, LabelsNamed, GotoType DEF EnqLoadNext
  <2> QED BY <1>0, <1>3, <2>2, <2>4 DEF EnqLoadNext, shared, TypeOK, LocalType
<1>4. ASSUME EnqWalk(t) PROVE TypeOK'
  <2>1. tail' \in Nodes
    BY <1>4, NodesHeld DEF EnqWalk, Walked
  <2>2. ClientTypeOK(Labels)'
    BY <1>0, <1>4, LabelsNamed, RetryType DEF EnqWalk
  <2> QED BY <1>0, <1>4, <2>1, <2>2 DEF EnqWalk, TypeOK, LocalType
<1>5. ASSUME EnqLink(t) PROVE TypeOK'
  <2>1. pc[t] = "e_link" /\ UNCHANGED <<head, tail>>
    BY <1>5 DEF EnqLink
  <2>2. CASE /\ next' = [next EXCEPT ![loc[t].node] = NewNode(t)]
             /\ Goto(t, "e_swing") /\ UNCHANGED loc
    <3>1. NewNode(t) \in Nodes
      BY <2>1, NodesHeld DEF EnqLabels
    <3>2. next' \in [Nodes -> Nodes \cup {NoNode}]
      BY <1>0, <2>2, <3>1
    <3>3. ClientTypeOK(Labels)'
      BY <1>0, <2>1, <2>2, LabelsNamed, GotoType
    <3> QED BY <1>0, <2>1, <2>2, <3>2, <3>3 DEF TypeOK, LocalType
  <2>3. CASE Finish(t, Ok) /\ UNCHANGED next
    <3>1. ClientTypeOK(Labels)' /\ loc' \in [Threads -> LocalType]
      BY <1>0, <2>3, ReturnType, LocalsSet DEF Finish
    <3> QED BY <1>0, <2>1, <2>3, <3>1 DEF TypeOK, LocalType
  <2> QED BY <1>5, <2>2, <2>3 DEF EnqLink
<1>6. ASSUME EnqSwing(t) PROVE TypeOK'
  <2>1. tail' \in Nodes
    BY <1>6, NodesHeld DEF EnqSwing, Swung, EnqLabels
  <2>2. ClientTypeOK(Labels)' /\ loc' \in [Threads -> LocalType]
    BY <1>0, <1>6, ReturnType, LocalsSet DEF EnqSwing, Finish
  <2> QED BY <1>0, <1>6, <2>1, <2>2 DEF EnqSwing, TypeOK, LocalType
<1>7. ASSUME DeqLoadNext(t) PROVE TypeOK'
  <2>1. pc[t] = "d_next" /\ UNCHANGED shared
    BY <1>7 DEF DeqLoadNext
  <2>2. CASE Finish(t, Empty)
    <3>1. ClientTypeOK(Labels)' /\ loc' \in [Threads -> LocalType]
      BY <1>0, <2>2, ReturnType, LocalsSet DEF Finish
    <3> QED BY <1>0, <2>1, <3>1 DEF TypeOK, LocalType, shared
  <2>3. CASE SetLocal(t, [loc[t] EXCEPT !.next = next[loc[t].node]]) /\ Goto(t, "d_cas")
    <3>1. next[loc[t].node] \in Nodes \cup {NoNode}
      BY <1>0, <2>1, NodesHeld DEF Reading
    <3>2. loc' \in [Threads -> LocalType]
      BY <2>3, <3>1, LocalsSet
    <3>3. ClientTypeOK(Labels)'
      BY <1>0, <2>1, <2>3, LabelsNamed, GotoType
    <3> QED BY <1>0, <2>1, <3>2, <3>3 DEF TypeOK, LocalType, shared
  <2> QED BY <1>7, <2>2, <2>3 DEF DeqLoadNext
<1>8. ASSUME DeqAdvance(t) PROVE TypeOK'
  <2>1. head' \in Nodes
    BY <1>0, <1>8, NodesHeld DEF DeqAdvance, Nodes
  <2>2. Data(Taken(t)) \in Results
    BY <1>0, <1>8, NodesHeld, NodesAre DEF DeqAdvance, Taken
  <2>3. ClientTypeOK(Labels)' /\ loc' \in [Threads -> LocalType]
    <3>1. Finish(t, Data(Taken(t))) \/ Finish(t, Empty)
      BY <1>8 DEF DeqAdvance
    <3> QED BY <1>0, <2>2, <3>1, ReturnType, LocalsSet DEF Finish
  <2> QED BY <1>0, <1>8, <2>1, <2>3 DEF DeqAdvance, TypeOK, LocalType
<1> QED BY <1>1, <1>2, <1>3, <1>4, <1>5, <1>6, <1>7, <1>8 DEF Step

-----------------------------------------------------------------------------
\* t moves to l; the locals of the others are untouched.
Moves(t, l) ==
    /\ pc' = [pc EXCEPT ![t] = l]
    /\ \A u \in Threads \ {t} : loc'[u] = loc[u]

\* What the steps of Clients do to pc and ip.
LEMMA ClientMoves ==
    ASSUME NEW t \in Threads
    PROVE  /\ \A l : Goto(t, l) => pc' = [pc EXCEPT ![t] = l] /\ ip' = ip /\ ret' = ret
           /\ \A l : Retry(t, l) =>
                  ip' = ip /\ ret' = ret /\ \E m \in {l, "blocked"} : pc' = [pc EXCEPT ![t] = m]
           /\ \A r : Return(t, r) => /\ pc' = [pc EXCEPT ![t] = "idle"] /\ ip' = ip
                                    /\ ret' = [ret EXCEPT ![t] = r]
           /\ \A k, l : Invoke(t, k, l) =>
                  /\ pc[t] = "idle" /\ pc' = [pc EXCEPT ![t] = l]
                  /\ ip' = [ip EXCEPT ![t] = ip[t] + 1] /\ ret' = ret
<1>1. \A l : Retry(t, l) =>
          ip' = ip /\ ret' = ret /\ \E m \in {l, "blocked"} : pc' = [pc EXCEPT ![t] = m]
  BY RetryMoves DEF Retry
<1> QED BY <1>1 DEF Goto, Return, Invoke, InCall

\* A step that links no node keeps the list if it leaves its own thread, and the
\* two ends, on it.
LEMMA SameList ==
    ASSUME TypeOK, NEW n, NEW s, ListState(n, s), NEW t \in Threads, NEW l, Moves(t, l),
           next' = next, On(n, s, head'), On(n, s, tail'), Reads(n, s, t)',
           \/ ip' = ip /\ (l \in EnqLabels \ {"e_swing"} => pc[t] \in EnqLabels \ {"e_swing"})
           \/ ip' = [ip EXCEPT ![t] = ip[t] + 1]
    PROVE  ListState(n, s)'
<1>0. /\ pc'[t] = l /\ \A u \in Threads \ {t} : pc'[u] = pc[u] /\ loc'[u] = loc[u]
      /\ \A u \in Threads : ip[u] \in Nat /\ ip'[u] \in Nat
      /\ \A u \in Threads \ {t} : ip'[u] = ip[u]
      /\ ip'[t] = ip[t] \/ ip'[t] = ip[t] + 1
      /\ ip'[t] = ip[t] + 1 \/
             (l \in EnqLabels \ {"e_swing"} => pc[t] \in EnqLabels \ {"e_swing"})
  <2>1. ip \in [Threads -> Nat] /\ \A u \in Threads : ip[u] \in Nat /\ ip[u] + 1 \in Nat
    BY SMT DEF TypeOK, ClientTypeOK
  <2>2. pc'[t] = l /\ \A u \in Threads \ {t} : pc'[u] = pc[u] /\ loc'[u] = loc[u]
    BY Zenon DEF TypeOK, ClientTypeOK, Moves
  <2>3. CASE ip' = ip /\ (l \in EnqLabels \ {"e_swing"} => pc[t] \in EnqLabels \ {"e_swing"})
    BY <2>1, <2>2, <2>3, Zenon
  <2>4. CASE ip' = [ip EXCEPT ![t] = ip[t] + 1]
    BY <2>1, <2>2, <2>4, Zenon
  <2> QED BY <2>3, <2>4
<1>1. IsChain(n, s, next')
  BY DEF ListState
<1>2. ASSUME NEW u \in Threads PROVE Reads(n, s, u)'
  <2>1. CASE u = t
    BY <2>1
  <2>2. CASE u # t
    <3>1. pc'[u] = pc[u] /\ loc'[u] = loc[u] /\ NewNode(u)' = NewNode(u)
      BY <1>0, <2>2 DEF NewNode
    <3>2. Reads(n, s, u)
      BY DEF ListState
    <3> QED BY <3>1, <3>2, Zenon DEF Reads, On
  <2> QED BY <2>1, <2>2
<1>3. Fresh(n, s)'
  <2> SUFFICES ASSUME NEW u \in Threads, NEW j \in Nat, On(n, s, <<u, j>>)
               PROVE  /\ j <= ip'[u]
                      /\ pc'[u] \in EnqLabels \ {"e_swing"} => j # ip'[u]
    BY DEF Fresh, On
  <2>1. j <= ip[u] /\ (pc[u] \in EnqLabels \ {"e_swing"} => j # ip[u])
    BY DEF ListState, Fresh
  <2>2. CASE u # t
    BY <1>0, <2>1, <2>2
  <2>3. CASE u = t /\ ip'[t] = ip[t] + 1
    BY <1>0, <2>1, <2>3, SMT
  <2>4. CASE u = t /\ ip'[t] # ip[t] + 1
    BY <1>0, <2>1, <2>4
  <2> QED BY <2>2, <2>3, <2>4
<1> QED BY <1>1, <1>2, <1>3 DEF ListState, On

\* An enqueue whose compare-and-swap wins has linked its own node behind the last
\* one: the node it has read is the last, however long ago it read it.
LEMMA LinkGrows ==
    ASSUME TypeOK, InOwnCall, NEW n, NEW s, ListState(n, s), NEW t \in Threads,
           pc[t] = "e_link", LinkFree(loc[t].node),
           next' = [next EXCEPT ![loc[t].node] = NewNode(t)],
           Goto(t, "e_swing"), UNCHANGED <<head, tail, loc>>,
           NEW x, x = NewNode(t)
    PROVE  /\ ListState(n + 1, Grown(n, s, x))'
           /\ loc[t].node = s[n]
<1> DEFINE r == Grown(n, s, x)
<1>0. /\ n \in Nat \ {0} /\ s \in [1 .. n -> Nodes]
      /\ x \in Nodes /\ x # InitNode /\ x = <<t, ip[t]>> /\ ip[t] \in Nat
      /\ On(n, s, loc[t].node) /\ loc[t].node \in Nodes /\ next[loc[t].node] = NoNode
      /\ next \in [Nodes -> Nodes \cup {NoNode}]
  BY NodesHeld DEF TypeOK, NewNode, LinkFree, Reading, EnqLabels
<1>1. ~On(n, s, x)
  BY <1>0 DEF ListState, Fresh, EnqLabels
<1>2. IsChain(n + 1, r, next') /\ loc[t].node = s[n]
  <2>1. IsChain(n, s, next) /\ next' = [next EXCEPT ![loc[t].node] = x]
    BY DEF ListState
  <2>2. PICK nx, mx, last : nx = next /\ mx = next' /\ last = loc[t].node
    OBVIOUS
  <2>3. /\ nx \in [Nodes -> Nodes \cup {NoNode}] /\ IsChain(n, s, nx)
        /\ On(n, s, last) /\ nx[last] = NoNode /\ x \in Nodes /\ ~On(n, s, x)
        /\ mx = [nx EXCEPT ![last] = x]
    BY <1>0, <1>1, <2>1, <2>2
  <2>4. IsChain(n + 1, Grown(n, s, x), mx) /\ last = s[n]
    BY ONLY <2>3, ChainGrows
  <2> QED BY <2>2, <2>4
<1>3. \A y : On(n + 1, r, y) <=> (On(n, s, y) \/ y = x)
  BY <1>0, GrownIs
<1>4. /\ pc'[t] = "e_swing" /\ ip' = ip /\ loc' = loc
      /\ \A u \in Threads \ {t} : pc'[u] = pc[u]
      /\ \A u \in Threads : ip[u] \in Nat
  BY SMT DEF TypeOK, ClientTypeOK, Goto
<1>5. ASSUME NEW y \in Nodes, next[y] # NoNode PROVE next'[y] = next[y]
  BY <1>0, <1>5
<1> HIDE DEF r
<1>6. ASSUME NEW u \in Threads PROVE Reads(n + 1, r, u)'
  <2>1. Reads(n, s, u)
    BY DEF ListState
  <2>2. pc'[u] \in Reading => pc[u] \in Reading
    BY <1>4, SMT DEF Reading
  <2>3. pc'[u] \in {"e_walk", "d_cas"} => pc[u] \in {"e_walk", "d_cas"}
    BY <1>4, SMT
  <2>4. pc[u] \in {"e_walk", "d_cas"} => next'[loc[u].node] = next[loc[u].node]
    BY <2>1, <1>5, NodesHeld DEF Reads, Reading
  <2>5. loc'[u].node = NoNode \/ On(n + 1, r, loc'[u].node)
    BY <2>1, <1>3, <1>4 DEF Reads
  <2>6. pc'[u] = "e_swing" => On(n + 1, r, NewNode(u)')
    <3>1. NewNode(u)' = NewNode(u)
      BY <1>4 DEF NewNode
    <3>2. u # t => (pc'[u] = "e_swing" => On(n, s, NewNode(u)))
      BY <2>1, <1>4 DEF Reads
    <3> QED BY <3>1, <3>2, <1>3
  <2> QED BY <2>1, <2>2, <2>3, <2>4, <2>5, <2>6, <1>4, Zenon DEF Reads, On
<1>7. Fresh(n + 1, r)'
  <2> SUFFICES ASSUME NEW u \in Threads, NEW j \in Nat, On(n + 1, r, <<u, j>>)
               PROVE  /\ j <= ip'[u]
                      /\ pc'[u] \in EnqLabels \ {"e_swing"} => j # ip'[u]
    BY DEF Fresh, On
  <2>1. CASE On(n, s, <<u, j>>)
    <3>1. j <= ip[u] /\ (pc[u] \in EnqLabels \ {"e_swing"} => j # ip[u])
      BY <2>1 DEF ListState, Fresh
    <3> QED BY <3>1, <1>4
  <2>2. CASE <<u, j>> = <<t, ip[t]>>
    <3>1. u = t /\ j = ip[t]
      BY <2>2
    <3> QED BY <3>1, <1>0, <1>4, SMT
  <2> QED BY <2>1, <2>2, <1>0, <1>3
<1>8. On(n + 1, r, head) /\ On(n + 1, r, tail)
  BY <1>3 DEF ListState
<1> QED BY <1>2, <1>6, <1>7, <1>8 DEF ListState, On, r

\* Every step leaves a list, and its thread in a call of its kind.
LEMMA ListStep ==
    ASSUME TypeOK, InOwnCall, NEW n, NEW s, ListState(n, s), NEW t \in Threads, Step(t)
    PROVE  InOwnCall' /\ \E m, r : ListState(m, r)'
<1>0. /\ Reads(n, s, t) /\ On(n, s, head) /\ On(n, s, tail)
      /\ ClientTypeOK(Labels) /\ head \in Nodes /\ tail \in Nodes
      /\ pc[t] \in Reading => On(n, s, loc[t].node) /\ loc[t].node \in Nodes
      /\ \A x : On(n, s, x) => x \in Nodes /\ x # NoNode
      /\ next \in [Nodes -> Nodes \cup {NoNode}]
  BY NodesHeld DEF ListState, TypeOK
<1>c. ASSUME NEW l, pc' = [pc EXCEPT ![t] = l], ip' = ip,
             l \in EnqLabels => pc[t] \in EnqLabels, l \in DeqLabels => pc[t] \in DeqLabels
      PROVE  InOwnCall'
  BY <1>0, <1>c, CallGoesOn DEF InOwnCall
<1>m. ASSUME NEW l, pc' = [pc EXCEPT ![t] = l] PROVE pc'[t] = l
  BY <1>0, <1>m, Zenon DEF ClientTypeOK
<1>g. ASSUME NEW l, NEW v, Goto(t, l), SetLocal(t, v)
      PROVE  /\ Moves(t, l) /\ pc' = [pc EXCEPT ![t] = l] /\ ip' = ip /\ pc'[t] = l
             /\ loc'[t] = v
  <2>1. pc' = [pc EXCEPT ![t] = l] /\ ip' = ip
    BY <1>g, ClientMoves
  <2>2. loc'[t] = v /\ \A u \in Threads \ {t} : loc'[u] = loc[u]
    BY <1>g, LocalsSet
  <2> QED BY <2>1, <2>2, <1>m, Zenon DEF Moves
<1>1. ASSUME NEW k, NEW l, (k = "enq" /\ l = "e_tail") \/ (k = "deq" /\ l = "d_head"),
             Invoke(t, k, l), UNCHANGED <<shared, loc>>
      PROVE  InOwnCall' /\ ListState(n, s)'
  <2>1. InOwnCall'
    BY <1>0, <1>1, CallBegins DEF InOwnCall, EnqLabels, DeqLabels
  <2>2. /\ Moves(t, l) /\ pc'[t] = l /\ ip' = [ip EXCEPT ![t] = ip[t] + 1]
        /\ UNCHANGED <<head, tail, next, loc>>
    BY <1>1, <1>m, ClientMoves DEF Moves, shared
  <2>3. Reads(n, s, t)'
    BY <1>0, <1>1, <2>2, SMT DEF Reads, Reading, On
  <2>4. On(n, s, head') /\ On(n, s, tail')
    BY <1>0, <2>2
  <2> QED BY <2>1, <2>2, <2>3, <2>4, SameList
<1>2. CASE EnqCall(t) \/ DeqCall(t)
  <2>1. CASE EnqCall(t)
    <3>1. PICK k, l : /\ k = "enq" /\ l = "e_tail"
                      /\ Invoke(t, k, l) /\ UNCHANGED <<shared, loc>>
      BY <2>1, Zenon DEF EnqCall
    <3>2. InOwnCall' /\ ListState(n, s)'
      BY <3>1, <1>1
    <3> QED BY <3>2
  <2>2. CASE DeqCall(t)
    <3>1. Invoke(t, "deq", "d_head") /\ UNCHANGED <<shared, loc>>
      BY <2>2 DEF DeqCall
    <3>2. InOwnCall' /\ ListState(n, s)'
      BY <3>1, <1>1
    <3> QED BY <3>2
  <2> QED BY <1>2, <2>1, <2>2
<1>3. ASSUME NEW l, NEW x \in {head, tail},
             (l = "e_next" /\ pc[t] = "e_tail") \/ (l = "d_next" /\ pc[t] = "d_head"),
             Goto(t, l), SetLocal(t, [loc[t] EXCEPT !.node = x]), UNCHANGED shared
      PROVE  InOwnCall' /\ ListState(n, s)'
  <2>1. /\ Moves(t, l) /\ pc' = [pc EXCEPT ![t] = l] /\ ip' = ip /\ pc'[t] = l
        /\ loc'[t] = [loc[t] EXCEPT !.node = x]
    BY <1>3, <1>g
  <2>2. UNCHANGED <<head, tail, next>>
    BY <1>3 DEF shared
  <2>3. x \in Nodes \cup {NoNode} /\ On(n, s, x) /\ x # NoNode
    BY <1>0
  <2>4. loc'[t].node = x
    <3>1. [loc[t] EXCEPT !.node = x].node = x
      BY <2>3, LocalsSet
    <3> QED BY <2>1, <3>1, Zenon
  <2>5. /\ l \in EnqLabels => pc[t] \in EnqLabels
        /\ l \in DeqLabels => pc[t] \in DeqLabels
        /\ l \in EnqLabels \ {"e_swing"} => pc[t] \in EnqLabels \ {"e_swing"}
        /\ l \in Reading /\ l \notin {"e_walk", "d_cas"} /\ l # "e_swing"
    BY <1>3, SMT DEF EnqLabels, DeqLabels, Reading
  <2>6. InOwnCall'
    BY <2>1, <2>5, <1>c
  <2>7. Reads(n, s, t)'
    BY <2>1, <2>3, <2>4, <2>5, Zenon DEF Reads, On
  <2>8. On(n, s, head') /\ On(n, s, tail')
    BY <1>0, <2>2
  <2> QED BY <2>1, <2>2, <2>5, <2>6, <2>7, <2>8, SameList
<1>4. CASE EnqLoadTail(t)
  <2>1. PICK l, x : /\ l = "e_next" /\ pc[t] = "e_tail" /\ x = tail /\ UNCHANGED shared
                    /\ Goto(t, l) /\ SetLocal(t, [loc[t] EXCEPT !.node = x])
    BY <1>4, Zenon DEF EnqLoadTail
  <2>2. InOwnCall' /\ ListState(n, s)'
    BY <1>3, <2>1
  <2> QED BY <2>2
<1>5. CASE DeqLoadHead(t)
  <2>1. InOwnCall' /\ ListState(n, s)'
    BY <1>3, <1>5 DEF DeqLoadHead
  <2> QED BY <2>1
<1>n. ASSUME NEW l, \/ pc[t] = "e_next" /\ l \in {"e_link", "e_walk"}
                    \/ pc[t] = "d_next" /\ l = "d_cas",
             l \in {"e_walk", "d_cas"} => next[loc[t].node] # NoNode,
             Goto(t, l), SetLocal(t, [loc[t] EXCEPT !.next = next[loc[t].node]]),
             UNCHANGED shared
      PROVE  InOwnCall' /\ ListState(n, s)'
  <2>1. /\ Moves(t, l) /\ pc' = [pc EXCEPT ![t] = l] /\ ip' = ip /\ pc'[t] = l
        /\ loc'[t] = [loc[t] EXCEPT !.next = next[loc[t].node]]
    BY <1>n, <1>g
  <2>2. UNCHANGED <<head, tail, next>>
    BY <1>n DEF shared
  <2>3. /\ l \in EnqLabels => pc[t] \in EnqLabels
        /\ l \in DeqLabels => pc[t] \in DeqLabels
        /\ l \in EnqLabels \ {"e_swing"} => pc[t] \in EnqLabels \ {"e_swing"}
        /\ pc[t] \in Reading /\ l # "e_swing"
    BY <1>n, SMT DEF EnqLabels, DeqLabels, Reading
  <2>4. On(n, s, loc[t].node) /\ loc[t].node \in Nodes /\ loc[t].node # NoNode
    BY <1>0, <2>3
  <2>5. next[loc[t].node] \in Nodes \cup {NoNode}
    BY <1>0, <2>4
  <2>6. loc'[t].node = loc[t].node /\ loc'[t].next = next[loc[t].node]
    <3>1. PICK v : v = [loc[t] EXCEPT !.next = next[loc[t].node]]
      OBVIOUS
    <3>2. v.node = loc[t].node /\ v.next = next[loc[t].node]
      BY <2>5, <3>1, LocalsSet
    <3> QED BY <2>1, <3>1, <3>2
  <2>7. InOwnCall'
    BY <2>1, <2>3, <1>c
  <2>8. Reads(n, s, t)'
    <3>1. loc'[t].next = next'[loc'[t].node]
      BY <2>2, <2>6
    <3>2. On(n, s, loc'[t].node) /\ loc'[t].node # NoNode
      BY <2>4, <2>6
    <3>3. l \in {"e_walk", "d_cas"} => loc'[t].next # NoNode
      BY <1>n, <2>6
    <3> QED BY <3>1, <3>2, <3>3, <2>1, <2>3, Zenon DEF Reads, On
  <2>9. On(n, s, head') /\ On(n, s, tail')
    BY <1>0, <2>2
  <2> QED BY <2>1, <2>2, <2>3, <2>7, <2>8, <2>9, SameList
<1>6. CASE EnqLoadNext(t)
  <2>1. /\ pc[t] = "e_next" /\ UNCHANGED shared
        /\ SetLocal(t, [loc[t] EXCEPT !.next = next[loc[t].node]])
        /\ Goto(t, IF next[loc[t].node] = NoNode THEN "e_link" ELSE "e_walk")
    BY <1>6 DEF EnqLoadNext
  <2>2. CASE next[loc[t].node] = NoNode
    <3>1. PICK l : l \in {"e_link", "e_walk"} /\ l \notin {"e_walk", "d_cas"} /\ Goto(t, l)
      BY <2>1, <2>2, Zenon
    <3>2. InOwnCall' /\ ListState(n, s)'
      BY <2>1, <3>1, <1>n
    <3> QED BY <3>2
  <2>3. CASE next[loc[t].node] # NoNode
    <3>1. PICK l : l \in {"e_link", "e_walk"} /\ Goto(t, l)
      BY <2>1, <2>3, Zenon
    <3>2. InOwnCall' /\ ListState(n, s)'
      BY <2>1, <2>3, <3>1, <1>n
    <3> QED BY <3>2
  <2> QED BY <2>2, <2>3
<1>7. CASE EnqWalk(t)
  <2>0. /\ pc[t] = "e_walk" /\ tail' = loc[t].next /\ Retry(t, "e_tail")
        /\ UNCHANGED <<head, next, loc>>
    BY <1>7 DEF EnqWalk, Walked
  <2>1. PICK l \in {"e_tail", "blocked"} : pc' = [pc EXCEPT ![t] = l] /\ ip' = ip
    BY <2>0, ClientMoves
  <2>2. Moves(t, l) /\ pc'[t] = l
    BY <2>0, <2>1, <1>m DEF Moves
  <2>3. /\ l \in EnqLabels => pc[t] \in EnqLabels
        /\ l \in DeqLabels => pc[t] \in DeqLabels
        /\ l \in EnqLabels \ {"e_swing"} => pc[t] \in EnqLabels \ {"e_swing"}
        /\ l \notin Reading /\ l # "e_swing" /\ l \notin {"e_walk", "d_cas"}
    BY <2>0, <2>1, SMT DEF EnqLabels, DeqLabels, Reading
  <2>4. InOwnCall'
    BY <2>1, <2>3, <1>c
  <2>5. On(n, s, tail') /\ On(n, s, head')
    BY <1>0, <2>0, NodesHeld
  <2>6. Reads(n, s, t)'
    BY <1>0, <2>0, <2>2, <2>3, Zenon DEF Reads, On
  <2> QED BY <2>0, <2>1, <2>2, <2>3, <2>4, <2>5, <2>6, SameList
<1>f. ASSUME NEW r, Finish(t, r), next' = next, On(n, s, head'), On(n, s, tail')
      PROVE  InOwnCall' /\ ListState(n, s)'
  <2>1. /\ pc' = [pc EXCEPT ![t] = "idle"] /\ ip' = ip /\ Moves(t, "idle")
        /\ pc'[t] = "idle" /\ loc'[t].node = NoNode
    BY <1>f, <1>m, ClientMoves, LocalsSet DEF Finish, Moves
  <2>2. "idle" \notin EnqLabels /\ "idle" \notin DeqLabels
    BY SMT DEF EnqLabels, DeqLabels
  <2>3. Reads(n, s, t)'
    BY <2>1, SMT DEF Reads, Reading, On
  <2>4. InOwnCall'
    BY <2>1, <2>2, <1>c
  <2> QED BY <1>f, <2>1, <2>2, <2>3, <2>4, SameList
<1>8. CASE EnqLink(t)
  <2>1. pc[t] = "e_link" /\ UNCHANGED <<head, tail>>
    BY <1>8 DEF EnqLink
  <2>2. CASE /\ LinkFree(loc[t].node)
             /\ next' = [next EXCEPT ![loc[t].node] = NewNode(t)]
             /\ Goto(t, "e_swing") /\ UNCHANGED loc
    <3>1. PICK x : x = NewNode(t)
      OBVIOUS
    <3>2. ListState(n + 1, Grown(n, s, x))'
      BY <2>1, <2>2, <3>1, LinkGrows
    <3>3. pc' = [pc EXCEPT ![t] = "e_swing"] /\ ip' = ip
      BY <2>2, ClientMoves
    <3>4. "e_link" \in EnqLabels /\ "e_swing" \notin DeqLabels
      BY SMT DEF EnqLabels, DeqLabels
    <3>5. InOwnCall'
      BY <2>1, <3>3, <3>4, <1>c
    <3> QED BY <3>2, <3>5
  <2>3. CASE Finish(t, Ok) /\ UNCHANGED next
    BY <1>0, <1>f, <2>1, <2>3
  <2> QED BY <1>8, <2>2, <2>3 DEF EnqLink
<1>9. CASE EnqSwing(t)
  <2>1. On(n, s, tail') /\ On(n, s, head')
    BY <1>0, <1>9 DEF EnqSwing, Swung, Reads
  <2> QED BY <1>9, <1>f, <2>1 DEF EnqSwing
<1>10. CASE DeqLoadNext(t)
  <2>1. pc[t] = "d_next" /\ UNCHANGED shared /\ UNCHANGED <<head, tail, next>>
    BY <1>10 DEF DeqLoadNext, shared
  <2>2. CASE Finish(t, Empty)
    BY <1>0, <1>f, <2>1, <2>2
  <2>3. CASE /\ next[loc[t].node] # NoNode
             /\ SetLocal(t, [loc[t] EXCEPT !.next = next[loc[t].node]]) /\ Goto(t, "d_cas")
    BY <2>1, <2>3, <1>n
  <2> QED BY <1>10, <2>2, <2>3 DEF DeqLoadNext
<1>11. CASE DeqAdvance(t)
  <2>1. On(n, s, head') /\ On(n, s, tail')
    BY <1>0, <1>11, NodesHeld DEF DeqAdvance
  <2> QED BY <1>11, <1>f, <2>1 DEF DeqAdvance
<1> QED BY <1>2, <1>4, <1>5, <1>6, <1>7, <1>8, <1>9, <1>10, <1>11 DEF Step

\* The invariant holds initially: the list is the first dummy.
LEMMA InitInv == Init => IInv
<1> SUFFICES ASSUME Init PROVE IInv
  OBVIOUS
<1>1. TypeOK
  <2>1. ClientTypeOK(Labels)
    BY InitType DEF Init
  <2>2. NoLocals \in LocalType
    BY DEF NoLocals, LocalType
  <2>3. loc \in [Threads -> LocalType] /\ next \in [Nodes -> Nodes \cup {NoNode}]
    BY <2>2, SMT DEF Init
  <2> QED BY <2>1, <2>3, NodesAre DEF Init, TypeOK, LocalType
<1>2. ASSUME NEW t \in Threads PROVE pc[t] = "idle" /\ loc[t].node = NoNode
  BY SMT DEF Init, ClientInit, NoLocals
<1>3. InOwnCall
  BY <1>2, SMT DEF InOwnCall, InCallOf, EnqLabels, DeqLabels
<1> DEFINE s == [i \in 1 .. 1 |-> InitNode]
<1>4. /\ s \in [1 .. 1 -> Nodes] /\ s[1] = InitNode /\ 1 \in 1 .. 1 /\ 1 .. 1 - 1 = {}
      /\ 1 \in Nat \ {0} /\ \A i \in 1 .. 1 : i = 1
  BY NodesAre, SMT
<1> HIDE DEF s
<1>5. \A x : On(1, s, x) <=> x = InitNode
  BY <1>4 DEF On
<1>6. \A x \in Nodes : next[x] = NoNode
  BY DEF Init
<1>7. IsChain(1, s, next)
  BY <1>4, <1>6, NodesAre DEF IsChain
<1>8. Fresh(1, s)
  <2>1. ASSUME NEW t \in Threads, NEW j \in Nat, On(1, s, <<t, j>>)
        PROVE  j <= ip[t] /\ pc[t] \notin EnqLabels
    <3>1. j = 0 /\ ip[t] = 0
      BY <1>5, <2>1 DEF InitNode, Init, ClientInit
    <3>2. pc[t] \notin EnqLabels
      BY <1>2, SMT DEF EnqLabels
    <3> QED BY <3>1, <3>2, SMT
  <2> QED BY <2>1 DEF Fresh
<1>9. ASSUME NEW t \in Threads PROVE Reads(1, s, t)
  BY <1>2, SMT DEF Reads, Reading
<1>10. ListState(1, s)
  BY <1>5, <1>7, <1>8, <1>9 DEF ListState, Init
<1> QED BY <1>1, <1>3, <1>10 DEF IInv

\* Every step keeps the invariant.
LEMMA NextInv == IInv /\ [Next]_vars => IInv'
<1> SUFFICES ASSUME IInv, [Next]_vars PROVE IInv'
  OBVIOUS
<1>0. TypeOK /\ InOwnCall
  BY DEF IInv
<1>1. PICK n, s : ListState(n, s)
  BY DEF IInv
<1>2. CASE UNCHANGED vars
  <2>1. TypeOK' /\ InOwnCall'
    BY <1>0, <1>2 DEF TypeOK, ClientTypeOK, InCall, InOwnCall, InCallOf, Current, vars
  <2>2. ListState(n, s)'
    BY <1>1, <1>2 DEF ListState, IsChain, Fresh, Reads, On, NewNode, vars
  <2> QED BY <2>1, <2>2 DEF IInv
<1>3. ASSUME NEW t \in Threads, Step(t) PROVE IInv'
  BY <1>0, <1>1, <1>3, TypeStep, ListStep DEF IInv
<1> QED BY <1>2, <1>3 DEF Next, Terminating

\* The invariant holds in every reachable state.
THEOREM Invariant == Spec => []IInv
  BY InitInv, NextInv, PTL DEF Spec

-----------------------------------------------------------------------------
\* What a walk along the list meets.

\* From the h-th node on, it meets the nodes of s one after the other.
LEMMA WalkIs ==
    ASSUME NEW n, NEW s, NEW nx, IsChain(n, s, nx), NEW h \in 1 .. n
    PROVE  LET N == Cardinality(Nodes) IN
           /\ N \in Nat /\ n <= N
           /\ \A i \in 0 .. N :
                  Walk(s[h], nx)[i] = IF h + i <= n THEN s[h + i] ELSE NoNode
<1> DEFINE N == Cardinality(Nodes)
           F(f) == [i \in 0 .. N |-> IF i = 0 THEN s[h] ELSE Successor(f[i - 1], nx)]
           g == [i \in 0 .. N |-> IF h + i <= n THEN s[h + i] ELSE NoNode]
<1>0. /\ n \in Nat \ {0} /\ s \in [1 .. n -> Nodes]
      /\ \A i \in 1 .. n - 1 : nx[s[i]] = s[i + 1]
      /\ nx[s[n]] = NoNode
      /\ \A i, j \in 1 .. n : s[i] = s[j] => i = j
      /\ \A i \in 1 .. n : s[i] # NoNode
  BY NodesAre DEF IsChain
<1>1. N \in Nat /\ n <= N
  <2>1. IsFiniteSet(1 .. n) /\ Cardinality(1 .. n) = n
    <3>1. 1 \in Int /\ n \in Int /\ n - 1 + 1 = n /\ ~(1 > n)
      BY <1>0, SMT
    <3>2. /\ IsFiniteSet(1 .. n)
          /\ Cardinality(1 .. n) = IF 1 > n THEN 0 ELSE n - 1 + 1
      BY <3>1, FS_Interval, Zenon
    <3> QED BY <3>1, <3>2
  <2>2. s \in Injection(1 .. n, Nodes)
    BY <1>0 DEF Injection, IsInjective
  <2>3. Cardinality(1 .. n) <= Cardinality(Nodes)
    BY <2>1, <2>2, NodesFinite, FS_Injection
  <2>4. N \in Nat
    BY NodesFinite, FS_CardinalityType
  <2> QED BY <2>1, <2>3, <2>4
<1> HIDE DEF N
<1>2. g = F(g)
  <2>1. ASSUME NEW i \in 0 .. N
        PROVE  g[i] = IF i = 0 THEN s[h] ELSE Successor(g[i - 1], nx)
    <3>1. CASE i = 0
      <4>1. h + i <= n /\ h + i = h
        BY <1>0, <3>1, SMT
      <4> QED BY <3>1, <4>1
    <3>2. CASE i # 0 /\ h + i <= n
      <4>1. /\ i - 1 \in 0 .. N /\ h + (i - 1) <= n /\ h + (i - 1) \in 1 .. n - 1
            /\ (h + (i - 1)) + 1 = h + i /\ h + (i - 1) \in 1 .. n
        BY <1>0, <1>1, <3>2, SMT
      <4>2. g[i - 1] = s[h + (i - 1)] /\ g[i] = s[h + i]
        BY <3>2, <4>1
      <4> QED BY <1>0, <3>2, <4>1, <4>2 DEF Successor
    <3>3. CASE h + i = n + 1
      <4>1. i - 1 \in 0 .. N /\ h + (i - 1) <= n /\ h + (i - 1) = n /\ i # 0 /\ ~(h + i <= n)
        BY <1>0, <1>1, <3>3, SMT
      <4>2. g[i - 1] = s[n] /\ g[i] = NoNode
        BY <4>1
      <4> QED BY <1>0, <4>1, <4>2 DEF Successor
    <3>4. CASE h + i > n + 1
      <4>1. i - 1 \in 0 .. N /\ ~(h + (i - 1) <= n) /\ i # 0 /\ ~(h + i <= n)
        BY <1>0, <1>1, <3>4, SMT
      <4>2. g[i - 1] = NoNode /\ g[i] = NoNode
        BY <4>1
      <4> QED BY <4>1, <4>2 DEF Successor
    <3>5. h + i <= n \/ h + i = n + 1 \/ h + i > n + 1
      BY <1>0, SMT
    <3> QED BY <3>1, <3>2, <3>3, <3>4, <3>5
  <2>2. g = [i \in 0 .. N |-> g[i]]
    OBVIOUS
  <2> HIDE DEF g
  <2> QED BY <2>1, <2>2, Zenon
<1> HIDE DEF g
<1>3. \E f : f = F(f)
  BY <1>2
<1>4. Walk(s[h], nx) = CHOOSE f : f = F(f)
  BY DEF Walk, N
<1>5. Walk(s[h], nx) = F(Walk(s[h], nx))
  BY <1>3, <1>4, Zenon
<1>6. PICK f : f = Walk(s[h], nx)
  OBVIOUS
<1>7. \A i \in 0 .. N : f[i] = IF i = 0 THEN s[h] ELSE Successor(f[i - 1], nx)
  BY <1>5, <1>6, Zenon
<1>8. \A i \in 0 .. N : g[i] = IF i = 0 THEN s[h] ELSE Successor(g[i - 1], nx)
  BY <1>2, Zenon
<1>9. \A i \in 0 .. N : f[i] = g[i]
  <2> DEFINE D == {i \in 0 .. N : f[i] # g[i]}
  <2> SUFFICES ASSUME D # {} PROVE FALSE
    OBVIOUS
  <2>1. D \subseteq Nat
    BY SMT
  <2>2. PICK i \in D : \A j \in D : i <= j
    BY <2>1, LeastNumber
  <2>3. i \in 0 .. N /\ f[i] # g[i]
    BY <2>2
  <2>4. i # 0
    BY <1>7, <1>8, <2>3
  <2>5. i - 1 \in 0 .. N /\ ~(i <= i - 1)
    BY <1>1, <2>3, <2>4, SMT
  <2>6. f[i - 1] = g[i - 1]
    BY <2>2, <2>5
  <2> QED BY <1>7, <1>8, <2>3, <2>4, <2>6
<1>10. \A i \in 0 .. N : Walk(s[h], nx)[i] = IF h + i <= n THEN s[h + i] ELSE NoNode
  BY <1>6, <1>9 DEF g
<1> QED BY <1>1, <1>10 DEF N

\* The nodes behind the h-th are those after it in s.
LEMMA BehindIs ==
    ASSUME NEW n, NEW s, NEW nx, IsChain(n, s, nx), NEW h \in 1 .. n
    PROVE  Behind(s[h], nx) = [i \in 1 .. n - h |-> s[h + i]]
<1> DEFINE N == Cardinality(Nodes)
           J == {j \in 1 .. N : Walk(s[h], nx)[j] # NoNode}
<1>0. n \in Nat \ {0} /\ s \in [1 .. n -> Nodes]
  BY DEF IsChain
<1>1. /\ N \in Nat /\ n <= N
      /\ \A i \in 0 .. N : Walk(s[h], nx)[i] = IF h + i <= n THEN s[h + i] ELSE NoNode
  BY WalkIs
<1> HIDE DEF N
<1>2. /\ \A i \in 1 .. N : i \in 0 .. N /\ (h + i <= n <=> i \in 1 .. n - h)
      /\ \A i \in 1 .. n - h : i \in 1 .. N /\ h + i \in 1 .. n
      /\ n - h \in Nat
  BY <1>0, <1>1, SMT
<1>3. \A i \in 1 .. n - h : Walk(s[h], nx)[i] = s[h + i] /\ s[h + i] # NoNode
  BY <1>0, <1>1, <1>2, NodesAre
<1>4. \A i \in 1 .. N : Walk(s[h], nx)[i] # NoNode <=> i \in 1 .. n - h
  BY <1>1, <1>2, <1>3
<1>5. J = 1 .. n - h
  BY <1>2, <1>4
<1>6. Cardinality(1 .. n - h) = n - h
  <2>1. 1 \in Int /\ n - h \in Int /\ (n - h) - 1 + 1 = n - h /\ (1 > n - h <=> n - h = 0)
    BY <1>2, SMT
  <2>2. Cardinality(1 .. n - h) = IF 1 > n - h THEN 0 ELSE (n - h) - 1 + 1
    BY <2>1, FS_Interval, Zenon
  <2> QED BY <2>1, <2>2
<1>7. Behind(s[h], nx) = [i \in 1 .. n - h |-> Walk(s[h], nx)[i]]
  BY <1>5, <1>6, Zenon DEF Behind, N
<1> QED BY <1>3, <1>7, Zenon

\* The list is one list, with all that anybody holds on it.
LEMMA ListIsOne == IInv => ListInv
<1> SUFFICES ASSUME IInv PROVE OneList
  BY DEF ListInv, IInv
<1>1. PICK n, s : ListState(n, s)
  BY DEF IInv
<1>2. /\ IsChain(n, s, next) /\ n \in Nat \ {0} /\ s \in [1 .. n -> Nodes]
      /\ s[1] = InitNode /\ \A i, j \in 1 .. n : s[i] = s[j] => i = j
  BY <1>1 DEF ListState, IsChain
<1>3. /\ 1 \in 1 .. n /\ n - 1 \in Nat
      /\ \A i \in 1 .. n - 1 : i + 1 \in 1 .. n /\ 1 + i = i + 1
      /\ \A i \in 1 .. n : i = 1 \/ (i - 1 \in 1 .. n - 1 /\ (i - 1) + 1 = i)
  BY <1>2, SMT
<1>4. AllLinked = [i \in 1 .. n - 1 |-> s[1 + i]]
  <2>1. PICK nx : nx = next
    OBVIOUS
  <2>2. IsChain(n, s, nx) /\ 1 \in 1 .. n
    BY <1>2, <1>3, <2>1
  <2>3. Behind(s[1], nx) = [i \in 1 .. n - 1 |-> s[1 + i]]
    BY ONLY <2>2, BehindIs
  <2> QED BY <1>2, <2>1, <2>3 DEF AllLinked
<1>5. Len(AllLinked) = n - 1 /\ DOMAIN AllLinked = 1 .. n - 1
  BY <1>3, <1>4, SMT
<1>6. \A x : x \in InList <=> On(n, s, x)
  <2>1. ASSUME NEW x \in InList PROVE On(n, s, x)
    <3>1. CASE x = InitNode
      BY <1>2, <1>3, <3>1 DEF On
    <3>2. CASE x # InitNode
      <4>1. PICK i \in 1 .. n - 1 : x = AllLinked[i]
        BY <1>5, <3>2, <2>1 DEF InList
      <4>2. x = s[i + 1] /\ i + 1 \in 1 .. n
        BY <1>3, <1>4, <4>1
      <4> QED BY <4>2 DEF On
    <3> QED BY <3>1, <3>2
  <2>2. ASSUME NEW i \in 1 .. n PROVE s[i] \in InList
    <3>1. CASE i = 1
      BY <1>2, <3>1 DEF InList
    <3>2. CASE i # 1
      <4>1. i - 1 \in 1 .. n - 1 /\ 1 + (i - 1) = i
        BY <1>3, <3>2
      <4>2. AllLinked[i - 1] = s[i]
        BY <1>4, <4>1
      <4> QED BY <1>5, <4>1, <4>2 DEF InList
    <3> QED BY <3>1, <3>2
  <2> QED BY <2>1, <2>2 DEF On
<1>7. Cardinality(InList) = n
  <2>1. s \in Bijection(1 .. n, InList)
    <3>1. \A i \in 1 .. n : s[i] \in InList
      BY <1>6 DEF On
    <3>2. \A x \in InList : \E i \in 1 .. n : s[i] = x
      BY <1>6 DEF On
    <3>3. s \in [1 .. n -> InList]
      BY <1>2, <3>1, Zenon
    <3>4. s \in Injection(1 .. n, InList)
      BY <1>2, <3>3, Zenon DEF Injection, IsInjective
    <3>5. s \in Surjection(1 .. n, InList)
      BY <3>2, <3>3, Zenon DEF Surjection
    <3> QED BY <3>4, <3>5, Zenon DEF Bijection
  <2>2. IsFiniteSet(1 .. n) /\ Cardinality(1 .. n) = n
    <3>1. 1 \in Int /\ n \in Int /\ n - 1 + 1 = n /\ ~(1 > n)
      BY <1>2, SMT
    <3>2. /\ IsFiniteSet(1 .. n)
          /\ Cardinality(1 .. n) = IF 1 > n THEN 0 ELSE n - 1 + 1
      BY <3>1, FS_Interval, Zenon
    <3> QED BY <3>1, <3>2
  <2>3. ExistsBijection(1 .. n, InList)
    BY <2>1 DEF ExistsBijection
  <2> QED BY <2>2, <2>3, FS_Bijection
<1>8. /\ \A x \in Nodes : next[x] # NoNode => x \in InList
      /\ {head, tail} \subseteq InList
      /\ \A t \in Threads : loc[t].node \in InList \cup {NoNode}
  BY <1>1, <1>6 DEF ListState, IsChain, Reads
<1>9. Len(AllLinked) = Cardinality(InList) - 1
  BY <1>5, <1>7
<1> QED BY <1>8, <1>9 DEF OneList

\* What was ever linked is one list without a cycle, and head, tail and all that
\* the threads hold stay on it, although a slow thread may take tail back.
THEOREM ListCorrect == Spec => []ListInv
  BY Invariant, ListIsOne, PTL

-----------------------------------------------------------------------------
\* The list as a queue: the items behind head.
LEMMA QueueItems ==
    ASSUME NEW n, NEW s, NEW nx, IsChain(n, s, nx), NEW h \in 1 .. n,
           NEW q, q = [i \in DOMAIN Behind(s[h], nx) |-> Data(Behind(s[h], nx)[i])]
    PROVE  /\ n - h \in Nat
           /\ HasPlaces(q, n - h) /\ \A i \in 1 .. n - h : q[i] = Data(s[h + i])
<1>1. Behind(s[h], nx) = [i \in 1 .. n - h |-> s[h + i]]
  BY BehindIs
<1>2. /\ DOMAIN Behind(s[h], nx) = 1 .. n - h
      /\ \A i \in 1 .. n - h : Behind(s[h], nx)[i] = s[h + i]
  BY <1>1, Zenon
<1>3. q = [i \in 1 .. n - h |-> Data(Behind(s[h], nx)[i])]
  BY <1>2, Zenon
<1>4. \A i \in 1 .. n - h : q[i] = Data(s[h + i])
  BY <1>2, <1>3, Zenon
<1>5. HasPlaces(q, n - h)
  BY <1>3, Zenon DEF HasPlaces
<1>6. n - h \in Nat
  BY SMT DEF IsChain
<1> QED BY <1>4, <1>5, <1>6

\* The queue now, by the nodes of the list.
LEMMA QueueNow ==
    ASSUME NEW n, NEW s, ListState(n, s)
    PROVE  \E h \in 1 .. n : /\ s[h] = head /\ n - h \in Nat
                             /\ HasPlaces(Queue, n - h)
                             /\ \A i \in 1 .. n - h : Queue[i] = Data(s[h + i])
<1>1. PICK h \in 1 .. n : s[h] = head
  BY DEF ListState, On
<1>2. PICK nx, q : nx = next /\ q = Queue
  OBVIOUS
<1>3. /\ IsChain(n, s, nx) /\ h \in 1 .. n
      /\ q = [i \in DOMAIN Behind(s[h], nx) |-> Data(Behind(s[h], nx)[i])]
  BY <1>1, <1>2 DEF Queue, ListState
<1>4. /\ n - h \in Nat
      /\ HasPlaces(q, n - h) /\ \A i \in 1 .. n - h : q[i] = Data(s[h + i])
  BY ONLY <1>3, QueueItems
<1> QED BY <1>1, <1>2, <1>4

\* The stage of a call at l.
StageAt(l) == IF l = "e_swing" THEN "done" ELSE IF l = "idle" THEN "idle" ELSE "called"

\* Where a step takes its thread, and what it returns, decide the stage of its call
\* and its result.
LEMMA StageStep ==
    ASSUME TypeOK, NEW t \in Threads, NEW l, pc' = [pc EXCEPT ![t] = l],
           NEW r, ret' = [ret EXCEPT ![t] = r]
    PROVE  /\ Stage[t] = StageAt(pc[t]) /\ Stage' = [Stage EXCEPT ![t] = StageAt(l)]
           /\ Res[t] = IF pc[t] = "e_swing" THEN Ok ELSE ret[t]
           /\ Res' = [Res EXCEPT ![t] = IF l = "e_swing" THEN Ok ELSE r]
<1>1. pc \in [Threads -> Labels \cup {"idle", "blocked", "assert"}]
      /\ ret \in [Threads -> Results]
  BY DEF TypeOK, ClientTypeOK
<1>2. /\ pc'[t] = l /\ ret'[t] = r
      /\ \A u \in Threads \ {t} : pc'[u] = pc[u] /\ ret'[u] = ret[u]
  BY <1>1, Zenon
<1>3. \A u \in Threads : Stage[u] = StageAt(pc[u]) /\ Stage'[u] = StageAt(pc'[u])
  <2>1. \A l1 : (CASE l1 = "e_swing" -> "done" [] l1 = "idle" -> "idle"
                    [] OTHER -> "called") = StageAt(l1)
    BY SMT DEF StageAt
  <2> QED BY <2>1 DEF Stage
<1>4. \A u \in Threads : /\ Res[u] = IF pc[u] = "e_swing" THEN Ok ELSE ret[u]
                         /\ Res'[u] = IF pc'[u] = "e_swing" THEN Ok ELSE ret'[u]
  BY SMT DEF Res
<1>5. /\ MapOn(Stage, Threads) /\ MapOn(Stage', Threads)
      /\ MapOn(Res, Threads) /\ MapOn(Res', Threads)
  <2>1. MapOn(Stage, Threads) /\ MapOn(Stage', Threads)
    BY SMT DEF Stage, MapOn
  <2>2. MapOn(Res, Threads) /\ MapOn(Res', Threads)
    BY SMT DEF Res, MapOn
  <2> QED BY <2>1, <2>2
<1>6. ASSUME NEW u \in Threads \ {t} PROVE Stage'[u] = Stage[u] /\ Res'[u] = Res[u]
  <2>1. pc'[u] = pc[u] /\ ret'[u] = ret[u]
    BY <1>2
  <2>2. Stage'[u] = Stage[u]
    BY <1>3, <2>1
  <2>3. Res'[u] = Res[u]
    BY <1>4, <2>1
  <2> QED BY <2>2, <2>3
<1>7. Stage' = [Stage EXCEPT ![t] = Stage'[t]] /\ Res' = [Res EXCEPT ![t] = Res'[t]]
  BY <1>5, <1>6, ChangedAt
<1>8. Stage'[t] = StageAt(l) /\ Res'[t] = IF l = "e_swing" THEN Ok ELSE r
  BY <1>2, <1>3, <1>4, Zenon
<1> QED BY <1>3, <1>4, <1>7, <1>8

\* A step that leaves ret alone.
LEMMA SameRet ==
    ASSUME TypeOK, NEW t \in Threads, ret' = ret
    PROVE  ret' = [ret EXCEPT ![t] = ret[t]]
  BY Zenon DEF TypeOK, ClientTypeOK

\* A step that leaves the queue alone and goes on inside a call that has not taken
\* effect is none of the abstract queue.
LEMMA Stutters ==
    ASSUME TypeOK, NEW t \in Threads, pc[t] # "idle", pc[t] # "e_swing",
           NEW l, l # "idle", l # "e_swing",
           pc' = [pc EXCEPT ![t] = l], ip' = ip, ret' = ret, UNCHANGED <<head, next>>
    PROVE  UNCHANGED Abs!vars
<1>1. ret' = [ret EXCEPT ![t] = ret[t]]
  BY SameRet
<1>2. /\ Stage[t] = "called" /\ Stage' = [Stage EXCEPT ![t] = "called"]
      /\ Res[t] = ret[t] /\ Res' = [Res EXCEPT ![t] = ret[t]]
  <2>1. /\ Stage[t] = StageAt(pc[t]) /\ Stage' = [Stage EXCEPT ![t] = StageAt(l)]
        /\ Res[t] = IF pc[t] = "e_swing" THEN Ok ELSE ret[t]
        /\ Res' = [Res EXCEPT ![t] = IF l = "e_swing" THEN Ok ELSE ret[t]]
    BY <1>1, StageStep
  <2>2. StageAt(pc[t]) = "called" /\ StageAt(l) = "called"
    BY DEF StageAt
  <2> QED BY <2>1, <2>2
<1>3. MapOn(Stage, Threads) /\ MapOn(Res, Threads)
  BY SMT DEF Stage, Res, MapOn
<1>4. Stage' = Stage /\ Res' = Res
  <2>1. \A f : MapOn(f, Threads) => [f EXCEPT ![t] = f[t]] = f
    BY SMT DEF MapOn
  <2>2. Stage' = [Stage EXCEPT ![t] = Stage[t]] /\ Res' = [Res EXCEPT ![t] = Res[t]]
    BY <1>2
  <2> QED BY <1>3, <2>1, <2>2, Zenon
<1>5. Queue' = Queue
  BY DEF Queue
<1> QED BY <1>4, <1>5 DEF Abs!vars

\* The initial list is the empty queue.
LEMMA AbsInit == ASSUME Init PROVE Abs!Init
<1>1. Stage = [t \in Threads |-> "idle"] /\ Res = [t \in Threads |-> "noret"]
  BY SMT DEF Init, ClientInit, Stage, Res, NoRet
<1>2. Queue = << >>
  <2>1. PICK n, s : ListState(n, s)
    BY InitInv DEF IInv
  <2>2. \A i \in 1 .. n : i = 1
    <3>1. /\ s \in [1 .. n -> Nodes] /\ s[1] = InitNode /\ n \in Nat \ {0}
          /\ \A i \in 1 .. n - 1 : next[s[i]] = s[i + 1]
      BY <2>1 DEF ListState, IsChain
    <3>2. 1 \notin 1 .. n - 1
      <4>1. CASE 1 \in 1 .. n - 1
        <5>1. 1 + 1 \in 1 .. n
          BY <3>1, <4>1, SMT
        <5>2. next[s[1]] = s[1 + 1] /\ s[1 + 1] \in Nodes
          BY <3>1, <4>1, <5>1
        <5> QED BY <3>1, <5>2, NodesAre DEF Init
      <4> QED BY <4>1
    <3> QED BY <3>1, <3>2, SMT
  <2>3. PICK h \in 1 .. n : n - h \in Nat /\ HasPlaces(Queue, n - h)
    BY <2>1, QueueNow
  <2>4. n - h = 0
    <3>1. n \in Nat \ {0}
      BY <2>1 DEF ListState, IsChain
    <3> QED BY <2>2, <2>3, <3>1, SMT
  <2>5. PICK q : q = Queue
    OBVIOUS
  <2>6. HasPlaces(q, 0)
    BY <2>3, <2>4, <2>5
  <2>7. q \in Seq({}) /\ Len(q) = 0
    BY <2>6, FunctionIsSeq, SMT
  <2> QED BY <2>5, <2>7, SMT
<1> QED BY <1>1, <1>2 DEF Abs!Init, Init, ClientInit

\* Each step of the wrapper is a step of the queue, or none.
LEMMA AbsStep ==
    ASSUME IInv, NEW t \in Threads, Step(t)
    PROVE  Abs!Next \/ UNCHANGED Abs!vars
<1>0. TypeOK /\ InOwnCall
  BY DEF IInv
<1>s. PICK n, s : ListState(n, s)
  BY DEF IInv
<1>q. UNCHANGED <<head, next>> => Queue' = Queue
  BY DEF Queue
<1>l. "enqMayDrop" \in {"deqMayFail", "enqMayDrop"} /\ "deqMayFail" \in {"deqMayFail", "enqMayDrop"}
  OBVIOUS
<1>k. /\ pc[t] \in EnqLabels => Script[t][ip[t]].kind = "enq"
      /\ pc[t] \in DeqLabels => Script[t][ip[t]].kind = "deq"
  BY <1>0 DEF InOwnCall, InCallOf, Current
<1>1. CASE EnqCall(t) \/ DeqCall(t)
  <2>1. PICK l : /\ l \in {"e_tail", "d_head"} /\ pc[t] = "idle" /\ ip[t] < Len(Script[t])
                 /\ pc' = [pc EXCEPT ![t] = l] /\ ip' = [ip EXCEPT ![t] = ip[t] + 1]
                 /\ ret' = ret /\ UNCHANGED <<head, next>>
    BY <1>1, Zenon DEF EnqCall, DeqCall, Invoke, InCall, shared
  <2>2. ret' = [ret EXCEPT ![t] = ret[t]]
    BY <1>0, <2>1, SameRet
  <2>3. /\ Stage[t] = StageAt(pc[t]) /\ Stage' = [Stage EXCEPT ![t] = StageAt(l)]
        /\ Res[t] = IF pc[t] = "e_swing" THEN Ok ELSE ret[t]
        /\ Res' = [Res EXCEPT ![t] = IF l = "e_swing" THEN Ok ELSE ret[t]]
    BY <1>0, <2>1, <2>2, StageStep
  <2>4. /\ StageAt(pc[t]) = "idle" /\ StageAt(l) = "called"
        /\ pc[t] # "e_swing" /\ l # "e_swing"
    BY <2>1, SMT DEF StageAt
  <2>5. Res' = Res
    <3>1. Res' = [Res EXCEPT ![t] = Res[t]]
      BY <2>3, <2>4
    <3>2. Res = [u \in Threads |-> Res[u]]
      BY DEF Res
    <3> QED BY <3>1, <3>2, Zenon
  <2>6. Abs!Call(t)
    BY <1>q, <2>1, <2>3, <2>4, <2>5 DEF Abs!Call
  <2> QED BY <2>6 DEF Abs!Next, Abs!Step
<1>2. ASSUME NEW l, pc[t] # "idle", pc[t] # "e_swing", l # "idle", l # "e_swing",
             Goto(t, l), UNCHANGED <<head, next>>
      PROVE  UNCHANGED Abs!vars
  BY <1>0, <1>2, ClientMoves, Stutters
<1>3. CASE EnqLoadTail(t)
  BY <1>2, <1>3 DEF EnqLoadTail, shared
<1>4. CASE EnqLoadNext(t)
  <2>1. pc[t] = "e_next" /\ UNCHANGED <<head, next>>
    BY <1>4 DEF EnqLoadNext, shared
  <2>2. PICK l : l \in {"e_link", "e_walk"} /\ Goto(t, l)
    BY <1>4, Zenon DEF EnqLoadNext
  <2> QED BY <1>2, <2>1, <2>2
<1>5. CASE EnqWalk(t)
  <2>1. pc[t] = "e_walk" /\ Retry(t, "e_tail") /\ UNCHANGED <<head, next>>
    BY <1>5 DEF EnqWalk
  <2>2. PICK l \in {"e_tail", "blocked"} : pc' = [pc EXCEPT ![t] = l] /\ ip' = ip /\ ret' = ret
    BY <2>1, ClientMoves
  <2>3. l # "idle" /\ l # "e_swing" /\ pc[t] # "idle" /\ pc[t] # "e_swing"
    BY <2>1, <2>2
  <2> QED BY <1>0, <2>1, <2>2, <2>3, Stutters
<1>f. ASSUME NEW r, pc[t] \notin {"idle", "e_swing"}, Finish(t, r)
      PROVE  /\ Stage[t] = "called" /\ Stage' = [Stage EXCEPT ![t] = "idle"]
             /\ Res' = [Res EXCEPT ![t] = r] /\ ip' = ip
  <2>1. pc' = [pc EXCEPT ![t] = "idle"] /\ ip' = ip /\ ret' = [ret EXCEPT ![t] = r]
    BY <1>f, ClientMoves DEF Finish
  <2>2. PICK l : l = "idle"
    OBVIOUS
  <2>3. /\ Stage[t] = StageAt(pc[t]) /\ Stage' = [Stage EXCEPT ![t] = StageAt(l)]
        /\ Res' = [Res EXCEPT ![t] = IF l = "e_swing" THEN Ok ELSE r]
    BY <1>0, <2>1, <2>2, StageStep
  <2>4. StageAt(pc[t]) = "called" /\ StageAt(l) = "idle" /\ l # "e_swing"
    BY <1>f, <2>2, SMT DEF StageAt
  <2> QED BY <2>1, <2>3, <2>4
<1>6. CASE EnqLink(t)
  <2>1. pc[t] = "e_link" /\ UNCHANGED <<head, tail>> /\ Script[t][ip[t]].kind = "enq"
    BY <1>6, <1>k DEF EnqLink, EnqLabels
  <2>2. CASE /\ LinkFree(loc[t].node)
             /\ next' = [next EXCEPT ![loc[t].node] = NewNode(t)]
             /\ Goto(t, "e_swing") /\ UNCHANGED loc
    <3>1. PICK x, r : x = NewNode(t) /\ r = Grown(n, s, x)
      OBVIOUS
    <3>2. ListState(n + 1, r)'
      BY <1>0, <1>s, <2>1, <2>2, <3>1, LinkGrows
    <3>3. /\ x \in Nodes /\ Data(x) = Script[t][ip[t]].val
          /\ n \in Nat \ {0} /\ s \in [1 .. n -> Nodes]
      BY <1>0, <1>s, <2>1, <3>1, NodesHeld DEF EnqLabels, Current
    <3>4. /\ r[n + 1] = x /\ \A i \in 1 .. n : r[i] = s[i]
      <4>1. x \in Nodes /\ n \in Nat \ {0} /\ s \in [1 .. n -> Nodes]
        BY <3>3
      <4>2. /\ Grown(n, s, x)[n + 1] = x
            /\ \A i \in 1 .. n : Grown(n, s, x)[i] = s[i]
        BY ONLY <4>1, GrownIs
      <4> QED BY <3>1, <4>2
    <3>5. PICK h \in 1 .. n : /\ s[h] = head /\ n - h \in Nat
                              /\ HasPlaces(Queue, n - h)
                              /\ \A i \in 1 .. n - h : Queue[i] = Data(s[h + i])
      BY <1>s, QueueNow
    <3>6. PICK nx, q : nx = next' /\ q = Queue'
      OBVIOUS
    <3>7. /\ IsChain(n + 1, r, nx) /\ h \in 1 .. n + 1
          /\ q = [i \in DOMAIN Behind(r[h], nx) |-> Data(Behind(r[h], nx)[i])]
      <4>1. h \in 1 .. n + 1
        BY <3>3, SMT
      <4>2. r[h] = head'
        BY <2>1, <3>4, <3>5
      <4>3. IsChain(n + 1, r, next')
        BY <3>2 DEF ListState
      <4> QED BY <3>6, <4>1, <4>2, <4>3 DEF Queue
    <3>8. /\ HasPlaces(q, n + 1 - h)
          /\ \A i \in 1 .. n + 1 - h : q[i] = Data(r[h + i])
      <4>1. PICK k : k = n + 1
        OBVIOUS
      <4>2. /\ IsChain(k, r, nx) /\ h \in 1 .. k
            /\ q = [i \in DOMAIN Behind(r[h], nx) |-> Data(Behind(r[h], nx)[i])]
        BY <3>7, <4>1
      <4>3. HasPlaces(q, k - h) /\ \A i \in 1 .. k - h : q[i] = Data(r[h + i])
        BY ONLY <4>2, QueueItems
      <4>4. k - h = n + 1 - h
        BY <4>1, <3>3, SMT
      <4> QED BY <4>3, <4>4, Zenon
    <3>9. PICK m \in Nat : m = n - h
      BY <3>5
    <3>10. /\ n + 1 - h = m + 1 /\ m + 1 \in 1 .. n + 1 - h /\ h + (m + 1) = n + 1
           /\ \A i \in 1 .. m : i \in 1 .. n + 1 - h /\ h + i \in 1 .. n
      BY <3>3, <3>9, SMT
    <3>11. q = Append(Queue, q[m + 1])
      <4>1. HasPlaces(Queue, m) /\ HasPlaces(q, m + 1)
        BY <3>5, <3>8, <3>9, <3>10
      <4>2. \A i \in 1 .. m : q[i] = Queue[i]
        BY <3>4, <3>5, <3>8, <3>9, <3>10
      <4> QED BY <4>1, <4>2, PushedBack
    <3>12. q[m + 1] = Data(x)
      BY <3>4, <3>8, <3>10
    <3>13. Queue' = Append(Queue, Script[t][ip[t]].val)
      BY <3>3, <3>6, <3>11, <3>12
    <3>14. pc' = [pc EXCEPT ![t] = "e_swing"] /\ ip' = ip /\ ret' = [ret EXCEPT ![t] = ret[t]]
      BY <1>0, <2>2, ClientMoves, SameRet
    <3>15. PICK l : l = "e_swing"
      OBVIOUS
    <3>16. /\ Stage[t] = StageAt(pc[t]) /\ Stage' = [Stage EXCEPT ![t] = StageAt(l)]
           /\ Res' = [Res EXCEPT ![t] = IF l = "e_swing" THEN Ok ELSE ret[t]]
      BY <1>0, <3>14, <3>15, StageStep
    <3>17. StageAt(pc[t]) = "called" /\ StageAt(l) = "done"
      BY <2>1, <3>15, SMT DEF StageAt
    <3>18. Abs!Effect(t, "ok", Append(Queue, Script[t][ip[t]].val))
      BY <3>13, <3>14, <3>15, <3>16, <3>17 DEF Abs!Effect, Ok
    <3>19. Abs!Enqueue(t)
      BY <2>1, <3>16, <3>17, <3>18 DEF Abs!Enqueue
    <3> QED BY <3>19 DEF Abs!Next, Abs!Step
  <2>3. CASE Finish(t, Ok) /\ UNCHANGED next
    <3>1. /\ Stage[t] = "called" /\ Stage' = [Stage EXCEPT ![t] = "idle"]
          /\ Res' = [Res EXCEPT ![t] = Ok] /\ ip' = ip /\ Queue' = Queue
      BY <1>f, <1>q, <2>1, <2>3
    <3>2. Abs!Effect(t, "ok", Queue)
      BY <3>1 DEF Abs!Effect, Ok
    <3>3. Abs!Enqueue(t)
      BY <1>l, <2>1, <3>1, <3>2 DEF Abs!Enqueue
    <3> QED BY <3>3 DEF Abs!Next, Abs!Step
  <2> QED BY <1>6, <2>2, <2>3 DEF EnqLink
<1>7. CASE EnqSwing(t)
  <2>1. /\ pc[t] = "e_swing" /\ pc' = [pc EXCEPT ![t] = "idle"] /\ ip' = ip
        /\ ret' = [ret EXCEPT ![t] = Ok] /\ UNCHANGED <<head, next>>
    BY <1>7, ClientMoves DEF EnqSwing, Finish
  <2>2. PICK l : l = "idle"
    OBVIOUS
  <2>3. /\ Stage[t] = StageAt(pc[t]) /\ Stage' = [Stage EXCEPT ![t] = StageAt(l)]
        /\ Res[t] = IF pc[t] = "e_swing" THEN Ok ELSE ret[t]
        /\ Res' = [Res EXCEPT ![t] = IF l = "e_swing" THEN Ok ELSE Ok]
    BY <1>0, <2>1, <2>2, StageStep
  <2>4. StageAt(pc[t]) = "done" /\ StageAt(l) = "idle"
    BY <2>1, <2>2, SMT DEF StageAt
  <2>5. Res' = Res
    <3>1. Res' = [Res EXCEPT ![t] = Res[t]]
      BY <2>1, <2>3
    <3>2. Res = [u \in Threads |-> Res[u]]
      BY DEF Res
    <3> QED BY <3>1, <3>2, Zenon
  <2>6. Abs!Return(t)
    BY <1>q, <2>1, <2>3, <2>4, <2>5 DEF Abs!Return
  <2> QED BY <2>6 DEF Abs!Next, Abs!Step
<1>8. CASE DeqLoadHead(t)
  BY <1>2, <1>8 DEF DeqLoadHead, shared
<1>e. ASSUME pc[t] \in {"d_next", "d_cas"}, Finish(t, Empty), UNCHANGED <<head, next>>
      PROVE  Abs!Next
  <2>1. /\ Stage[t] = "called" /\ Stage' = [Stage EXCEPT ![t] = "idle"]
        /\ Res' = [Res EXCEPT ![t] = Empty] /\ ip' = ip /\ Queue' = Queue
    BY <1>e, <1>f, <1>q
  <2>2. Script[t][ip[t]].kind = "deq"
    BY <1>e, <1>k DEF DeqLabels
  <2>3. Abs!Effect(t, "empty", Queue)
    BY <2>1 DEF Abs!Effect, Empty
  <2>4. Abs!Dequeue(t)
    BY <1>l, <2>1, <2>2, <2>3 DEF Abs!Dequeue
  <2> QED BY <2>4 DEF Abs!Next, Abs!Step
<1>9. CASE DeqLoadNext(t)
  <2>1. pc[t] = "d_next" /\ UNCHANGED <<head, next>>
    BY <1>9 DEF DeqLoadNext, shared
  <2>2. CASE Finish(t, Empty)
    BY <1>e, <2>1, <2>2
  <2>3. CASE Goto(t, "d_cas")
    BY <1>2, <2>1, <2>3
  <2> QED BY <1>9, <2>2, <2>3 DEF DeqLoadNext
<1>10. CASE DeqAdvance(t)
  <2>1. pc[t] = "d_cas" /\ next' = next /\ Script[t][ip[t]].kind = "deq"
    BY <1>10, <1>k DEF DeqAdvance, DeqLabels
  <2>2. CASE HeadSame(t) /\ head' = loc[t].next /\ Finish(t, Data(loc[t].next))
    <3>1. /\ head = loc[t].node /\ head' = next[head] /\ head' # NoNode
          /\ Finish(t, Data(head'))
      BY <1>s, <2>1, <2>2 DEF HeadSame, ListState, Reads
    <3>2. PICK h \in 1 .. n : /\ s[h] = head /\ n - h \in Nat
                              /\ HasPlaces(Queue, n - h)
                              /\ \A i \in 1 .. n - h : Queue[i] = Data(s[h + i])
      BY <1>s, QueueNow
    <3>3. /\ IsChain(n, s, next) /\ n \in Nat \ {0} /\ next[s[n]] = NoNode
          /\ \A i \in 1 .. n - 1 : next[s[i]] = s[i + 1]
      BY <1>s DEF ListState, IsChain
    <3>4. h # n
      BY <3>1, <3>2, <3>3
    <3>5. PICK m \in Nat : n - h = m + 1
      <4>1. (n - h) - 1 \in Nat /\ n - h = ((n - h) - 1) + 1
        BY <3>2, <3>3, <3>4, SMT
      <4> QED BY <4>1
    <3>6. /\ h \in 1 .. n - 1 /\ h + 1 \in 1 .. n /\ n - (h + 1) = m /\ 1 \in 1 .. n - h
          /\ \A i \in 1 .. m : i + 1 \in 1 .. n - h /\ h + (i + 1) = (h + 1) + i
      BY <3>3, <3>5, SMT
    <3>7. head' = s[h + 1]
      BY <3>1, <3>2, <3>3, <3>6
    <3>8. PICK nx, q : nx = next /\ q = Queue'
      OBVIOUS
    <3>9. /\ IsChain(n, s, nx) /\ h + 1 \in 1 .. n
          /\ q = [i \in DOMAIN Behind(s[h + 1], nx) |-> Data(Behind(s[h + 1], nx)[i])]
      BY <2>1, <3>3, <3>6, <3>7, <3>8 DEF Queue
    <3>10. /\ HasPlaces(q, n - (h + 1))
           /\ \A i \in 1 .. n - (h + 1) : q[i] = Data(s[(h + 1) + i])
      BY ONLY <3>9, QueueItems
    <3>11. Queue # << >> /\ Head(Queue) = Queue[1] /\ Tail(Queue) = q
      <4>1. HasPlaces(Queue, m + 1) /\ HasPlaces(q, m)
        BY <3>2, <3>5, <3>6, <3>10
      <4>2. \A i \in 1 .. m : q[i] = Queue[i + 1]
        BY <3>2, <3>6, <3>10
      <4> QED BY <4>1, <4>2, PoppedFront
    <3>12. Queue[1] = Data(head')
      BY <3>2, <3>6, <3>7
    <3>13. /\ Stage[t] = "called" /\ Stage' = [Stage EXCEPT ![t] = "idle"]
           /\ Res' = [Res EXCEPT ![t] = Data(head')] /\ ip' = ip
      BY <1>f, <2>1, <3>1
    <3>14. Abs!Effect(t, Head(Queue), Tail(Queue))
      BY <3>8, <3>11, <3>12, <3>13 DEF Abs!Effect
    <3>15. Abs!Dequeue(t)
      BY <2>1, <3>11, <3>13, <3>14 DEF Abs!Dequeue
    <3> QED BY <3>15 DEF Abs!Next, Abs!Step
  <2>3. CASE Finish(t, Empty) /\ UNCHANGED head
    BY <1>e, <2>1, <2>3
  <2> QED BY <1>10, <2>2, <2>3 DEF DeqAdvance, Taken
<1> QED BY <1>1, <1>3, <1>4, <1>5, <1>6, <1>7, <1>8, <1>9, <1>10 DEF Step

\* Every execution is one of a FIFO queue that may drop what is enqueued and may
\* say that it is empty, with the same calls and the same results: what is not
\* dropped comes out once, in the order in which it was linked.
THEOREM ImplementsQueue == Spec => ImplementsAtomicQueue
<1>1. Init => Abs!Init
  BY AbsInit
<1>2. IInv /\ [Next]_vars => [Abs!Next]_Abs!vars
  <2>1. ASSUME UNCHANGED vars PROVE UNCHANGED Abs!vars
    BY <2>1 DEF vars, Abs!vars, Stage, Res, Queue
  <2> QED BY <2>1, AbsStep DEF Next, Terminating
<1> QED BY <1>1, <1>2, Invariant, PTL DEF Spec, Abs!Spec, ImplementsAtomicQueue
=============================================================================
