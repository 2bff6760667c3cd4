----------------------------- MODULE MPMCProofs -----------------------------
(***************************************************************************)
(* Theorems about MPMCQueue, as long as no enqueue finds the ring full and *)
(* for fewer threads than a half of m_rdwr can count: the counters count   *)
(* the calls in progress, no two threads meet in a slot, some wait always  *)
(* ends, and the queue is a FIFO queue.                                    *)
(*                                                                         *)
(* The halves of m_rdwr only hold their counts modulo Word.  The inductive *)
(* invariant names the counts themselves: R reads and W writes have been   *)
(* claimed so far, and t claimed when they were gr[t] and gw[t].           *)
(*                                                                         *)
(* A call waits until every call of the other kind that claimed before it  *)
(* is done, and so no call of the other kind that claimed after it can be  *)
(* done before it is.  The first part says this of claims in general: E    *)
(* and D are the claims in progress of the two kinds, P and Q those whose  *)
(* wait is over, a and b the counts of the two kinds at each claim, A and  *)
(* B the counts so far.  As the two kinds are alike each lemma is proved   *)
(* for one and used for both.                                              *)
(***************************************************************************)
EXTENDS MPMCQueue, QueueLemmas

-----------------------------------------------------------------------------
\* Claims of two kinds.

\* e, of the kind that a counts, has claimed before d, of the one b counts.
Before(a, b, e, d) == a[e] < a[d] /\ b[e] <= b[d]

Side(E, D, P, a, b, A, B) ==
    /\ P \subseteq E
    /\ \A e \in E : a[e] \in Nat /\ b[e] \in Nat /\ a[e] < A /\ b[e] <= B
    /\ \A e, u \in E : e # u => a[e] # a[u]
    /\ \A e \in E, d \in D : Before(a, b, e, d) \/ Before(b, a, d, e)
    \* what was claimed after e is in progress
    /\ \A e \in E : \A p \in Nat : b[e] <= p /\ p < B => \E d \in D : b[d] = p
    \* nothing that was claimed before e is, once the wait of e is over
    /\ \A e \in P, d \in D : a[e] < a[d]

InOrder(E, D, P, Q, a, b, A, B) ==
    /\ A \in Nat /\ B \in Nat
    /\ E \cap D = {}
    /\ Side(E, D, P, a, b, A, B)
    /\ Side(D, E, Q, b, a, B, A)

\* The two kinds may change places.
LEMMA OrderSymmetric ==
    ASSUME NEW E, NEW D, NEW P, NEW Q, NEW a, NEW b, NEW A, NEW B,
           InOrder(E, D, P, Q, a, b, A, B)
    PROVE  InOrder(D, E, Q, P, b, a, B, A)
<1>1. D \cap E = {}
  BY Zenon DEF InOrder
<1> QED BY <1>1, Zenon DEF InOrder

\* A call that claims sees the counts as they are and comes after all others.
LEMMA OrderClaimed ==
    ASSUME NEW E, NEW D, NEW P, NEW Q, NEW a, NEW b, NEW A, NEW B,
           InOrder(E, D, P, Q, a, b, A, B),
           NEW t, t \notin E, t \notin D,
           NEW c, NEW g, c[t] = A, g[t] = B,
           \A u \in E \cup D : c[u] = a[u] /\ g[u] = b[u]
    PROVE  InOrder(E \cup {t}, D, P, Q, c, g, A + 1, B)
<1> DEFINE F == E \cup {t}
<1>0. /\ A \in Nat /\ B \in Nat /\ A + 1 \in Nat /\ A < A + 1
      /\ \A p \in Nat : p < A + 1 => p < A \/ p = A
      /\ \A p \in Nat : p < A => p < A + 1
      /\ \A p \in Nat : p <= A => p <= A + 1
  BY SMT DEF InOrder
<1>1. Side(E, D, P, a, b, A, B) /\ Side(D, E, Q, b, a, B, A) /\ E \cap D = {}
  BY Zenon DEF InOrder
<1>2. /\ \A e \in E : c[e] = a[e] /\ g[e] = b[e]
      /\ \A d \in D : c[d] = a[d] /\ g[d] = b[d]
      /\ \A e \in F : e \in E \/ e = t
      /\ t \in F /\ E \subseteq F /\ F \cap D = {}
  BY <1>1
<1> HIDE DEF F
<1>3. ASSUME NEW d \in D PROVE Before(g, c, d, t)
  BY <1>0, <1>1, <1>2, <1>3, SMT DEF Side, Before
<1>4. ASSUME NEW e \in E, NEW d \in D PROVE Before(c, g, e, d) \/ Before(g, c, d, e)
  BY <1>1, <1>2, <1>4, Zenon DEF Side, Before
<1>5. Side(F, D, P, c, g, A + 1, B)
  <2>1. P \subseteq F
    BY <1>1, <1>2 DEF Side
  <2>2. \A e \in F : c[e] \in Nat /\ g[e] \in Nat /\ c[e] < A + 1 /\ g[e] <= B
    BY <1>0, <1>1, <1>2, SMT DEF Side
  <2>3. \A e, u \in F : e # u => c[e] # c[u]
    BY <1>0, <1>1, <1>2, SMT DEF Side
  <2>4. \A e \in F, d \in D : Before(c, g, e, d) \/ Before(g, c, d, e)
    BY <1>2, <1>3, <1>4, Zenon
  <2>5. ASSUME NEW e \in F, NEW p \in Nat, g[e] <= p, p < B PROVE \E d \in D : g[d] = p
    <3>1. e # t
      BY <1>0, <2>5, SMT
    <3>2. e \in E /\ b[e] <= p
      BY <3>1, <2>5, <1>2
    <3>3. PICK d \in D : b[d] = p
      BY <3>2, <2>5, <1>1, Zenon DEF Side
    <3> QED BY <3>3, <1>2
  <2>6. \A e \in P, d \in D : c[e] < c[d]
    BY <1>1, <1>2 DEF Side
  <2> QED BY <2>1, <2>2, <2>3, <2>4, <2>5, <2>6 DEF Side
<1>6. Side(D, F, Q, g, c, B, A + 1)
  <2>1. Q \subseteq D
    BY <1>1 DEF Side
  <2>2. \A d \in D : g[d] \in Nat /\ c[d] \in Nat /\ g[d] < B /\ c[d] <= A + 1
    BY <1>0, <1>1, <1>2, SMT DEF Side
  <2>3. \A e, u \in D : e # u => g[e] # g[u]
    BY <1>1, <1>2, Zenon DEF Side
  <2>4. \A d \in D, e \in F : Before(g, c, d, e) \/ Before(c, g, e, d)
    BY <1>2, <1>3, <1>4, Zenon
  <2>5. ASSUME NEW d \in D, NEW p \in Nat, c[d] <= p, p < A + 1
        PROVE  \E e \in F : c[e] = p
    <3>1. CASE p = A
      BY <3>1, <1>2
    <3>2. CASE p # A
      <4>1. p < A /\ a[d] <= p
        BY <3>2, <2>5, <1>0, <1>2
      <4>2. PICK e \in E : a[e] = p
        BY <4>1, <1>1, Zenon DEF Side
      <4> QED BY <4>2, <1>2
    <3> QED BY <3>1, <3>2
  <2>6. ASSUME NEW d \in Q, NEW e \in F PROVE g[d] < g[e]
    <3>1. d \in D
      BY <2>1
    <3>2. CASE e = t
      BY <3>1, <3>2, <1>1, <1>2 DEF Side
    <3>3. CASE e # t
      BY <3>1, <3>3, <1>1, <1>2 DEF Side
    <3> QED BY <3>2, <3>3
  <2> QED BY <2>1, <2>2, <2>3, <2>4, <2>5, <2>6 DEF Side
<1> QED BY <1>0, <1>2, <1>5, <1>6 DEF InOrder, F

\* The wait of t is over: nothing of the other kind is left before it.
LEMMA OrderWaited ==
    ASSUME NEW E, NEW D, NEW P, NEW Q, NEW a, NEW b, NEW A, NEW B,
           InOrder(E, D, P, Q, a, b, A, B),
           NEW t \in E, \A d \in D : a[t] < a[d]
    PROVE  InOrder(E, D, P \cup {t}, Q, a, b, A, B)
<1>1. Side(E, D, P, a, b, A, B)
  BY Zenon DEF InOrder
<1>2. P \cup {t} \subseteq E
  BY <1>1 DEF Side
<1>3. \A e \in P \cup {t}, d \in D : a[e] < a[d]
  BY <1>1 DEF Side
<1>4. Side(E, D, P \cup {t}, a, b, A, B)
  BY <1>1, <1>2, <1>3, Zenon DEF Side
<1> QED BY <1>4, Zenon DEF InOrder

\* A call that waited is done: all that others need is still in progress.
LEMMA OrderDone ==
    ASSUME NEW E, NEW D, NEW P, NEW Q, NEW a, NEW b, NEW A, NEW B,
           InOrder(E, D, P, Q, a, b, A, B), NEW t \in P
    PROVE  InOrder(E \ {t}, D, P \ {t}, Q, a, b, A, B)
<1> DEFINE F == E \ {t}
<1>0. /\ A \in Nat /\ B \in Nat /\ t \in E
      /\ Side(E, D, P, a, b, A, B) /\ Side(D, E, Q, b, a, B, A)
  BY Zenon DEF InOrder, Side
<1>1. P \ {t} \subseteq F
  BY <1>0 DEF Side
<1>2. Side(F, D, P \ {t}, a, b, A, B)
  BY <1>0, <1>1, Zenon DEF Side
<1>3. ASSUME NEW d \in D, NEW p \in Nat, a[d] <= p, p < A PROVE \E e \in F : a[e] = p
  <2>1. PICK e \in E : a[e] = p
    BY <1>0, <1>3, Zenon DEF Side
  <2>2. a[t] < a[d] /\ a[t] \in Nat /\ a[d] \in Nat
    BY <1>0, Zenon DEF Side
  <2>3. e # t
    BY <2>1, <2>2, <1>3, SMT
  <2> QED BY <2>1, <2>3
<1>4. Side(D, F, Q, b, a, B, A)
  <2>1. F \subseteq E
    OBVIOUS
  <2> HIDE DEF F
  <2> QED BY <1>0, <1>3, <2>1, Zenon DEF Side
<1>5. F \cap D = {}
  BY DEF InOrder
<1> QED BY <1>0, <1>2, <1>4, <1>5 DEF InOrder

-----------------------------------------------------------------------------
\* How many claims are in progress.

\* The claims of the other kind that came after that of t are in progress, one
\* for each count.
LEMMA LaterCount ==
    ASSUME NEW E, NEW D, NEW P, NEW Q, NEW a, NEW b, NEW A, NEW B,
           InOrder(E, D, P, Q, a, b, A, B), IsFiniteSet(D), NEW t \in E
    PROVE  LET later == {d \in D : b[t] <= b[d]}
           IN  /\ IsFiniteSet(later) /\ Cardinality(later) = B - b[t]
               /\ b[t] \in Nat /\ B \in Nat /\ b[t] <= B
<1> DEFINE L == {d \in D : b[t] <= b[d]}
           I == b[t] .. B - 1
           f == [d \in L |-> b[d]]
<1>0. /\ B \in Nat /\ b[t] \in Nat /\ b[t] <= B
      /\ \A d \in D : b[d] \in Nat /\ b[d] < B
      /\ \A e, u \in D : e # u => b[e] # b[u]
      /\ \A p \in Nat : b[t] <= p /\ p < B => \E d \in D : b[d] = p
  BY Zenon DEF InOrder, Side
<1>1. IsFiniteSet(L)
  BY FS_Subset
<1>2. \A p : p \in I <=> p \in Nat /\ b[t] <= p /\ p < B
  BY <1>0, SMT
<1>3. Cardinality(I) = B - b[t]
  <2>1. b[t] \in Int /\ B - 1 \in Int
    BY <1>0, SMT
  <2>2. Cardinality(I) = IF b[t] > B - 1 THEN 0 ELSE B - 1 - b[t] + 1
    BY <2>1, FS_Interval, Zenon
  <2> QED BY <2>2, <1>0, SMT
<1> HIDE DEF I
<1>4. f \in [L -> I]
  BY <1>0, <1>2
<1>5. \A p \in I : \E d \in L : f[d] = p
  <2> SUFFICES ASSUME NEW p \in I PROVE \E d \in L : f[d] = p
    OBVIOUS
  <2>1. PICK d \in D : b[d] = p
    BY <1>0, <1>2
  <2> QED BY <2>1, <1>2
<1>6. \A d, c \in L : f[d] = f[c] => d = c
  BY <1>0
<1>7. f \in Injection(L, I) /\ f \in Surjection(L, I)
  <2> HIDE DEF L, f
  <2> QED BY <1>4, <1>5, <1>6, Zenon DEF Injection, Surjection, IsInjective
<1>8. Cardinality(L) = Cardinality(I)
  <2> HIDE DEF L, f
  <2> QED BY <1>1, <1>7, FS_Surjection
<1> QED BY <1>0, <1>1, <1>3, <1>8

\* If m of the other kind are done, what is left of them says whether the wait
\* of t is over: m is the count t waits for, modulo N, exactly if nothing that
\* claimed before t is in progress.
LEMMA WaitOver ==
    ASSUME NEW E, NEW D, NEW P, NEW Q, NEW a, NEW b, NEW A, NEW B,
           InOrder(E, D, P, Q, a, b, A, B), IsFiniteSet(D), NEW t \in E,
           NEW N \in Nat \ {0}, Cardinality(D) < N,
           NEW m \in Nat, m + Cardinality(D) = B
    PROVE  m % N = b[t] % N <=> \A d \in D : a[t] < a[d]
<1> DEFINE L == {d \in D : b[t] <= b[d]}
           F == {d \in D : b[d] < b[t]}
<1>0. /\ b[t] \in Nat /\ B \in Nat /\ a[t] \in Nat
      /\ \A d \in D : b[d] \in Nat /\ a[d] \in Nat
      /\ \A d \in D : Before(a, b, t, d) \/ Before(b, a, d, t)
  BY Zenon DEF InOrder, Side
<1>1. IsFiniteSet(L) /\ Cardinality(L) = B - b[t]
  BY LaterCount
<1>2. IsFiniteSet(F)
  BY FS_Subset
<1>3. L \cup F = D /\ L \cap F = {}
  BY <1>0, SMT
<1>4. Cardinality(D) = Cardinality(L) + Cardinality(F)
  <2>1. Cardinality(L \cup F) = Cardinality(L) + Cardinality(F) - Cardinality(L \cap F)
    BY <1>1, <1>2, FS_Union, Zenon
  <2>2. Cardinality(L \cap F) = 0
    BY <1>3, FS_EmptySet, Zenon
  <2>3. Cardinality(L) \in Nat /\ Cardinality(F) \in Nat
    BY <1>1, <1>2, FS_CardinalityType, Zenon
  <2> HIDE DEF L, F
  <2>4. Cardinality(D) = Cardinality(L) + Cardinality(F) - 0
    BY <2>1, <2>2, <1>3, Zenon
  <2> QED BY <2>3, <2>4, SMT
<1>5. /\ Cardinality(L) \in Nat /\ Cardinality(F) \in Nat /\ Cardinality(D) \in Nat
  BY <1>1, <1>2, FS_CardinalityType, Zenon
<1>6. m + Cardinality(F) = b[t] /\ Cardinality(F) < N
  <2> HIDE DEF L, F
  <2> QED BY <1>0, <1>1, <1>4, <1>5, SMT
<1>7. CASE F = {}
  <2>1. Cardinality(F) = 0
    BY <1>7, FS_EmptySet, Zenon
  <2>2. m = b[t]
    <3> HIDE DEF F
    <3> QED BY <2>1, <1>0, <1>6, SMT
  <2>3. ASSUME NEW d \in D PROVE a[t] < a[d]
    <3>1. ~(b[d] < b[t])
      BY <1>7
    <3> QED BY <3>1, <1>0, SMT DEF Before
  <2> QED BY <2>2, <2>3
<1>8. CASE F # {}
  <2>1. Cardinality(F) # 0
    <3> HIDE DEF F
    <3> QED BY <1>2, <1>8, FS_EmptySet, Zenon
  <2>2. m < b[t] /\ b[t] < m + N
    <3> HIDE DEF F
    <3> QED BY <2>1, <1>0, <1>5, <1>6, SMT
  <2>3. m % N # b[t] % N
    BY <2>2, <1>0, ModInj
  <2>4. PICK d \in D : b[d] < b[t]
    BY <1>8
  <2>5. ~(a[t] < a[d])
    BY <2>4, <1>0, SMT DEF Before
  <2> QED BY <2>3, <2>5
<1> QED BY <1>7, <1>8

-----------------------------------------------------------------------------
\* Types.

\* A half of m_rdwr counts in its bits, and its places are slots.
LEMMA CountBound ==
    /\ \A n \in Nat : Count(n) \in 0 .. Word - 1 /\ n % Word \in 0 .. Word - 1
    /\ \A n \in Nat : Slot(n) \in Slots
    /\ 0 \in 0 .. Word - 1
<1>1. Size \in Nat \ {0} /\ Word \in Nat \ {0}
  BY SizeAssumption, WordAssumption, SMT
<1>2. ASSUME NEW n \in Nat PROVE n + 1 \in Nat
  BY SMT
<1> QED BY <1>1, <1>2, DivMod, SMT DEF Count, Slot, Slots

LEMMA TypeInit == Init => TypeOK
<1> SUFFICES ASSUME Init PROVE TypeOK
  OBVIOUS
<1>1. ClientTypeOK(Labels)
  BY InitType DEF Init
<1>2. Zero \in Counters /\ Null \in Payloads
  BY CountBound DEF Zero, Counters, Payloads
<1>3. rdwr \in Counters /\ m_read \in Nat /\ m_written \in Nat
  BY <1>2, SMT DEF Init
<1>4. /\ m_array \in [Slots -> Payloads]
      /\ loc \in [Threads -> [rdwr : Counters, val : Payloads]]
  BY <1>2 DEF Init
<1> QED BY <1>1, <1>3, <1>4 DEF TypeOK

\* A compare-and-swap stores counters or reloads them.
LEMMA ClaimType ==
    ASSUME TypeOK, NEW t \in Threads, InCall(t), NEW new \in Counters,
           NEW won \in Labels, NEW loop \in Labels, Claim(t, new, won, loop)
    PROVE  /\ ClientTypeOK(Labels)' /\ rdwr' \in Counters
           /\ loc' \in [Threads -> [rdwr : Counters, val : Payloads]]
<1>0. /\ ClientTypeOK(Labels) /\ rdwr \in Counters
      /\ loc \in [Threads -> [rdwr : Counters, val : Payloads]]
  BY DEF TypeOK
<1>1. CASE Goto(t, won) /\ rdwr' = new /\ loc' = loc
  <2>1. ClientTypeOK(Labels)'
    BY <1>0, <1>1, GotoType
  <2> QED BY <2>1, <1>0, <1>1
<1>2. CASE /\ Retry(t, loop) /\ rdwr' = rdwr
           /\ loc' = [loc EXCEPT ![t].rdwr = rdwr]
  <2>1. ClientTypeOK(Labels)'
    BY <1>0, <1>2, RetryType
  <2> QED BY <2>1, <1>0, <1>2
<1> QED BY <1>1, <1>2, Zenon DEF Claim

\* A wait lets the thread go on, or stops it, or leaves it.
LEMMA AssumeType ==
    ASSUME TypeOK, NEW t \in Threads, InCall(t), NEW cond, NEW label \in Labels,
           Assume(t, cond, label)
    PROVE  ClientTypeOK(Labels)'
<1>0. ClientTypeOK(Labels)
  BY DEF TypeOK
<1>1. CASE Goto(t, label)
  BY <1>0, <1>1, GotoType
<1>2. CASE Goto(t, "blocked")
  BY <1>0, <1>2, StopType
<1>3. CASE UNCHANGED clientVars
  BY <1>0, <1>3 DEF clientVars, ClientTypeOK, InCall
<1> QED BY <1>1, <1>2, <1>3, Zenon DEF Assume

\* Every step of enq and deq keeps the types.
LEMMA TypeStep ==
    ASSUME TypeOK, NEW t \in Threads, Step(t)
    PROVE  TypeOK'
<1> USE DEF TypeOK
<1>0. /\ ClientTypeOK(Labels)
      /\ rdwr \in Counters /\ loc[t].rdwr \in Counters /\ loc[t].val \in Payloads
      /\ Payloads \subseteq Results
      /\ Ok \in Results /\ Empty \in Results
  BY SMT DEF Results
<1>s. ReadSlot(t) \in Slots /\ WriteSlot(t) \in Slots
  <2>1. loc[t].rdwr.rd \in Nat /\ loc[t].rdwr.wr \in Nat
    BY <1>0, SMT DEF Counters
  <2> QED BY <2>1, CountBound DEF ReadSlot, WriteSlot
<1>c. /\ [loc[t].rdwr EXCEPT !.wr = Count(@)] \in Counters
      /\ [loc[t].rdwr EXCEPT !.rd = Count(@)] \in Counters
  <2>1. loc[t].rdwr.rd \in Nat /\ loc[t].rdwr.wr \in Nat
    BY <1>0, SMT DEF Counters
  <2>2. Count(loc[t].rdwr.wr) \in 0 .. Word - 1 /\ Count(loc[t].rdwr.rd) \in 0 .. Word - 1
    BY <2>1, CountBound
  <2> QED BY <2>2, <1>0 DEF Counters
<1>l. /\ {"e_load", "e_loop", "e_cas", "e_wait", "e_val", "e_done"} \subseteq Labels
      /\ {"d_load", "d_loop", "d_cas", "d_wait", "d_val", "d_done"} \subseteq Labels
  BY Zenon DEF Labels, EnqLabels, DeqLabels
<1>1. CASE EnqCall(t)
  <2>1. ClientTypeOK(Labels)'
    BY <1>1, <1>0, <1>l, InvokeType DEF EnqCall
  <2> QED BY <2>1, <1>1 DEF EnqCall, shared
<1>2. CASE EnqLoad(t)
  <2>1. ClientTypeOK(Labels)'
    BY <1>2, <1>0, <1>l, GotoType DEF EnqLoad, LoadCounters, InCall
  <2> QED BY <2>1, <1>0, <1>2 DEF EnqLoad, LoadCounters, shared
<1>3. CASE EnqTest(t)
  <2>1. ClientTypeOK(Labels)'
    BY <1>3, <1>0, <1>l, GotoType DEF EnqTest, InCall
  <2> QED BY <2>1, <1>3 DEF EnqTest, shared
<1>4. CASE EnqClaim(t)
  BY <1>4, <1>0, <1>c, <1>l, ClaimType DEF EnqClaim, InCall
<1>5. CASE EnqWait(t)
  <2>1. ClientTypeOK(Labels)'
    BY <1>5, <1>l, AssumeType DEF EnqWait, InCall
  <2> QED BY <2>1, <1>5 DEF EnqWait, shared
<1>6. CASE EnqWriteValue(t)
  <2>1. ClientTypeOK(Labels)'
    BY <1>6, <1>0, <1>l, GotoType DEF EnqWriteValue, InCall
  <2>2. Current(t).val \in Payloads
    BY <1>6, <1>0, CurrentIsCall DEF EnqWriteValue, InCall, Calls
  <2> QED BY <2>1, <2>2, <1>s, <1>6 DEF EnqWriteValue
<1>7. CASE EnqDone(t)
  <2>1. ClientTypeOK(Labels)'
    BY <1>7, <1>0, ReturnType DEF EnqDone
  <2>2. m_written' \in Nat
    BY <1>7, SMT DEF EnqDone
  <2> QED BY <2>1, <2>2, <1>7 DEF EnqDone
<1>8. CASE DeqCall(t)
  <2>1. ClientTypeOK(Labels)'
    BY <1>8, <1>0, <1>l, InvokeType DEF DeqCall
  <2> QED BY <2>1, <1>8 DEF DeqCall, shared
<1>9. CASE DeqLoad(t)
  <2>1. ClientTypeOK(Labels)'
    BY <1>9, <1>0, <1>l, GotoType DEF DeqLoad, LoadCounters, InCall
  <2> QED BY <2>1, <1>0, <1>9 DEF DeqLoad, LoadCounters, shared
<1>10. CASE DeqTest(t)
  <2>1. ClientTypeOK(Labels)'
    BY <1>10, <1>0, <1>l, GotoType, ReturnType DEF DeqTest, InCall
  <2> QED BY <2>1, <1>10 DEF DeqTest, shared
<1>11. CASE DeqClaim(t)
  BY <1>11, <1>0, <1>c, <1>l, ClaimType DEF DeqClaim, InCall
<1>12. CASE DeqWait(t)
  <2>1. ClientTypeOK(Labels)'
    BY <1>12, <1>l, AssumeType DEF DeqWait, InCall
  <2> QED BY <2>1, <1>12 DEF DeqWait, shared
<1>13. CASE DeqReadValue(t)
  <2>1. ClientTypeOK(Labels)'
    BY <1>13, <1>0, <1>l, GotoType DEF DeqReadValue, InCall
  <2> QED BY <2>1, <1>0, <1>s, <1>13 DEF DeqReadValue, shared
<1>14. CASE DeqDone(t)
  <2>1. ClientTypeOK(Labels)'
    BY <1>14, <1>0, ReturnType DEF DeqDone
  <2>2. m_read' \in Nat
    BY <1>14, SMT DEF DeqDone
  <2> QED BY <2>1, <2>2, <1>14 DEF DeqDone
<1> QED BY <1>1, <1>2, <1>3, <1>4, <1>5, <1>6, <1>7, <1>8, <1>9, <1>10,
           <1>11, <1>12, <1>13, <1>14, Zenon DEF Step

-----------------------------------------------------------------------------
\* The invariant.

EnqClaimed == {"e_wait", "e_val", "e_done"}
DeqClaimed == {"d_wait", "d_val", "d_done"}

\* The calls in progress, and those of them whose wait is over.
EnqsOpen == {t \in Threads : InProgress(t, "enq")}
DeqsOpen == {t \in Threads : InProgress(t, "deq")}
EnqsPast == {t \in Threads : pc[t] \in {"e_val", "e_done"}}
DeqsPast == {t \in Threads : pc[t] \in {"d_val", "d_done"}}

\* m_rdwr when r reads and w writes have been claimed.
Words(r, w) == [rd |-> r % Word, wr |-> w % Word]


\* Its halves.
LEMMA HalvesAre == \A r, w : Words(r, w).rd = r % Word /\ Words(r, w).wr = w % Word
BY DEF Words

\* R reads and W writes have been claimed, and gr[t] and gw[t] when t claimed.
ClaimsAre(R, W, gr, gw) ==
    /\ rdwr = Words(R, W) /\ R <= W /\ W <= R + Size
    /\ InOrder(EnqsOpen, DeqsOpen, EnqsPast, DeqsPast, gw, gr, W, R)
    /\ m_written + Cardinality(EnqsOpen) = W
    /\ m_read + Cardinality(DeqsOpen) = R
    /\ \A t \in EnqsOpen : /\ loc[t].rdwr = Words(gr[t], gw[t])
                           /\ gr[t] <= gw[t] /\ gw[t] < gr[t] + Size
    /\ \A t \in DeqsOpen : /\ loc[t].rdwr = Words(gr[t], gw[t])
                           /\ gr[t] < gw[t] /\ gw[t] <= gr[t] + Size

\* A thread is where a call of its kind can be.
InOwnCall == InCallOf(EnqLabels, DeqLabels)

\* What a thread has tested, and that it has turns of its loop left.
Tested ==
    \A t \in Threads : /\ pc[t] = "e_cas" => ~IsFull(loc[t].rdwr)
                       /\ pc[t] = "d_cas" => ~IsEmpty(loc[t].rdwr)
HasTurns == MaxIter # 0 => \A t \in Threads : pc[t] \in Labels => cnt[t] < MaxIter

IInv == /\ TypeOK /\ InOwnCall /\ Tested /\ HasTurns
        /\ \E R, W, gr, gw : ClaimsAre(R, W, gr, gw)

-----------------------------------------------------------------------------
\* Which calls are in progress.

LEMMA PcType == TypeOK => /\ pc \in [Threads -> Labels \cup {"idle", "blocked", "assert"}]
                          /\ ip \in [Threads -> Nat] /\ cnt \in [Threads -> Nat]
                          /\ ret \in [Threads -> Results]
                          /\ loc \in [Threads -> [rdwr : Counters, val : Payloads]]
BY DEF TypeOK, ClientTypeOK

\* Where a thread is says whether its call is in progress, and of which kind.
LEMMA OpenAt ==
    ASSUME InOwnCall, NEW t \in Threads
    PROVE  /\ pc[t] \in EnqClaimed => t \in EnqsOpen /\ t \notin DeqsOpen
           /\ pc[t] \in DeqClaimed => t \in DeqsOpen /\ t \notin EnqsOpen
           /\ pc[t] \notin EnqClaimed \cup DeqClaimed /\ (pc[t] = "blocked" => ~(cnt[t] < MaxIter))
                  => t \notin EnqsOpen /\ t \notin DeqsOpen
           /\ t \in EnqsPast <=> pc[t] \in {"e_val", "e_done"}
           /\ t \in DeqsPast <=> pc[t] \in {"d_val", "d_done"}
<1>1. /\ pc[t] \in EnqClaimed => Current(t).kind = "enq"
      /\ pc[t] \in DeqClaimed => Current(t).kind = "deq"
  BY DEF InOwnCall, InCallOf, EnqLabels, DeqLabels, EnqClaimed, DeqClaimed
<1> QED BY <1>1 DEF EnqsOpen, DeqsOpen, EnqsPast, DeqsPast, InProgress, InCall,
                    EnqClaimed, DeqClaimed

\* The same after a step.
LEMMA OpenAfter ==
    ASSUME InOwnCall', NEW t \in Threads
    PROVE  /\ pc'[t] \in EnqClaimed => t \in EnqsOpen' /\ t \notin DeqsOpen'
           /\ pc'[t] \in DeqClaimed => t \in DeqsOpen' /\ t \notin EnqsOpen'
           /\ pc'[t] \notin EnqClaimed \cup DeqClaimed /\ (pc'[t] = "blocked" => ~(cnt'[t] < MaxIter))
                  => t \notin EnqsOpen' /\ t \notin DeqsOpen'
           /\ t \in EnqsPast' <=> pc'[t] \in {"e_val", "e_done"}
           /\ t \in DeqsPast' <=> pc'[t] \in {"d_val", "d_done"}
<1>1. /\ pc'[t] \in EnqClaimed => Current(t)'.kind = "enq"
      /\ pc'[t] \in DeqClaimed => Current(t)'.kind = "deq"
  BY DEF InOwnCall, InCallOf, EnqLabels, DeqLabels, EnqClaimed, DeqClaimed
<1> QED BY <1>1 DEF EnqsOpen, DeqsOpen, EnqsPast, DeqsPast, InProgress, InCall,
                    EnqClaimed, DeqClaimed

\* A step of t is a step of t alone.
OthersStay(t) ==
    \A u \in Threads : u # t => /\ ip'[u] = ip[u] /\ pc'[u] = pc[u] /\ cnt'[u] = cnt[u]
                                /\ ret'[u] = ret[u] /\ loc'[u] = loc[u]

LEMMA ClientOthers ==
    ASSUME TypeOK, NEW t \in Threads,
           \/ \E k, l : Invoke(t, k, l)
           \/ \E l : Goto(t, l)
           \/ \E r : Return(t, r)
           \/ \E l : Retry(t, l)
           \/ \E c, l : Assume(t, c, l)
    PROVE  \A u \in Threads : u # t => /\ ip'[u] = ip[u] /\ pc'[u] = pc[u]
                                       /\ cnt'[u] = cnt[u] /\ ret'[u] = ret[u]
<1>1. CASE \E k, l : Invoke(t, k, l)
  BY <1>1, PcType DEF Invoke
<1>2. ASSUME \E l : Goto(t, l)
      PROVE  \A u \in Threads : u # t => /\ ip'[u] = ip[u] /\ pc'[u] = pc[u]
                                       /\ cnt'[u] = cnt[u] /\ ret'[u] = ret[u]
  BY <1>2, PcType DEF Goto
<1>3. CASE \E r : Return(t, r)
  BY <1>3, PcType DEF Return
<1>4. CASE \E l : Retry(t, l)
  <2>1. PICK l : Retry(t, l)
    BY <1>4
  <2>2. PICK m : pc' = [pc EXCEPT ![t] = m]
    BY <2>1, RetryMoves
  <2>3. (cnt' = cnt \/ cnt' = [cnt EXCEPT ![t] = cnt[t] + 1]) /\ ip' = ip /\ ret' = ret
    BY <2>1, Zenon DEF Retry
  <2> QED BY <2>2, <2>3, PcType
<1>5. CASE \E c, l : Assume(t, c, l)
  <2>1. CASE UNCHANGED clientVars
    BY <2>1 DEF clientVars
  <2>2. CASE \E l : Goto(t, l)
    BY <1>2, <2>2
  <2> QED BY <1>5, <2>1, <2>2, Zenon DEF Assume
<1> QED BY <1>1, <1>2, <1>3, <1>4, <1>5

LEMMA StepOthers ==
    ASSUME TypeOK, NEW t \in Threads, Step(t)
    PROVE  OthersStay(t)
<1>1. /\ \/ \E k, l : Invoke(t, k, l)
         \/ \E l : Goto(t, l)
         \/ \E r : Return(t, r)
         \/ \E l : Retry(t, l)
         \/ \E c, l : Assume(t, c, l)
      /\ \/ loc' = loc
         \/ \E x : loc' = [loc EXCEPT ![t].rdwr = x]
         \/ \E x : loc' = [loc EXCEPT ![t].val = x]
  BY Zenon DEF Step, EnqCall, EnqLoad, EnqTest, EnqClaim, EnqWait, EnqWriteValue, EnqDone,
         DeqCall, DeqLoad, DeqTest, DeqClaim, DeqWait, DeqReadValue, DeqDone,
         LoadCounters, Claim, shared
<1>2. \A u \in Threads : u # t => loc'[u] = loc[u]
  BY <1>1, PcType
<1> QED BY <1>1, <1>2, ClientOthers, Zenon DEF OthersStay

\* A step of t can only add t to a set of calls, or take it out.
LEMMA OpenSets ==
    ASSUME NEW t \in Threads, OthersStay(t)
    PROVE  /\ EnqsOpen' \in {EnqsOpen \cup {t}, EnqsOpen \ {t}}
           /\ DeqsOpen' \in {DeqsOpen \cup {t}, DeqsOpen \ {t}}
           /\ EnqsPast' \in {EnqsPast \cup {t}, EnqsPast \ {t}}
           /\ DeqsPast' \in {DeqsPast \cup {t}, DeqsPast \ {t}}
<1>1. ASSUME NEW u \in Threads, u # t
      PROVE  /\ u \in EnqsOpen' <=> u \in EnqsOpen
             /\ u \in DeqsOpen' <=> u \in DeqsOpen
             /\ u \in EnqsPast' <=> u \in EnqsPast
             /\ u \in DeqsPast' <=> u \in DeqsPast
  <2>1. ip'[u] = ip[u] /\ pc'[u] = pc[u] /\ cnt'[u] = cnt[u]
    BY <1>1, Zenon DEF OthersStay
  <2> QED BY <2>1 DEF EnqsOpen, DeqsOpen, EnqsPast, DeqsPast, InProgress, InCall, Current
<1>2. ASSUME NEW S, NEW T, S \subseteq Threads, T \subseteq Threads,
             \A u \in Threads : u # t => (u \in T <=> u \in S)
      PROVE  T \in {S \cup {t}, S \ {t}}
  BY <1>2
<1>3. /\ EnqsOpen \subseteq Threads /\ EnqsOpen' \subseteq Threads
      /\ DeqsOpen \subseteq Threads /\ DeqsOpen' \subseteq Threads
      /\ EnqsPast \subseteq Threads /\ EnqsPast' \subseteq Threads
      /\ DeqsPast \subseteq Threads /\ DeqsPast' \subseteq Threads
  BY DEF EnqsOpen, DeqsOpen, EnqsPast, DeqsPast
<1> QED BY <1>1, <1>2, <1>3, Zenon

\* A step after which the same calls are in progress, and wait or do not.
LEMMA ClaimsKept ==
    ASSUME NEW R, NEW W, NEW gr, NEW gw, ClaimsAre(R, W, gr, gw),
           NEW t \in Threads, OthersStay(t),
           EnqsOpen' = EnqsOpen, DeqsOpen' = DeqsOpen,
           EnqsPast' = EnqsPast, DeqsPast' = DeqsPast,
           UNCHANGED <<rdwr, m_read, m_written>>,
           t \in EnqsOpen \cup DeqsOpen => loc'[t].rdwr = loc[t].rdwr
    PROVE  ClaimsAre(R, W, gr, gw)'
<1>1. \A u \in EnqsOpen \cup DeqsOpen : loc'[u].rdwr = loc[u].rdwr
  BY Zenon DEF OthersStay, EnqsOpen, DeqsOpen
<1> QED BY <1>1, Zenon DEF ClaimsAre, Words

\* The calls in progress are fewer than a half of m_rdwr can count.
LEMMA OpenFew ==
    ASSUME FewThreads
    PROVE  /\ IsFiniteSet(EnqsOpen) /\ Cardinality(EnqsOpen) \in Nat
           /\ IsFiniteSet(DeqsOpen) /\ Cardinality(DeqsOpen) \in Nat
           /\ Cardinality(EnqsOpen) < Word /\ Cardinality(DeqsOpen) < Word
           /\ EnqsOpen \cap DeqsOpen = {} =>
                  Cardinality(EnqsOpen) + Cardinality(DeqsOpen) < Word
<1>0. EnqsOpen \subseteq Threads /\ DeqsOpen \subseteq Threads
  BY DEF EnqsOpen, DeqsOpen
<1>1. /\ IsFiniteSet(Threads) /\ Cardinality(Threads) \in Nat
      /\ Cardinality(Threads) < Word /\ Word \in Nat
  BY FS_CardinalityType, SizeAssumption, WordAssumption DEF FewThreads
<1>2. /\ IsFiniteSet(EnqsOpen) /\ Cardinality(EnqsOpen) <= Cardinality(Threads)
      /\ IsFiniteSet(DeqsOpen) /\ Cardinality(DeqsOpen) <= Cardinality(Threads)
  BY <1>0, <1>1, FS_Subset
<1>3. Cardinality(EnqsOpen) \in Nat /\ Cardinality(DeqsOpen) \in Nat
  BY <1>2, FS_CardinalityType
<1>4. ASSUME EnqsOpen \cap DeqsOpen = {}
      PROVE  Cardinality(EnqsOpen) + Cardinality(DeqsOpen) < Word
  <2>0. Cardinality(EnqsOpen \cup DeqsOpen)
            = Cardinality(EnqsOpen) + Cardinality(DeqsOpen) - Cardinality(EnqsOpen \cap DeqsOpen)
    BY <1>2, FS_Union, Zenon
  <2>1. Cardinality(EnqsOpen \cup DeqsOpen)
            = Cardinality(EnqsOpen) + Cardinality(DeqsOpen) - Cardinality({})
    BY <2>0, <1>4, Zenon
  <2>2. Cardinality({}) = 0
    BY FS_EmptySet
  <2>3. Cardinality(EnqsOpen \cup DeqsOpen) <= Cardinality(Threads)
    <3>1. EnqsOpen \cup DeqsOpen \in SUBSET Threads
      BY <1>0
    <3> QED BY <3>1, <1>1, FS_Subset, Zenon
  <2> QED BY <2>1, <2>2, <2>3, <1>1, <1>3, SMT
<1> QED BY <1>1, <1>2, <1>3, <1>4, SMT

\* What a wait compares says whether it is over.
LEMMA WaitsTell ==
    ASSUME FewThreads, NEW R, NEW W, NEW gr, NEW gw, ClaimsAre(R, W, gr, gw),
           m_read \in Nat, m_written \in Nat
    PROVE  /\ \A t \in EnqsOpen : ReadsDone(t) <=> \A d \in DeqsOpen : gw[t] < gw[d]
           /\ \A t \in DeqsOpen : WritesDone(t) <=> \A e \in EnqsOpen : gr[t] < gr[e]
<1>0. /\ InOrder(EnqsOpen, DeqsOpen, EnqsPast, DeqsPast, gw, gr, W, R)
      /\ m_written + Cardinality(EnqsOpen) = W
      /\ m_read + Cardinality(DeqsOpen) = R
      /\ \A t \in EnqsOpen : loc[t].rdwr = Words(gr[t], gw[t])
      /\ \A t \in DeqsOpen : loc[t].rdwr = Words(gr[t], gw[t])
  BY Zenon DEF ClaimsAre
<1>1. InOrder(DeqsOpen, EnqsOpen, DeqsPast, EnqsPast, gr, gw, R, W)
  BY <1>0, OrderSymmetric
<1>2. Word \in Nat \ {0}
  BY SizeAssumption, WordAssumption, SMT
<1>3. ASSUME NEW t \in EnqsOpen
      PROVE  ReadsDone(t) <=> \A d \in DeqsOpen : gw[t] < gw[d]
  <2>1. m_read % Word = gr[t] % Word <=> \A d \in DeqsOpen : gw[t] < gw[d]
    BY <1>0, <1>2, OpenFew, WaitOver
  <2>2. loc[t].rdwr.rd = gr[t] % Word
    BY <1>0, HalvesAre, Zenon
  <2> QED BY <2>1, <2>2, Zenon DEF ReadsDone
<1>4. ASSUME NEW t \in DeqsOpen
      PROVE  WritesDone(t) <=> \A e \in EnqsOpen : gr[t] < gr[e]
  <2>1. m_written % Word = gw[t] % Word <=> \A e \in EnqsOpen : gr[t] < gr[e]
    BY <1>0, <1>1, <1>2, OpenFew, WaitOver
  <2>2. loc[t].rdwr.wr = gw[t] % Word
    <3>1. loc[t].rdwr = Words(gr[t], gw[t])
      BY <1>0, Zenon
    <3> QED BY <3>1, HalvesAre
  <2> QED BY <2>1, <2>2, Zenon DEF WritesDone
<1> QED BY <1>3, <1>4

-----------------------------------------------------------------------------
\* The simple parts of the invariant.

\* Nothing has been claimed, and nobody has begun.
LEMMA InitInv == Init => IInv
<1> SUFFICES ASSUME Init PROVE IInv
  OBVIOUS
<1>1. TypeOK
  BY TypeInit
<1>2. \A t \in Threads : pc[t] = "idle"
  BY DEF Init, ClientInit
<1>3. InOwnCall /\ Tested /\ HasTurns
  BY <1>2 DEF InOwnCall, InCallOf, Tested, HasTurns, Labels, EnqLabels, DeqLabels
<1>4. EnqsOpen = {} /\ DeqsOpen = {} /\ EnqsPast = {} /\ DeqsPast = {}
  BY <1>2 DEF EnqsOpen, DeqsOpen, EnqsPast, DeqsPast, InProgress, InCall
<1>5. \E R, W, gr, gw : ClaimsAre(R, W, gr, gw)
  <2> DEFINE g == [t \in Threads |-> 0]
  <2>1. Side({}, {}, {}, g, g, 0, 0)
    BY DEF Side
  <2>2. InOrder(EnqsOpen, DeqsOpen, EnqsPast, DeqsPast, g, g, 0, 0)
    BY <1>4, <2>1 DEF InOrder
  <2>3. Cardinality(EnqsOpen) = 0 /\ Cardinality(DeqsOpen) = 0
    BY <1>4, FS_EmptySet
  <2>4. /\ rdwr = Words(0, 0) /\ m_written + 0 = 0 /\ m_read + 0 = 0
        /\ 0 <= 0 /\ 0 <= 0 + Size
    BY SizeAssumption, WordAssumption, SMT DEF Init, Zero, Words
  <2>5. ClaimsAre(0, 0, g, g)
    BY <1>4, <2>2, <2>3, <2>4 DEF ClaimsAre
  <2> QED BY <2>5
<1> QED BY <1>1, <1>3, <1>5 DEF IInv

LEMMA CallStep ==
    ASSUME TypeOK, InOwnCall, NEW t \in Threads, Step(t)
    PROVE  InOwnCall'
<1>0. ClientTypeOK(Labels) /\ InCallOf(EnqLabels, DeqLabels)
  BY DEF TypeOK, InOwnCall
<1>1. CASE EnqCall(t)
  <2>1. Invoke(t, "enq", "e_load") /\ "e_load" \notin DeqLabels
    BY <1>1 DEF EnqCall, DeqLabels
  <2> QED BY <2>1, <1>0, CallBegins DEF InOwnCall
<1>2. CASE DeqCall(t)
  <2>1. Invoke(t, "deq", "d_load") /\ "d_load" \notin EnqLabels
    BY <1>2 DEF DeqCall, EnqLabels
  <2> QED BY <2>1, <1>0, CallBegins DEF InOwnCall
<1>3. ASSUME NEW l, pc' = [pc EXCEPT ![t] = l], ip' = ip,
             l \in EnqLabels => pc[t] \in EnqLabels, l \in DeqLabels => pc[t] \in DeqLabels
      PROVE  InOwnCall'
  BY <1>0, <1>3, CallGoesOn DEF InOwnCall
<1>4. CASE \/ EnqLoad(t) \/ EnqTest(t) \/ EnqWriteValue(t) \/ EnqDone(t)
           \/ DeqLoad(t) \/ DeqTest(t) \/ DeqReadValue(t) \/ DeqDone(t)
  <2>1. \E l : /\ pc' = [pc EXCEPT ![t] = l] /\ ip' = ip
               /\ l \in EnqLabels => pc[t] \in EnqLabels
               /\ l \in DeqLabels => pc[t] \in DeqLabels
    BY <1>4 DEF EnqLoad, EnqTest, EnqWriteValue, EnqDone, DeqLoad, DeqTest,
                DeqReadValue, DeqDone, LoadCounters, Goto, Return, EnqLabels, DeqLabels
  <2> QED BY <2>1, <1>3
<1>5. CASE EnqClaim(t) \/ DeqClaim(t)
  <2>1. PICK w, r, x : /\ Claim(t, x, w, r)
                      /\ \/ pc[t] = "e_cas" /\ w = "e_wait" /\ r = "e_loop"
                         \/ pc[t] = "d_cas" /\ w = "d_wait" /\ r = "d_loop"
    BY <1>5, Zenon DEF EnqClaim, DeqClaim
  <2>2. CASE Goto(t, w)
    BY <2>1, <2>2, <1>3 DEF Goto, EnqLabels, DeqLabels
  <2>3. CASE Retry(t, r)
    <3>1. PICK l \in {r, "blocked"} : pc' = [pc EXCEPT ![t] = l]
      BY <2>3, RetryMoves
    <3>2. ip' = ip
      BY <2>3 DEF Retry
    <3> QED BY <3>1, <3>2, <2>1, <1>3 DEF EnqLabels, DeqLabels
  <2> QED BY <2>1, <2>2, <2>3, Zenon DEF Claim
<1>6. CASE EnqWait(t) \/ DeqWait(t)
  <2>1. \/ UNCHANGED clientVars
        \/ \E l : /\ Goto(t, l)
                  /\ l \in EnqLabels => pc[t] \in EnqLabels
                  /\ l \in DeqLabels => pc[t] \in DeqLabels
    <3>1. /\ "blocked" \notin EnqLabels \cup DeqLabels
          /\ "e_wait" \in EnqLabels /\ "d_wait" \in DeqLabels
          /\ "e_val" \notin DeqLabels /\ "d_val" \notin EnqLabels
      BY DEF EnqLabels, DeqLabels
    <3> QED BY <1>6, <3>1, Zenon DEF EnqWait, DeqWait, Assume
  <2>2. CASE UNCHANGED clientVars
    BY <2>2 DEF clientVars, InOwnCall, InCallOf, Current
  <2> QED BY <2>1, <2>2, <1>3, Zenon DEF Goto
<1> QED BY <1>1, <1>2, <1>4, <1>5, <1>6, Zenon DEF Step

\* A thread that goes on has not used up the turns of its loop.
LEMMA TurnsStep ==
    ASSUME TypeOK, HasTurns, NEW t \in Threads, Step(t)
    PROVE  HasTurns'
<1> SUFFICES ASSUME MaxIter # 0 PROVE \A u \in Threads : pc'[u] \in Labels => cnt'[u] < MaxIter
  BY DEF HasTurns
<1>1. \A u \in Threads : u # t => (pc'[u] \in Labels => cnt'[u] < MaxIter)
  BY StepOthers DEF OthersStay, HasTurns
<1>2. ASSUME cnt' = cnt, pc[t] \in Labels
      PROVE  pc'[t] \in Labels => cnt'[t] < MaxIter
  BY <1>2 DEF HasTurns
<1>3. CASE EnqCall(t) \/ DeqCall(t)
  <2>1. cnt' = [cnt EXCEPT ![t] = 1]
    BY <1>3, Zenon DEF EnqCall, DeqCall, Invoke
  <2>2. cnt'[t] = 1
    BY <2>1, PcType
  <2> QED BY <2>2, <1>1, MaxIterAssumption, TurnsAssumption, SMT
<1>4. CASE EnqClaim(t) \/ DeqClaim(t)
  <2>1. \/ \E l : Goto(t, l)
        \/ \E l \in {"e_loop", "d_loop"} : Retry(t, l)
    BY <1>4, Zenon DEF EnqClaim, DeqClaim, Claim
  <2>2. pc[t] \in Labels
    BY <1>4 DEF EnqClaim, DeqClaim, Labels, EnqLabels, DeqLabels
  <2>3. CASE \E l : Goto(t, l)
    BY <2>2, <2>3, <1>1, <1>2, Zenon DEF Goto
  <2>4. CASE \E l : Retry(t, l)
    <3>1. PICK l : Retry(t, l)
      BY <2>4
    <3>2. /\ cnt' = [cnt EXCEPT ![t] = cnt[t] + 1]
          /\ pc' = [pc EXCEPT ![t] = IF cnt[t] + 1 < MaxIter THEN l ELSE "blocked"]
      BY <3>1, Zenon DEF Retry
    <3>3. cnt'[t] = cnt[t] + 1 /\ (~(cnt[t] + 1 < MaxIter) => pc'[t] = "blocked")
      BY <3>2, PcType
    <3>4. "blocked" \notin Labels
      BY DEF Labels, EnqLabels, DeqLabels
    <3> QED BY <3>3, <3>4, <1>1
  <2> QED BY <2>1, <2>3, <2>4, Zenon
<1>5. CASE ~(EnqCall(t) \/ DeqCall(t) \/ EnqClaim(t) \/ DeqClaim(t))
  <2>1. cnt' = cnt
    BY <1>5, Zenon DEF Step, EnqLoad, EnqTest, EnqWait, EnqWriteValue, EnqDone,
         DeqLoad, DeqTest, DeqWait, DeqReadValue, DeqDone,
         LoadCounters, Assume, Goto, Return, clientVars
  <2>2. pc[t] \in Labels
    BY <1>5 DEF Step, EnqLoad, EnqTest, EnqWait, EnqWriteValue, EnqDone,
         DeqLoad, DeqTest, DeqWait, DeqReadValue, DeqDone, LoadCounters,
         Labels, EnqLabels, DeqLabels
  <2> QED BY <2>1, <2>2, <1>1, <1>2
<1> QED BY <1>3, <1>4, <1>5, Zenon

\* Only a test leads to a compare-and-swap.
LEMMA TestedStep ==
    ASSUME TypeOK, Tested, NEW t \in Threads, Step(t)
    PROVE  Tested'
<1>1. \A u \in Threads : u # t => pc'[u] = pc[u] /\ loc'[u] = loc[u]
  BY StepOthers DEF OthersStay
<1>2. ASSUME pc'[t] \in {"e_cas", "d_cas"}
      PROVE  /\ loc' = loc
             /\ pc'[t] = "e_cas" => ~IsFull(loc[t].rdwr)
             /\ pc'[t] = "d_cas" => ~IsEmpty(loc[t].rdwr)
  <2>1. CASE EnqTest(t) \/ DeqTest(t)
    BY <2>1, <1>2, PcType DEF EnqTest, DeqTest, Goto, Return
  <2>2. CASE EnqClaim(t) \/ DeqClaim(t)
    <3>1. CASE \E l \in {"e_wait", "d_wait"} : Goto(t, l)
      BY <3>1, <1>2, PcType DEF Goto
    <3>2. CASE \E l \in {"e_loop", "d_loop"} : Retry(t, l)
      <4>1. PICK l \in {"e_loop", "d_loop", "blocked"} : pc' = [pc EXCEPT ![t] = l]
        BY <3>2, RetryMoves
      <4> QED BY <4>1, <1>2, PcType
    <3> QED BY <2>2, <3>1, <3>2, Zenon DEF EnqClaim, DeqClaim, Claim
  <2>3. CASE EnqWait(t) \/ DeqWait(t)
    <3>1. \/ pc[t] \in {"e_wait", "d_wait"} /\ pc' = pc
          \/ \E l \in {"e_val", "d_val", "blocked"} : pc' = [pc EXCEPT ![t] = l]
      BY <2>3, Zenon DEF EnqWait, DeqWait, Assume, Goto, clientVars
    <3> QED BY <3>1, <1>2, PcType
  <2>4. CASE EnqCall(t) \/ DeqCall(t)
    BY <2>4, <1>2, PcType DEF EnqCall, DeqCall, Invoke
  <2>5. CASE EnqLoad(t) \/ EnqWriteValue(t) \/ EnqDone(t) \/ DeqLoad(t)
             \/ DeqReadValue(t) \/ DeqDone(t)
    BY <2>5, <1>2, PcType DEF EnqLoad, EnqWriteValue, EnqDone, DeqLoad, DeqReadValue,
         DeqDone, LoadCounters, Goto, Return
  <2> QED BY <2>1, <2>2, <2>3, <2>4, <2>5, Zenon DEF Step
<1> QED BY <1>1, <1>2, Zenon DEF Tested

-----------------------------------------------------------------------------
\* The counts.

LEMMA CountsAre ==
    ASSUME NEW R, NEW W, NEW gr, NEW gw, ClaimsAre(R, W, gr, gw)
    PROVE  /\ R \in Nat /\ W \in Nat /\ R <= W /\ W <= R + Size
           /\ \A t \in EnqsOpen \cup DeqsOpen :
                  gr[t] \in Nat /\ gw[t] \in Nat /\ gr[t] <= R /\ gw[t] <= W
           /\ EnqsOpen \cap DeqsOpen = {}
           /\ EnqsPast \subseteq EnqsOpen /\ DeqsPast \subseteq DeqsOpen
<1>1. InOrder(EnqsOpen, DeqsOpen, EnqsPast, DeqsPast, gw, gr, W, R)
  BY Zenon DEF ClaimsAre
<1>2. /\ R \in Nat /\ W \in Nat /\ EnqsOpen \cap DeqsOpen = {}
      /\ EnqsPast \subseteq EnqsOpen /\ DeqsPast \subseteq DeqsOpen
      /\ \A t \in EnqsOpen : gr[t] \in Nat /\ gw[t] \in Nat /\ gr[t] <= R /\ gw[t] < W
      /\ \A t \in DeqsOpen : gr[t] \in Nat /\ gw[t] \in Nat /\ gr[t] < R /\ gw[t] <= W
  BY <1>1, Zenon DEF InOrder, Side
<1>3. \A t \in EnqsOpen \cup DeqsOpen : gr[t] <= R /\ gw[t] <= W
  BY <1>2, SMT
<1>4. R <= W /\ W <= R + Size
  BY DEF ClaimsAre
<1> QED BY <1>2, <1>3, <1>4

\* The halves of m_rdwr when one more has been claimed, and what they say of
\* a ring that is not full or not empty.
LEMMA HalvesCount ==
    ASSUME NEW R \in Nat, NEW W \in Nat, R <= W, W <= R + Size
    PROVE  /\ [Words(R, W) EXCEPT !.wr = Count(@)] = Words(R, W + 1)
           /\ [Words(R, W) EXCEPT !.rd = Count(@)] = Words(R + 1, W)
           /\ ~IsFull(Words(R, W)) => W < R + Size
           /\ IsEmpty(Words(R, W)) <=> R = W
<1>0. Word \in Nat \ {0} /\ Size \in Nat /\ Size < Word
  BY SizeAssumption, WordAssumption, SMT
<1>1. ASSUME NEW n \in Nat PROVE Count(n % Word) = (n + 1) % Word
  BY <1>0, ModAdd DEF Count
<1>2. ((R % Word) + Size) % Word = (R + Size) % Word
  BY <1>0, ModAdd
<1>3. /\ [Words(R, W) EXCEPT !.wr = Count(@)] = Words(R, W + 1)
      /\ [Words(R, W) EXCEPT !.rd = Count(@)] = Words(R + 1, W)
  BY <1>1 DEF Words
<1>4. W = R + Size => IsFull(Words(R, W))
  BY <1>2, HalvesAre DEF IsFull
<1>5. IsEmpty(Words(R, W)) <=> W % Word = R % Word
  BY HalvesAre DEF IsEmpty
<1>6. R # W => R < W /\ W < R + Word
  BY <1>0, SMT
<1>7. W % Word = R % Word => R = W
  BY <1>0, <1>6, ModInj, Zenon
<1>8. W # R + Size => W < R + Size
  BY <1>0, SMT
<1> QED BY <1>3, <1>4, <1>5, <1>7, <1>8, Zenon

\* A step inside or outside the part of a call between its claim and its end.
LEMMA QuietStep ==
    ASSUME InOwnCall, InOwnCall', NEW t \in Threads, OthersStay(t),
           NEW R, NEW W, NEW gr, NEW gw, ClaimsAre(R, W, gr, gw),
           UNCHANGED <<rdwr, m_read, m_written>>,
           pc[t] \notin EnqClaimed \cup DeqClaimed, pc[t] # "blocked",
           pc'[t] \notin EnqClaimed \cup DeqClaimed,
           pc'[t] = "blocked" => ~(cnt'[t] < MaxIter)
    PROVE  ClaimsAre(R, W, gr, gw)'
<1>1. /\ t \notin EnqsOpen /\ t \notin EnqsOpen' /\ t \notin DeqsOpen /\ t \notin DeqsOpen'
      /\ t \notin EnqsPast /\ t \notin EnqsPast' /\ t \notin DeqsPast /\ t \notin DeqsPast'
  BY OpenAt, OpenAfter DEF EnqClaimed, DeqClaimed
<1>2. /\ EnqsOpen' = EnqsOpen /\ DeqsOpen' = DeqsOpen
      /\ EnqsPast' = EnqsPast /\ DeqsPast' = DeqsPast
  BY <1>1, OpenSets
<1> QED BY <1>1, <1>2, ClaimsKept

\* The payload is written or read, or a wait goes on or is abandoned.
LEMMA StaysOpen ==
    ASSUME InOwnCall, InOwnCall', NEW t \in Threads, OthersStay(t),
           NEW R, NEW W, NEW gr, NEW gw, ClaimsAre(R, W, gr, gw),
           UNCHANGED <<rdwr, m_read, m_written>>, loc'[t].rdwr = loc[t].rdwr,
           \/ pc[t] = "e_val" /\ pc'[t] = "e_done"
           \/ pc[t] = "d_val" /\ pc'[t] = "d_done"
           \/ pc[t] = "e_wait" /\ pc'[t] = "e_wait"
           \/ pc[t] = "d_wait" /\ pc'[t] = "d_wait"
           \/ /\ pc[t] \in {"e_wait", "d_wait"} /\ pc'[t] = "blocked"
              /\ cnt'[t] = cnt[t] /\ cnt[t] < MaxIter /\ ip'[t] = ip[t]
    PROVE  ClaimsAre(R, W, gr, gw)'
<1>1. /\ t \in EnqsOpen' <=> t \in EnqsOpen
      /\ t \in DeqsOpen' <=> t \in DeqsOpen
  <2>1. CASE pc'[t] # "blocked"
    BY <2>1, OpenAt, OpenAfter DEF EnqClaimed, DeqClaimed
  <2>2. CASE pc'[t] = "blocked"
    <3>1. /\ pc[t] \in {"e_wait", "d_wait"}
          /\ cnt'[t] < MaxIter /\ Current(t)' = Current(t)
      BY <2>2, Zenon DEF Current
    <3> QED BY <2>2, <3>1 DEF EnqsOpen, DeqsOpen, InProgress, InCall
  <2> QED BY <2>1, <2>2
<1>2. /\ t \in EnqsPast' <=> t \in EnqsPast
      /\ t \in DeqsPast' <=> t \in DeqsPast
  BY OpenAt, OpenAfter
<1>3. ASSUME NEW S, NEW T, T \in {S \cup {t}, S \ {t}}, t \in T <=> t \in S
      PROVE  T = S
  BY <1>3
<1>4. /\ EnqsOpen' = EnqsOpen /\ DeqsOpen' = DeqsOpen
      /\ EnqsPast' = EnqsPast /\ DeqsPast' = DeqsPast
  BY <1>1, <1>2, <1>3, OpenSets
<1> QED BY <1>4, ClaimsKept

\* A wait is over.
LEMMA WaitPassed ==
    ASSUME FewThreads, TypeOK, InOwnCall, InOwnCall', NEW t \in Threads, OthersStay(t),
           NEW R, NEW W, NEW gr, NEW gw, ClaimsAre(R, W, gr, gw),
           UNCHANGED <<rdwr, m_read, m_written, loc>>,
           \/ pc[t] = "e_wait" /\ pc'[t] = "e_val" /\ ReadsDone(t)
           \/ pc[t] = "d_wait" /\ pc'[t] = "d_val" /\ WritesDone(t)
    PROVE  ClaimsAre(R, W, gr, gw)'
<1>0. /\ InOrder(EnqsOpen, DeqsOpen, EnqsPast, DeqsPast, gw, gr, W, R)
      /\ InOrder(DeqsOpen, EnqsOpen, DeqsPast, EnqsPast, gr, gw, R, W)
      /\ m_read \in Nat /\ m_written \in Nat
  BY OrderSymmetric, Zenon DEF ClaimsAre, TypeOK
<1>1. CASE pc[t] = "e_wait" /\ pc'[t] = "e_val" /\ ReadsDone(t)
  <2>1. /\ t \in EnqsOpen /\ t \in EnqsOpen' /\ t \notin DeqsOpen /\ t \notin DeqsOpen'
        /\ t \in EnqsPast' /\ t \notin DeqsPast /\ t \notin DeqsPast'
    BY <1>1, OpenAt, OpenAfter DEF EnqClaimed, DeqClaimed
  <2>2. /\ EnqsOpen' = EnqsOpen /\ DeqsOpen' = DeqsOpen
        /\ EnqsPast' = EnqsPast \cup {t} /\ DeqsPast' = DeqsPast
    BY <2>1, OpenSets
  <2>3. \A d \in DeqsOpen : gw[t] < gw[d]
    BY <1>0, <1>1, <2>1, WaitsTell
  <2>4. InOrder(EnqsOpen, DeqsOpen, EnqsPast \cup {t}, DeqsPast, gw, gr, W, R)
    BY <1>0, <2>1, <2>3, OrderWaited
  <2> QED BY <2>2, <2>4, Zenon DEF ClaimsAre, Words
<1>2. CASE pc[t] = "d_wait" /\ pc'[t] = "d_val" /\ WritesDone(t)
  <2>1. /\ t \in DeqsOpen /\ t \in DeqsOpen' /\ t \notin EnqsOpen /\ t \notin EnqsOpen'
        /\ t \in DeqsPast' /\ t \notin EnqsPast /\ t \notin EnqsPast'
    BY <1>2, OpenAt, OpenAfter DEF EnqClaimed, DeqClaimed
  <2>2. /\ EnqsOpen' = EnqsOpen /\ DeqsOpen' = DeqsOpen
        /\ DeqsPast' = DeqsPast \cup {t} /\ EnqsPast' = EnqsPast
    BY <2>1, OpenSets
  <2>3. \A e \in EnqsOpen : gr[t] < gr[e]
    BY <1>0, <1>2, <2>1, WaitsTell
  <2>4. InOrder(DeqsOpen, EnqsOpen, DeqsPast \cup {t}, EnqsPast, gr, gw, R, W)
    BY <1>0, <2>1, <2>3, OrderWaited
  <2>5. InOrder(EnqsOpen, DeqsOpen, EnqsPast, DeqsPast \cup {t}, gw, gr, W, R)
    BY <2>4, OrderSymmetric
  <2> QED BY <2>2, <2>5, Zenon DEF ClaimsAre, Words
<1> QED BY <1>1, <1>2

\* A call counts itself done.
LEMMA CallDone ==
    ASSUME FewThreads, TypeOK, InOwnCall, InOwnCall', NEW t \in Threads, OthersStay(t),
           NEW R, NEW W, NEW gr, NEW gw, ClaimsAre(R, W, gr, gw),
           UNCHANGED <<rdwr, loc>>, pc'[t] = "idle",
           \/ pc[t] = "e_done" /\ m_written' = m_written + 1 /\ m_read' = m_read
           \/ pc[t] = "d_done" /\ m_read' = m_read + 1 /\ m_written' = m_written
    PROVE  ClaimsAre(R, W, gr, gw)'
<1>0. /\ InOrder(EnqsOpen, DeqsOpen, EnqsPast, DeqsPast, gw, gr, W, R)
      /\ InOrder(DeqsOpen, EnqsOpen, DeqsPast, EnqsPast, gr, gw, R, W)
      /\ m_read \in Nat /\ m_written \in Nat
      /\ IsFiniteSet(EnqsOpen) /\ IsFiniteSet(DeqsOpen)
      /\ Cardinality(EnqsOpen) \in Nat /\ Cardinality(DeqsOpen) \in Nat
      /\ m_written + Cardinality(EnqsOpen) = W /\ m_read + Cardinality(DeqsOpen) = R
  BY OrderSymmetric, OpenFew, Zenon DEF ClaimsAre, TypeOK
<1>d. ASSUME NEW S, IsFiniteSet(S), Cardinality(S) \in Nat, t \in S,
             NEW n \in Nat, NEW C, n + Cardinality(S) = C
      PROVE  n + 1 + Cardinality(S \ {t}) = C
  <2>1. Cardinality(S \ {t}) = Cardinality(S) - 1
    BY <1>d, FS_RemoveElement, Zenon
  <2> QED BY <2>1, <1>d, SMT
<1>1. CASE pc[t] = "e_done" /\ m_written' = m_written + 1 /\ m_read' = m_read
  <2>1. /\ t \in EnqsOpen /\ t \notin EnqsOpen' /\ t \notin DeqsOpen /\ t \notin DeqsOpen'
        /\ t \in EnqsPast /\ t \notin EnqsPast' /\ t \notin DeqsPast /\ t \notin DeqsPast'
    BY <1>1, OpenAt, OpenAfter DEF EnqClaimed, DeqClaimed
  <2>2. /\ EnqsOpen' = EnqsOpen \ {t} /\ DeqsOpen' = DeqsOpen
        /\ EnqsPast' = EnqsPast \ {t} /\ DeqsPast' = DeqsPast
    BY <2>1, OpenSets
  <2>3. InOrder(EnqsOpen \ {t}, DeqsOpen, EnqsPast \ {t}, DeqsPast, gw, gr, W, R)
    BY <1>0, <2>1, OrderDone
  <2>4. m_written + 1 + Cardinality(EnqsOpen \ {t}) = W
    BY <1>0, <1>d, <2>1, Zenon
  <2>5. \A u \in EnqsOpen \ {t} : u \in EnqsOpen
    OBVIOUS
  <2> QED BY <1>1, <2>2, <2>3, <2>4, <2>5, Zenon DEF ClaimsAre, Words
<1>2. CASE pc[t] = "d_done" /\ m_read' = m_read + 1 /\ m_written' = m_written
  <2>1. /\ t \in DeqsOpen /\ t \notin DeqsOpen' /\ t \notin EnqsOpen /\ t \notin EnqsOpen'
        /\ t \in DeqsPast /\ t \notin DeqsPast' /\ t \notin EnqsPast /\ t \notin EnqsPast'
    BY <1>2, OpenAt, OpenAfter DEF EnqClaimed, DeqClaimed
  <2>2. /\ DeqsOpen' = DeqsOpen \ {t} /\ EnqsOpen' = EnqsOpen
        /\ DeqsPast' = DeqsPast \ {t} /\ EnqsPast' = EnqsPast
    BY <2>1, OpenSets
  <2>3. InOrder(DeqsOpen \ {t}, EnqsOpen, DeqsPast \ {t}, EnqsPast, gr, gw, R, W)
    BY <1>0, <2>1, OrderDone
  <2>4. InOrder(EnqsOpen, DeqsOpen \ {t}, EnqsPast, DeqsPast \ {t}, gw, gr, W, R)
    BY <2>3, OrderSymmetric
  <2>5. m_read + 1 + Cardinality(DeqsOpen \ {t}) = R
    BY <1>0, <1>d, <2>1, Zenon
  <2>6. \A u \in DeqsOpen \ {t} : u \in DeqsOpen
    OBVIOUS
  <2> QED BY <1>2, <2>2, <2>4, <2>5, <2>6, Zenon DEF ClaimsAre, Words
<1> QED BY <1>1, <1>2

\* The counts of t, when it has claimed with R reads and W writes before it.
With(g, t, n) == [u \in Threads |-> IF u = t THEN n ELSE g[u]]

\* An enqueue that is not told the ring is full claims the place W.
LEMMA EnqClaims ==
    ASSUME FewThreads, TypeOK, InOwnCall, InOwnCall', NEW t \in Threads, OthersStay(t),
           NEW R, NEW W, NEW gr, NEW gw, ClaimsAre(R, W, gr, gw),
           pc[t] = "e_cas", ~IsFull(loc[t].rdwr), rdwr = loc[t].rdwr,
           rdwr' = [loc[t].rdwr EXCEPT !.wr = Count(@)], pc'[t] = "e_wait",
           UNCHANGED <<m_read, m_written, loc>>
    PROVE  ClaimsAre(R, W + 1, With(gr, t, R), With(gw, t, W))'
<1> DEFINE hr == With(gr, t, R)
           hw == With(gw, t, W)
<1>0. /\ InOrder(EnqsOpen, DeqsOpen, EnqsPast, DeqsPast, gw, gr, W, R)
      /\ R \in Nat /\ W \in Nat /\ R <= W /\ W <= R + Size /\ rdwr = Words(R, W)
      /\ IsFiniteSet(EnqsOpen) /\ Cardinality(EnqsOpen) \in Nat
      /\ m_written \in Nat /\ m_written + Cardinality(EnqsOpen) = W
      /\ m_read + Cardinality(DeqsOpen) = R
  BY CountsAre, OpenFew, Zenon DEF ClaimsAre, TypeOK
<1>1. /\ t \notin EnqsOpen /\ t \in EnqsOpen' /\ t \notin DeqsOpen /\ t \notin DeqsOpen'
      /\ t \notin EnqsPast /\ t \notin EnqsPast' /\ t \notin DeqsPast /\ t \notin DeqsPast'
  BY OpenAt, OpenAfter DEF EnqClaimed, DeqClaimed
<1>2. /\ EnqsOpen' = EnqsOpen \cup {t} /\ DeqsOpen' = DeqsOpen
      /\ EnqsPast' = EnqsPast /\ DeqsPast' = DeqsPast
  BY <1>1, OpenSets
<1>3. /\ hr[t] = R /\ hw[t] = W
      /\ \A u \in EnqsOpen \cup DeqsOpen : hr[u] = gr[u] /\ hw[u] = gw[u]
  BY <1>1 DEF With, EnqsOpen, DeqsOpen
<1> HIDE DEF hr, hw
<1>4. InOrder(EnqsOpen \cup {t}, DeqsOpen, EnqsPast, DeqsPast, hw, hr, W + 1, R)
  BY <1>0, <1>1, <1>3, OrderClaimed
<1>5. rdwr' = Words(R, W + 1) /\ W < R + Size
  <2>1. loc[t].rdwr = Words(R, W)
    BY <1>0
  <2>2. rdwr' = [Words(R, W) EXCEPT !.wr = Count(@)] /\ ~IsFull(Words(R, W))
    BY <2>1
  <2>3. /\ [Words(R, W) EXCEPT !.wr = Count(@)] = Words(R, W + 1)
        /\ ~IsFull(Words(R, W)) => W < R + Size
    BY <1>0, HalvesCount
  <2> QED BY <2>2, <2>3
<1>6. m_written + Cardinality(EnqsOpen \cup {t}) = W + 1
  <2>1. Cardinality(EnqsOpen \cup {t}) = Cardinality(EnqsOpen) + 1
    BY <1>0, <1>1, FS_AddElement, Zenon
  <2> QED BY <2>1, <1>0, SMT
<1>7. R <= W + 1 /\ W + 1 <= R + Size
  BY <1>0, <1>5, SizeAssumption, WordAssumption, SMT
<1>8. \A u \in EnqsOpen \cup {t} : /\ loc[u].rdwr = Words(hr[u], hw[u])
                                 /\ hr[u] <= hw[u] /\ hw[u] < hr[u] + Size
  BY <1>0, <1>3, <1>5, Zenon DEF ClaimsAre
<1>9. \A u \in DeqsOpen : /\ loc[u].rdwr = Words(hr[u], hw[u])
                          /\ hr[u] < hw[u] /\ hw[u] <= hr[u] + Size
  BY <1>3, Zenon DEF ClaimsAre
<1> QED BY <1>0, <1>2, <1>4, <1>5, <1>6, <1>7, <1>8, <1>9, Zenon DEF ClaimsAre, Words, hr, hw

\* A dequeue that does not find the ring empty claims the place R.
LEMMA DeqClaims ==
    ASSUME FewThreads, TypeOK, InOwnCall, InOwnCall', NEW t \in Threads, OthersStay(t),
           NEW R, NEW W, NEW gr, NEW gw, ClaimsAre(R, W, gr, gw),
           pc[t] = "d_cas", ~IsEmpty(loc[t].rdwr), rdwr = loc[t].rdwr,
           rdwr' = [loc[t].rdwr EXCEPT !.rd = Count(@)], pc'[t] = "d_wait",
           UNCHANGED <<m_read, m_written, loc>>
    PROVE  ClaimsAre(R + 1, W, With(gr, t, R), With(gw, t, W))'
<1> DEFINE hr == With(gr, t, R)
           hw == With(gw, t, W)
<1>0. /\ InOrder(DeqsOpen, EnqsOpen, DeqsPast, EnqsPast, gr, gw, R, W)
      /\ R \in Nat /\ W \in Nat /\ R <= W /\ W <= R + Size /\ rdwr = Words(R, W)
      /\ IsFiniteSet(DeqsOpen) /\ Cardinality(DeqsOpen) \in Nat
      /\ m_read \in Nat /\ m_written + Cardinality(EnqsOpen) = W
      /\ m_read + Cardinality(DeqsOpen) = R
  BY CountsAre, OpenFew, OrderSymmetric, Zenon DEF ClaimsAre, TypeOK
<1>1. /\ t \notin DeqsOpen /\ t \in DeqsOpen' /\ t \notin EnqsOpen /\ t \notin EnqsOpen'
      /\ t \notin EnqsPast /\ t \notin EnqsPast' /\ t \notin DeqsPast /\ t \notin DeqsPast'
  BY OpenAt, OpenAfter DEF EnqClaimed, DeqClaimed
<1>2. /\ DeqsOpen' = DeqsOpen \cup {t} /\ EnqsOpen' = EnqsOpen
      /\ EnqsPast' = EnqsPast /\ DeqsPast' = DeqsPast
  BY <1>1, OpenSets
<1>3. /\ hr[t] = R /\ hw[t] = W
      /\ \A u \in DeqsOpen \cup EnqsOpen : hr[u] = gr[u] /\ hw[u] = gw[u]
  BY <1>1 DEF With, EnqsOpen, DeqsOpen
<1> HIDE DEF hr, hw
<1>4. InOrder(EnqsOpen, DeqsOpen \cup {t}, EnqsPast, DeqsPast, hw, hr, W, R + 1)
  <2>1. InOrder(DeqsOpen \cup {t}, EnqsOpen, DeqsPast, EnqsPast, hr, hw, R + 1, W)
    BY <1>0, <1>1, <1>3, OrderClaimed
  <2> QED BY <2>1, OrderSymmetric
<1>5. rdwr' = Words(R + 1, W) /\ R # W
  <2>1. loc[t].rdwr = Words(R, W)
    BY <1>0
  <2>2. rdwr' = [Words(R, W) EXCEPT !.rd = Count(@)] /\ ~IsEmpty(Words(R, W))
    BY <2>1
  <2>3. /\ [Words(R, W) EXCEPT !.rd = Count(@)] = Words(R + 1, W)
        /\ IsEmpty(Words(R, W)) <=> R = W
    BY <1>0, HalvesCount
  <2> QED BY <2>2, <2>3
<1>6. m_read + Cardinality(DeqsOpen \cup {t}) = R + 1
  <2>1. Cardinality(DeqsOpen \cup {t}) = Cardinality(DeqsOpen) + 1
    BY <1>0, <1>1, FS_AddElement, Zenon
  <2> QED BY <2>1, <1>0, SMT
<1>7. R < W /\ R + 1 <= W /\ W <= R + 1 + Size
  BY <1>0, <1>5, SizeAssumption, WordAssumption, SMT
<1>8. \A u \in DeqsOpen \cup {t} : /\ loc[u].rdwr = Words(hr[u], hw[u])
                                 /\ hr[u] < hw[u] /\ hw[u] <= hr[u] + Size
  BY <1>0, <1>3, <1>7, Zenon DEF ClaimsAre
<1>9. \A u \in EnqsOpen : /\ loc[u].rdwr = Words(hr[u], hw[u])
                          /\ hr[u] <= hw[u] /\ hw[u] < hr[u] + Size
  BY <1>3, Zenon DEF ClaimsAre
<1> QED BY <1>0, <1>2, <1>4, <1>5, <1>6, <1>7, <1>8, <1>9, Zenon DEF ClaimsAre, Words, hr, hw

-----------------------------------------------------------------------------
\* The counts are kept.

\* The end of a turn: on to the head of the loop, or no turn is left.
LEMMA RetryEnds ==
    ASSUME TypeOK, NEW t \in Threads, NEW l \in {"e_loop", "d_loop"}, Retry(t, l)
    PROVE  /\ pc'[t] \in {l, "blocked"} /\ ip' = ip /\ ret' = ret
           /\ pc'[t] = "blocked" => ~(cnt'[t] < MaxIter)
<1>1. ip' = ip /\ ret' = ret
  BY DEF Retry
<1>2. CASE MaxIter = 0
  BY <1>1, <1>2, PcType DEF Retry
<1>3. CASE MaxIter # 0
  <2>1. /\ cnt' = [cnt EXCEPT ![t] = cnt[t] + 1]
        /\ pc' = [pc EXCEPT ![t] = IF cnt[t] + 1 < MaxIter THEN l ELSE "blocked"]
    BY <1>3, Zenon DEF Retry
  <2>2. /\ cnt'[t] = cnt[t] + 1
        /\ pc'[t] = IF cnt[t] + 1 < MaxIter THEN l ELSE "blocked"
    BY <2>1, PcType
  <2> QED BY <1>1, <2>2
<1> QED BY <1>2, <1>3

\* A compare-and-swap that claims, or one that reloads and turns round.
LEMMA ClaimStep ==
    ASSUME FewThreads, IInv, InOwnCall', HasTurns', NEW t \in Threads, OthersStay(t),
           NEW R, NEW W, NEW gr, NEW gw, ClaimsAre(R, W, gr, gw),
           EnqClaim(t) \/ DeqClaim(t)
    PROVE  \E S, V, hr, hw : ClaimsAre(S, V, hr, hw)'
<1>0. TypeOK /\ InOwnCall /\ Tested
  BY Zenon DEF IInv
<1>1. CASE /\ EnqClaim(t) /\ Goto(t, "e_wait") /\ rdwr = loc[t].rdwr /\ loc' = loc
           /\ rdwr' = [loc[t].rdwr EXCEPT !.wr = Count(@)]
  <2>1. pc[t] = "e_cas" /\ ~IsFull(loc[t].rdwr) /\ UNCHANGED <<m_read, m_written>>
    BY <1>0, <1>1, Zenon DEF EnqClaim, Tested
  <2>2. pc'[t] = "e_wait"
    BY <1>0, <1>1, PcType DEF Goto
  <2>3. ClaimsAre(R, W + 1, With(gr, t, R), With(gw, t, W))'
    BY <1>0, <1>1, <2>1, <2>2, EnqClaims
  <2> QED BY <2>3
<1>2. CASE /\ DeqClaim(t) /\ Goto(t, "d_wait") /\ rdwr = loc[t].rdwr /\ loc' = loc
           /\ rdwr' = [loc[t].rdwr EXCEPT !.rd = Count(@)]
  <2>1. pc[t] = "d_cas" /\ ~IsEmpty(loc[t].rdwr) /\ UNCHANGED <<m_read, m_written>>
    BY <1>0, <1>2, Zenon DEF DeqClaim, Tested
  <2>2. pc'[t] = "d_wait"
    BY <1>0, <1>2, PcType DEF Goto
  <2>3. ClaimsAre(R + 1, W, With(gr, t, R), With(gw, t, W))'
    BY <1>0, <1>2, <2>1, <2>2, DeqClaims
  <2> QED BY <2>3
<1>3. CASE /\ rdwr' = rdwr /\ \E l \in {"e_loop", "d_loop"} : Retry(t, l)
  <2>1. PICK l \in {"e_loop", "d_loop"} : Retry(t, l)
    BY <1>3
  <2>2. /\ pc[t] \in {"e_cas", "d_cas"} /\ UNCHANGED <<m_read, m_written>>
    BY Zenon DEF EnqClaim, DeqClaim
  <2>3. /\ pc'[t] \in {"e_loop", "d_loop", "blocked"}
        /\ pc'[t] = "blocked" => ~(cnt'[t] < MaxIter)
    BY <2>1, <1>0, RetryEnds
  <2>4. ClaimsAre(R, W, gr, gw)'
    BY <1>0, <1>3, <2>2, <2>3, QuietStep DEF EnqClaimed, DeqClaimed
  <2> QED BY <2>4
<1> QED BY <1>1, <1>2, <1>3, Zenon DEF EnqClaim, DeqClaim, Claim

\* A wait that is over, goes on, or is abandoned.
LEMMA WaitStep ==
    ASSUME FewThreads, IInv, InOwnCall', NEW t \in Threads, OthersStay(t),
           NEW R, NEW W, NEW gr, NEW gw, ClaimsAre(R, W, gr, gw),
           EnqWait(t) \/ DeqWait(t)
    PROVE  ClaimsAre(R, W, gr, gw)'
<1>0. TypeOK /\ InOwnCall /\ HasTurns /\ UNCHANGED <<rdwr, m_read, m_written, loc>>
  BY Zenon DEF IInv, EnqWait, DeqWait, shared
<1>1. CASE EnqWait(t) /\ ReadsDone(t)
  <2>1. pc[t] = "e_wait" /\ pc'[t] = "e_val"
    BY <1>0, <1>1, PcType DEF EnqWait, Assume, Goto
  <2> QED BY <1>0, <1>1, <2>1, WaitPassed
<1>2. CASE DeqWait(t) /\ WritesDone(t)
  <2>1. pc[t] = "d_wait" /\ pc'[t] = "d_val"
    BY <1>0, <1>2, PcType DEF DeqWait, Assume, Goto
  <2> QED BY <1>0, <1>2, <2>1, WaitPassed
<1>3. CASE UNCHANGED clientVars
  <2>1. \/ pc[t] = "e_wait" /\ pc'[t] = "e_wait"
        \/ pc[t] = "d_wait" /\ pc'[t] = "d_wait"
    BY <1>3, Zenon DEF EnqWait, DeqWait, clientVars
  <2> QED BY <1>0, <2>1, StaysOpen
<1>4. CASE MaxIter # 0 /\ Goto(t, "blocked")
  <2>1. pc[t] \in {"e_wait", "d_wait"}
    BY Zenon DEF EnqWait, DeqWait
  <2>2. /\ pc'[t] = "blocked" /\ cnt'[t] = cnt[t] /\ ip'[t] = ip[t]
    BY <1>0, <1>4, PcType DEF Goto
  <2>3. cnt[t] < MaxIter
    BY <1>0, <1>4, <2>1 DEF HasTurns, Labels, EnqLabels, DeqLabels
  <2> QED BY <1>0, <2>1, <2>2, <2>3, StaysOpen
<1> QED BY <1>1, <1>2, <1>3, <1>4, Zenon DEF EnqWait, DeqWait, Assume

\* Every step keeps the counts, if no enqueue finds the ring full.
LEMMA CountsStep ==
    ASSUME FewThreads, HasRoom, IInv, NEW t \in Threads, Step(t)
    PROVE  IInv'
<1>0. TypeOK /\ InOwnCall /\ Tested /\ HasTurns
  BY Zenon DEF IInv
<1>1. TypeOK' /\ InOwnCall' /\ Tested' /\ HasTurns' /\ OthersStay(t)
  BY <1>0, TypeStep, CallStep, TestedStep, TurnsStep, StepOthers
<1>2. PICK R, W, gr, gw : ClaimsAre(R, W, gr, gw)
  BY Zenon DEF IInv
<1>3. SUFFICES \E S, V, hr, hw : ClaimsAre(S, V, hr, hw)'
  BY <1>1, Zenon DEF IInv
<1>4. CASE EnqClaim(t) \/ DeqClaim(t)
  BY <1>1, <1>2, <1>4, ClaimStep
<1>5. CASE EnqWait(t) \/ DeqWait(t)
  BY <1>1, <1>2, <1>5, WaitStep
<1>6. CASE EnqWriteValue(t) \/ DeqReadValue(t)
  <2>1. /\ UNCHANGED <<rdwr, m_read, m_written>>
        /\ \/ pc[t] = "e_val" /\ pc'[t] = "e_done"
           \/ pc[t] = "d_val" /\ pc'[t] = "d_done"
        /\ loc'[t].rdwr = loc[t].rdwr
    BY <1>0, <1>6, PcType DEF EnqWriteValue, DeqReadValue, Goto, shared
  <2>2. ClaimsAre(R, W, gr, gw)'
    BY <1>0, <1>1, <1>2, <2>1, StaysOpen
  <2> QED BY <2>2
<1>7. CASE EnqDone(t) \/ DeqDone(t)
  <2>1. /\ UNCHANGED <<rdwr, loc>> /\ pc'[t] = "idle"
        /\ \/ pc[t] = "e_done" /\ m_written' = m_written + 1 /\ m_read' = m_read
           \/ pc[t] = "d_done" /\ m_read' = m_read + 1 /\ m_written' = m_written
    BY <1>0, <1>7, PcType DEF EnqDone, DeqDone, Return
  <2>2. ClaimsAre(R, W, gr, gw)'
    BY <1>0, <1>1, <1>2, <2>1, CallDone
  <2> QED BY <2>2
<1>8. CASE EnqCall(t) \/ DeqCall(t) \/ EnqLoad(t) \/ DeqLoad(t) \/ EnqTest(t) \/ DeqTest(t)
  <2>1. /\ UNCHANGED <<rdwr, m_read, m_written>>
        /\ pc[t] \in {"idle", "e_load", "d_load", "e_loop", "d_loop"}
        /\ pc'[t] \in {"e_load", "d_load", "e_loop", "d_loop", "e_cas", "d_cas", "idle"}
    BY <1>0, <1>8, PcType DEF EnqCall, DeqCall, EnqLoad, DeqLoad, EnqTest, DeqTest,
       LoadCounters, Invoke, InCall, Goto, Return, shared, HasRoom
  <2>2. ClaimsAre(R, W, gr, gw)'
    BY <1>0, <1>1, <1>2, <2>1, QuietStep DEF EnqClaimed, DeqClaimed
  <2> QED BY <2>2
<1> QED BY <1>4, <1>5, <1>6, <1>7, <1>8, Zenon DEF Step

LEMMA StutterKeeps == ASSUME IInv, UNCHANGED vars PROVE IInv'
<1>1. TypeOK'
  BY DEF IInv, vars, TypeOK, ClientTypeOK, InCall
<1>2. InOwnCall' /\ Tested' /\ HasTurns'
  BY DEF IInv, vars, InOwnCall, InCallOf, Current, Tested, HasTurns
<1>3. /\ EnqsOpen' = EnqsOpen /\ DeqsOpen' = DeqsOpen
      /\ EnqsPast' = EnqsPast /\ DeqsPast' = DeqsPast
  BY DEF vars, EnqsOpen, DeqsOpen, EnqsPast, DeqsPast, InProgress, InCall, Current
<1>4. PICK R, W, gr, gw : ClaimsAre(R, W, gr, gw)
  BY Zenon DEF IInv
<1>5. rdwr' = rdwr /\ m_read' = m_read /\ m_written' = m_written /\ loc' = loc
  BY DEF vars
<1>6. ClaimsAre(R, W, gr, gw)'
  BY <1>3, <1>4, <1>5, Zenon DEF ClaimsAre
<1> QED BY <1>1, <1>2, <1>6, Zenon DEF IInv

LEMMA NextInv == ASSUME FewThreads, HasRoom, IInv, [Next]_vars PROVE IInv'
BY CountsStep, StutterKeeps, Zenon DEF Next, Terminating

\* As long as no enqueue finds the ring full, the reads and writes claimed can
\* be counted so that all the calls in progress are in order.
LEMMA CountsHold == ASSUME FewThreads PROVE Spec /\ []HasRoom => []IInv
<1>1. Init => IInv
  BY InitInv
<1>2. IInv /\ HasRoom /\ [Next]_vars => IInv'
  BY NextInv
<1> QED BY <1>1, <1>2, PTL DEF Spec

-----------------------------------------------------------------------------
\* What the counters count.

LEMMA CountsTell == ASSUME FewThreads, IInv PROVE CountersInv
<1>0. TypeOK /\ m_read \in Nat /\ m_written \in Nat /\ Word \in Nat \ {0}
  BY SizeAssumption, WordAssumption, SMT DEF IInv, TypeOK
<1>1. PICK R, W, gr, gw : ClaimsAre(R, W, gr, gw)
  BY Zenon DEF IInv
<1>2. /\ m_written + Cardinality(EnqsOpen) = W /\ rdwr.wr = W % Word
      /\ m_read + Cardinality(DeqsOpen) = R /\ rdwr.rd = R % Word
      /\ R \in Nat /\ W \in Nat
  <2>1. rdwr = Words(R, W)
    BY <1>1, Zenon DEF ClaimsAre
  <2>2. rdwr.wr = W % Word /\ rdwr.rd = R % Word
    BY <2>1, HalvesAre
  <2> QED BY <1>1, <2>2, CountsAre, Zenon DEF ClaimsAre
<1>3. ASSUME NEW m \in Nat, NEW n \in Nat, NEW C \in Nat, m + n = C, n < Word
      PROVE  ((C % Word) - (m % Word) + Word) % Word = n
  <2>1. m <= C /\ C < m + Word /\ C - m = n
    BY <1>0, <1>3, SMT
  <2> QED BY <1>0, <2>1, ModDifference
<1>4. /\ (rdwr.wr - (m_written % Word) + Word) % Word = Cardinality(EnqsOpen)
      /\ (rdwr.rd - (m_read % Word) + Word) % Word = Cardinality(DeqsOpen)
  <2>1. /\ ((W % Word) - (m_written % Word) + Word) % Word = Cardinality(EnqsOpen)
        /\ ((R % Word) - (m_read % Word) + Word) % Word = Cardinality(DeqsOpen)
    BY <1>0, <1>2, <1>3, OpenFew, Zenon
  <2> QED BY <1>2, <2>1, Zenon
<1> QED BY <1>0, <1>4 DEF CountersInv, CountersCount, EnqsOpen, DeqsOpen

\* Even modulo 2^16, the difference between what has started and what is
\* completed is the number of calls in progress.
THEOREM CountersCorrect == ASSUME FewThreads PROVE Spec /\ []HasRoom => []CountersInv
<1>1. IInv => CountersInv
  BY CountsTell
<1> QED BY <1>1, CountsHold, PTL

-----------------------------------------------------------------------------
\* Who is in a slot.

\* The slot of a place is the same whether the place is counted modulo Word
\* or not: Word is a multiple of Size.
LEMMA SlotOf == ASSUME NEW p \in Nat PROVE Slot(p % Word) = Slot(p)
<1>0. Size \in Nat \ {0} /\ Word \in Nat \ {0} /\ Word % Size = 0
  BY SizeAssumption, WordAssumption, SMT
<1> DEFINE m == Word \div Size
           l == p \div Word
           r == p % Word
<1>1. m \in Nat /\ Word = Size * m
  BY <1>0, DivMod, SMT
<1>2. l \in Nat /\ r \in Nat /\ p = Word * l + r
  BY <1>0, DivMod, SMT
<1> HIDE DEF m, l, r
<1>3. PICK k \in Nat : Word * l = Size * k
  <2>1. m * l \in Nat /\ (Size * m) * l = Size * (m * l)
    BY ONLY <1>0, <1>1, <1>2, SMT
  <2> QED BY <1>1, <2>1
<1>4. p = Size * k + r
  BY <1>2, <1>3
<1>5. p % Size = r % Size
  BY <1>0, <1>2, <1>4, ModShift
<1> QED BY <1>5 DEF Slot, r

\* Two places that share a slot are a lap apart.
LEMMA SlotsApart ==
    ASSUME NEW p \in Nat, NEW q \in Nat, p < q, Slot(p) = Slot(q)
    PROVE  p + Size <= q
<1>1. Size \in Nat \ {0}
  BY SizeAssumption, WordAssumption
<1>2. ~(q < p + Size)
  BY <1>1, ModInj DEF Slot
<1> QED BY <1>1, <1>2, SMT

\* An enqueue whose wait is over has no earlier one in progress a lap before
\* it: the dequeue of that place would have to be done, and waits for it.
LEMMA NoLapBehind ==
    ASSUME NEW R, NEW W, NEW gr, NEW gw, ClaimsAre(R, W, gr, gw),
           NEW e \in EnqsOpen, NEW u \in EnqsPast, gw[e] < gw[u]
    PROVE  gw[u] < gw[e] + Size
<1>0. /\ Side(EnqsOpen, DeqsOpen, EnqsPast, gw, gr, W, R) /\ u \in EnqsOpen
      /\ gr[e] <= gw[e] /\ gw[u] < gr[u] + Size
      /\ gr[e] \in Nat /\ gr[u] \in Nat /\ gw[e] \in Nat /\ gw[u] \in Nat
      /\ gr[u] <= R /\ R \in Nat /\ Size \in Nat
  BY CountsAre, SizeAssumption, WordAssumption DEF ClaimsAre, InOrder
<1> SUFFICES ASSUME ~(gw[u] < gw[e] + Size) PROVE FALSE
  OBVIOUS
<1>1. gr[e] <= gw[e] /\ gw[e] < gr[u] /\ gw[e] < R
  BY <1>0, SMT
<1>2. PICK d \in DeqsOpen : gr[d] = gw[e]
  BY <1>0, <1>1, Zenon DEF Side
<1>3. gw[u] < gw[d] /\ gw[d] \in Nat
  BY <1>0, <1>2, CountsAre, Zenon DEF Side
<1>4. Before(gw, gr, u, d) \/ Before(gr, gw, d, u)
  BY <1>0, <1>2, Zenon DEF Side
<1> QED BY <1>0, <1>1, <1>2, <1>3, <1>4, SMT DEF Before

\* An enqueue and a dequeue are never both past their waits.
LEMMA OneKindPast ==
    ASSUME NEW R, NEW W, NEW gr, NEW gw, ClaimsAre(R, W, gr, gw)
    PROVE  EnqsPast = {} \/ DeqsPast = {}
<1>1. /\ Side(EnqsOpen, DeqsOpen, EnqsPast, gw, gr, W, R)
      /\ Side(DeqsOpen, EnqsOpen, DeqsPast, gr, gw, R, W)
  BY Zenon DEF ClaimsAre, InOrder
<1>2. ASSUME NEW e \in EnqsPast, NEW d \in DeqsPast PROVE FALSE
  <2>1. e \in EnqsOpen /\ d \in DeqsOpen /\ gw[e] < gw[d] /\ gr[d] < gr[e]
    BY <1>1 DEF Side
  <2>2. Before(gw, gr, e, d) \/ Before(gr, gw, d, e)
    BY <1>1, <2>1, Zenon DEF Side
  <2> QED BY <2>1, <2>2, CountsAre, SMT DEF Before
<1> QED BY <1>2

LEMMA NobodyMeets == ASSUME IInv PROVE NoSlotRace
<1>0. InOwnCall
  BY DEF IInv
<1>1. PICK R, W, gr, gw : ClaimsAre(R, W, gr, gw)
  BY Zenon DEF IInv
<1>2. /\ Side(EnqsOpen, DeqsOpen, EnqsPast, gw, gr, W, R)
      /\ \A t \in EnqsOpen : loc[t].rdwr = Words(gr[t], gw[t])
  BY <1>1, Zenon DEF ClaimsAre, InOrder
<1>3. ASSUME NEW t \in EnqsPast
      PROVE  t \in EnqsOpen /\ gw[t] \in Nat /\ WriteSlot(t) = Slot(gw[t])
  <2>1. t \in EnqsOpen /\ gw[t] \in Nat
    BY <1>1, <1>3, CountsAre
  <2>2. loc[t].rdwr.wr = gw[t] % Word
    BY <1>2, <2>1, HalvesAre
  <2> QED BY <2>1, <2>2, SlotOf DEF WriteSlot
<1>4. ASSUME NEW t \in EnqsPast, NEW u \in EnqsPast, gw[t] < gw[u]
      PROVE  WriteSlot(t) # WriteSlot(u)
  <2>1. gw[u] < gw[t] + Size
    BY <1>1, <1>3, <1>4, NoLapBehind
  <2>2. Slot(gw[t]) = Slot(gw[u]) => gw[t] + Size <= gw[u]
    BY <1>3, <1>4, SlotsApart
  <2> QED BY <1>3, <2>1, <2>2, SizeAssumption, WordAssumption, SMT
<1>5. ASSUME NEW t \in EnqsPast, NEW u \in EnqsPast, t # u
      PROVE  WriteSlot(t) # WriteSlot(u)
  <2>1. gw[t] < gw[u] \/ gw[u] < gw[t]
    <3>1. gw[t] # gw[u]
      BY <1>2, <1>3, <1>5 DEF Side
    <3> QED BY <3>1, <1>3, SMT
  <2> QED BY <2>1, <1>4
<1>6. ASSUME NEW t \in Threads, NEW u \in Threads, t # u, pc[t] = "e_val"
      PROVE  /\ pc[u] = "e_val" => WriteSlot(t) # WriteSlot(u)
             /\ pc[u] # "d_val"
  <2>1. /\ t \in EnqsPast /\ (pc[u] = "e_val" => u \in EnqsPast)
        /\ pc[u] = "d_val" => u \in DeqsPast
    BY <1>6 DEF EnqsPast, DeqsPast
  <2> QED BY <1>1, <1>5, <1>6, <2>1, OneKindPast
<1> QED BY <1>6, Zenon DEF NoSlotRace

\* The waits keep the plain payload slots free of races: no thread writes a
\* slot that another is writing or reading.
THEOREM SlotsNeverRace == ASSUME FewThreads PROVE Spec /\ []HasRoom => []NoSlotRace
<1>1. IInv => NoSlotRace
  BY NobodyMeets
<1> QED BY <1>1, CountsHold, PTL

-----------------------------------------------------------------------------
\* Who may go on.

\* Some claim in progress has none of the other kind before it.
LEMMA OneGoesOn ==
    ASSUME NEW E, NEW D, NEW P, NEW Q, NEW a, NEW b, NEW A, NEW B,
           InOrder(E, D, P, Q, a, b, A, B), E # {} \/ D # {}
    PROVE  \/ \E e \in E : \A d \in D : a[e] < a[d]
           \/ \E d \in D : \A e \in E : b[d] < b[e]
<1>1. /\ \A e \in E : a[e] \in Nat /\ b[e] \in Nat
      /\ \A d \in D : a[d] \in Nat /\ b[d] \in Nat
      /\ \A e \in E, d \in D : Before(a, b, e, d) \/ Before(b, a, d, e)
  BY Zenon DEF InOrder, Side
<1>2. CASE E = {} \/ D = {}
  BY <1>2
<1>3. CASE E # {} /\ D # {}
  <2>1. PICK e \in E : \A u \in E : a[e] <= a[u]
    <3>1. PICK x \in {a[u] : u \in E} : \A y \in {a[u] : u \in E} : x <= y
      BY <1>1, <1>3, LeastNumber
    <3> QED BY <3>1
  <2>2. PICK d \in D : \A c \in D : b[d] <= b[c]
    <3>1. PICK x \in {b[c] : c \in D} : \A y \in {b[c] : c \in D} : x <= y
      BY <1>1, <1>3, LeastNumber
    <3> QED BY <3>1
  <2>3. CASE Before(a, b, e, d)
    <3>1. \A c \in D : a[e] < a[c]
      BY <1>1, <2>2, <2>3, SMT DEF Before
    <3> QED BY <3>1
  <2>4. CASE Before(b, a, d, e)
    <3>1. \A u \in E : b[d] < b[u]
      BY <1>1, <2>1, <2>4, SMT DEF Before
    <3> QED BY <3>1
  <2> QED BY <1>1, <2>3, <2>4
<1> QED BY <1>2, <1>3

LEMMA SomeoneGoesOn == ASSUME FewThreads, IInv PROVE SomeWaitEnds
<1>0. TypeOK /\ InOwnCall /\ m_read \in Nat /\ m_written \in Nat
  BY DEF IInv, TypeOK
<1>1. PICK R, W, gr, gw : ClaimsAre(R, W, gr, gw)
  BY Zenon DEF IInv
<1> DEFINE open == {t \in Threads : InProgress(t, "enq") \/ InProgress(t, "deq")}
<1>2. open = EnqsOpen \cup DeqsOpen
  BY DEF EnqsOpen, DeqsOpen
<1>3. SUFFICES ASSUME open # {}, \A t \in open : pc[t] \in {"e_wait", "d_wait"}
               PROVE  \E t \in open : IF pc[t] = "e_wait" THEN ReadsDone(t) ELSE WritesDone(t)
  BY DEF SomeWaitEnds
<1>4. /\ \A t \in EnqsOpen : pc[t] = "e_wait"
      /\ \A t \in DeqsOpen : pc[t] = "d_wait"
  <2>1. EnqsOpen \subseteq Threads /\ DeqsOpen \subseteq Threads
    BY DEF EnqsOpen, DeqsOpen
  <2>2. \A t \in EnqsOpen : t \notin DeqsOpen
    BY <1>1, CountsAre
  <2> QED BY <1>0, <1>2, <1>3, <2>1, <2>2, OpenAt DEF EnqClaimed, DeqClaimed
<1>5. \/ \E e \in EnqsOpen : \A d \in DeqsOpen : gw[e] < gw[d]
      \/ \E d \in DeqsOpen : \A e \in EnqsOpen : gr[d] < gr[e]
  <2>1. InOrder(EnqsOpen, DeqsOpen, EnqsPast, DeqsPast, gw, gr, W, R)
    BY <1>1, Zenon DEF ClaimsAre
  <2> QED BY <1>2, <1>3, <2>1, OneGoesOn
<1> HIDE DEF open
<1>6. CASE \E e \in EnqsOpen : \A d \in DeqsOpen : gw[e] < gw[d]
  BY <1>0, <1>1, <1>2, <1>4, <1>6, WaitsTell
<1>7. CASE \E d \in DeqsOpen : \A e \in EnqsOpen : gr[d] < gr[e]
  BY <1>0, <1>1, <1>2, <1>4, <1>7, WaitsTell
<1> QED BY <1>5, <1>6, <1>7

\* The calls in progress are never all at waits that are not over: a count
\* that a call waits for is not passed before the call has seen it.
THEOREM WaitsEnd == ASSUME FewThreads PROVE Spec /\ []HasRoom => []SomeWaitEnds
<1>1. IInv => SomeWaitEnds
  BY SomeoneGoesOn
<1> QED BY <1>1, CountsHold, PTL
-----------------------------------------------------------------------------
\* The items.

\* The item of place p, and who has it before it is in its slot.
Item(p) == ItemOf(p % Word)
Holds(gw, t, p) == t \in EnqsOpen /\ pc[t] # "e_done" /\ gw[t] = p

\* An enqueue that claimed before d is in progress.
EnqBefore(gr, d) == \E e \in EnqsOpen : gr[e] <= gr[d]

\* A place somebody will still read, and from its enqueuer if need be.
Live(R, W, gr, p) ==
    p < W /\ (R <= p \/ \E d \in DeqsOpen : gr[d] = p /\ EnqBefore(gr, d))

LEMMA WordIsLong == Size \in Nat \ {0} /\ Word \in Nat \ {0} /\ Size + Size <= Word
<1>0. Size \in Nat \ {0} /\ Word \in Nat \ {0} /\ Word % Size = 0 /\ Size < Word
  BY SizeAssumption, WordAssumption, SMT
<1>1. 0 % Size = 0
  <2>1. 0 % Size \in 0 .. Size - 1 /\ 0 \div Size \in Nat
        /\ Size * (0 \div Size) \in Nat /\ 0 = Size * (0 \div Size) + (0 % Size)
    BY <1>0, DivMod
  <2> QED BY <2>1, <1>0, SMT
<1>2. Slot(Word) = Slot(Size) /\ Size \in Nat /\ Word \in Nat
  <2>1. (0 + Size) % Size = 0 % Size
    BY <1>0, ModLap
  <2> QED BY <2>1, <1>0, <1>1 DEF Slot
<1>3. Size + Size <= Word
  BY <1>0, <1>2, SlotsApart
<1> QED BY <1>0, <1>3

\* Counts that are equal modulo Word but not equal are Word apart.
LEMMA WordApart ==
    ASSUME NEW p \in Nat, NEW q \in Nat, p % Word = q % Word, p # q
    PROVE  p + Word <= q \/ q + Word <= p
<1>1. Word \in Nat \ {0}
  BY WordIsLong
<1>2. ~(p < q /\ q < p + Word) /\ ~(q < p /\ p < q + Word)
  BY <1>1, ModInj
<1> QED BY <1>1, <1>2, SMT

\* As many calls as a half of m_rdwr counts would have to be in progress for
\* one to be so far behind.
LEMMA NoneWordBehind ==
    ASSUME FewThreads, NEW R, NEW W, NEW gr, NEW gw, ClaimsAre(R, W, gr, gw),
           NEW u \in EnqsOpen, gw[u] + Word < W
    PROVE  FALSE
<1>0. /\ InOrder(EnqsOpen, DeqsOpen, EnqsPast, DeqsPast, gw, gr, W, R)
      /\ InOrder(DeqsOpen, EnqsOpen, DeqsPast, EnqsPast, gr, gw, R, W)
      /\ EnqsOpen \cap DeqsOpen = {}
      /\ gr[u] <= gw[u] /\ gr[u] \in Nat /\ gw[u] \in Nat
      /\ R \in Nat /\ W \in Nat /\ W <= R + Size
      /\ Size \in Nat \ {0} /\ Word \in Nat \ {0} /\ Size + Size <= Word
      /\ \A d \in DeqsOpen : gw[d] <= gr[d] + Size /\ gw[d] \in Nat
  BY CountsAre, OrderSymmetric, WordIsLong, Zenon DEF ClaimsAre
<1>1. gr[u] <= gr[u] /\ gr[u] < R
  BY <1>0, SMT
<1>2. PICK d \in DeqsOpen : gr[d] = gr[u]
  BY <1>0, <1>1, Zenon DEF InOrder, Side
<1>3. \A S, T : IsFiniteSet(S) /\ T \subseteq S => Cardinality(T) <= Cardinality(S)
  BY FS_Subset
<1>4. R - gr[u] <= Cardinality(DeqsOpen)
  <2> DEFINE later == {c \in DeqsOpen : gr[u] <= gr[c]}
  <2>1. Cardinality(later) = R - gr[u]
    BY <1>0, OpenFew, LaterCount
  <2> QED BY <1>3, <2>1, OpenFew
<1>5. W - gw[d] <= Cardinality(EnqsOpen)
  <2> DEFINE later == {e \in EnqsOpen : gw[d] <= gw[e]}
  <2>1. Cardinality(later) = W - gw[d]
    BY <1>0, OpenFew, LaterCount
  <2> QED BY <1>3, <2>1, OpenFew
<1>6. /\ Cardinality(EnqsOpen) \in Nat /\ Cardinality(DeqsOpen) \in Nat
      /\ Cardinality(EnqsOpen) + Cardinality(DeqsOpen) < Word
  BY <1>0, OpenFew
<1>7. gw[d] <= gr[u] + Size /\ gw[d] \in Nat
  BY <1>0, <1>2
<1> QED BY ONLY <1>0, <1>4, <1>5, <1>6, <1>7, gw[u] + Word < W, SMT

\* Nor is an enqueue so far ahead of a place that is read from its enqueuer.
LEMMA NoneWordAhead ==
    ASSUME FewThreads, NEW R, NEW W, NEW gr, NEW gw, ClaimsAre(R, W, gr, gw),
           NEW d \in DeqsOpen, EnqBefore(gr, d), gr[d] + Word < W
    PROVE  FALSE
<1>0. /\ InOrder(EnqsOpen, DeqsOpen, EnqsPast, DeqsPast, gw, gr, W, R)
      /\ InOrder(DeqsOpen, EnqsOpen, DeqsPast, EnqsPast, gr, gw, R, W)
      /\ EnqsOpen \cap DeqsOpen = {}
      /\ gr[d] \in Nat /\ gw[d] \in Nat /\ gw[d] <= gr[d] + Size
      /\ R \in Nat /\ W \in Nat /\ W <= R + Size
      /\ Size \in Nat \ {0} /\ Word \in Nat \ {0} /\ Size + Size <= Word
      /\ \A e \in EnqsOpen : gr[e] \in Nat
  BY CountsAre, OrderSymmetric, WordIsLong, Zenon DEF ClaimsAre
<1>1. PICK e \in EnqsOpen : gr[e] <= gr[d]
  BY DEF EnqBefore
<1>3. \A S, T : IsFiniteSet(S) /\ T \subseteq S => Cardinality(T) <= Cardinality(S)
  BY FS_Subset
<1>4. R - gr[e] <= Cardinality(DeqsOpen)
  <2> DEFINE later == {c \in DeqsOpen : gr[e] <= gr[c]}
  <2>1. Cardinality(later) = R - gr[e]
    BY <1>0, OpenFew, LaterCount
  <2> QED BY <1>3, <2>1, OpenFew
<1>5. W - gw[d] <= Cardinality(EnqsOpen)
  <2> DEFINE later == {c \in EnqsOpen : gw[d] <= gw[c]}
  <2>1. Cardinality(later) = W - gw[d]
    BY <1>0, OpenFew, LaterCount
  <2> QED BY <1>3, <2>1, OpenFew
<1>6. /\ Cardinality(EnqsOpen) \in Nat /\ Cardinality(DeqsOpen) \in Nat
      /\ Cardinality(EnqsOpen) + Cardinality(DeqsOpen) < Word
  BY <1>0, OpenFew
<1>7. gr[e] \in Nat
  BY <1>0
<1> QED BY ONLY <1>0, <1>1, <1>4, <1>5, <1>6, <1>7, gr[d] + Word < W, SMT

\* So a place is known by its count modulo Word as long as it is live.
LEMMA Sole ==
    ASSUME FewThreads, NEW R, NEW W, NEW gr, NEW gw, ClaimsAre(R, W, gr, gw),
           NEW p \in Nat, Live(R, W, gr, p),
           NEW u \in EnqsOpen, gw[u] % Word = p % Word
    PROVE  gw[u] = p
<1>0. /\ R \in Nat /\ W \in Nat /\ W <= R + Size /\ gw[u] \in Nat /\ gw[u] < W /\ p < W
      /\ Size \in Nat \ {0} /\ Word \in Nat \ {0} /\ Size + Size <= Word
  BY CountsAre, WordIsLong, Zenon DEF ClaimsAre, InOrder, Side, Live
<1> SUFFICES ASSUME gw[u] # p PROVE FALSE
  OBVIOUS
<1>1. gw[u] + Word <= p \/ p + Word <= gw[u]
  BY <1>0, WordApart
<1>2. CASE gw[u] + Word <= p
  <2>1. gw[u] + Word < W
    BY <1>0, <1>2, SMT
  <2> QED BY <2>1, NoneWordBehind
<1>3. CASE p + Word <= gw[u]
  <2>1. p + Word < W
    BY <1>0, <1>3, SMT
  <2>2. ~(R <= p)
    BY <1>0, <2>1, SMT
  <2>3. PICK d \in DeqsOpen : gr[d] = p /\ EnqBefore(gr, d)
    BY <2>2, Zenon DEF Live
  <2> QED BY <2>1, <2>3, NoneWordAhead
<1> QED BY <1>1, <1>2, <1>3

\* The item of a live place is with its one enqueuer until that has stored it.
ItemsTell ==
    \A R, W, gr, gw : ClaimsAre(R, W, gr, gw) =>
        \A p \in Nat : Live(R, W, gr, p) =>
            /\ \A u \in Threads : Holds(gw, u, p) => Item(p) = Current(u).val
            /\ (\A u \in Threads : ~Holds(gw, u, p)) => Item(p) = m_array[Slot(p)]

LEMMA ItemsAre == ASSUME FewThreads PROVE IInv => ItemsTell
<1> SUFFICES ASSUME IInv PROVE ItemsTell
  OBVIOUS
<1> SUFFICES ASSUME NEW R, NEW W, NEW gr, NEW gw, ClaimsAre(R, W, gr, gw),
                    NEW p \in Nat, Live(R, W, gr, p)
             PROVE  /\ \A u \in Threads : Holds(gw, u, p) => Item(p) = Current(u).val
                    /\ (\A u \in Threads : ~Holds(gw, u, p)) => Item(p) = m_array[Slot(p)]
  BY DEF ItemsTell
<1>0. \A u \in EnqsOpen : loc[u].rdwr.wr = gw[u] % Word
  <2> SUFFICES ASSUME NEW u \in EnqsOpen PROVE loc[u].rdwr.wr = gw[u] % Word
    OBVIOUS
  <2>1. loc[u].rdwr = Words(gr[u], gw[u])
    BY Zenon DEF ClaimsAre
  <2> QED BY <2>1, HalvesAre
<1>1. \A u \in Threads : Unwritten(u, p % Word) <=> Holds(gw, u, p)
  <2>1. \A u \in Threads : Unwritten(u, p % Word) <=>
            u \in EnqsOpen /\ pc[u] # "e_done" /\ loc[u].rdwr.wr = p % Word
    BY DEF Unwritten, EnqsOpen
  <2> QED BY <1>0, <2>1, Sole DEF Holds
<1>2. \A u, v \in Threads : Holds(gw, u, p) /\ Holds(gw, v, p) => u = v
  <2>1. \A u, v \in EnqsOpen : u # v => gw[u] # gw[v]
    BY Zenon DEF ClaimsAre, InOrder, Side
  <2> QED BY <2>1 DEF Holds
<1>3. ASSUME NEW u \in Threads, Holds(gw, u, p) PROVE Item(p) = Current(u).val
  <2>1. \A v \in Threads : Unwritten(v, p % Word) => v = u
    BY <1>1, <1>2, <1>3
  <2>2. Unwritten(u, p % Word)
    BY <1>1, <1>3
  <2>3. (CHOOSE v \in Threads : Unwritten(v, p % Word)) = u
    BY <2>1, <2>2
  <2> QED BY <2>2, <2>3, Zenon DEF Item, ItemOf
<1>4. ASSUME \A u \in Threads : ~Holds(gw, u, p) PROVE Item(p) = m_array[Slot(p)]
  <2>1. ~ \E u \in Threads : Unwritten(u, p % Word)
    BY <1>1, <1>4
  <2> QED BY <2>1, SlotOf DEF Item, ItemOf
<1> QED BY <1>3, <1>4

\* The queue holds the places from R up to W.
QueueTells ==
    \A R, W, gr, gw : ClaimsAre(R, W, gr, gw) =>
        /\ HasPlaces(Queue, W - R)
        /\ \A i \in 1 .. W - R : Queue[i] = Item(R + (i - 1))

LEMMA QueueIs == IInv => QueueTells
<1> SUFFICES ASSUME IInv, NEW R, NEW W, NEW gr, NEW gw, ClaimsAre(R, W, gr, gw)
             PROVE  /\ HasPlaces(Queue, W - R)
                    /\ \A i \in 1 .. W - R : Queue[i] = Item(R + (i - 1))
  BY DEF QueueTells
<1>0. /\ R \in Nat /\ W \in Nat /\ R <= W /\ W < R + Word /\ Word \in Nat \ {0}
      /\ rdwr.rd = R % Word /\ rdwr.wr = W % Word
  <2>1. rdwr = Words(R, W)
    BY Zenon DEF ClaimsAre
  <2>2. R \in Nat /\ W \in Nat /\ R <= W /\ W <= R + Size
    BY CountsAre
  <2> QED BY <2>1, <2>2, HalvesAre, SizeAssumption, WordAssumption, SMT
<1>1. (rdwr.wr - rdwr.rd + Word) % Word = W - R
  <2>1. ((W % Word) - (R % Word) + Word) % Word = W - R
    BY <1>0, ModDifference
  <2> QED BY <1>0, <2>1, Zenon
<1>2. Queue = [i \in 1 .. W - R |-> ItemOf((rdwr.rd + i - 1) % Word)]
  BY <1>1, Zenon DEF Queue
<1>3. ASSUME NEW i \in 1 .. W - R PROVE ItemOf((rdwr.rd + i - 1) % Word) = Item(R + (i - 1))
  <2>1. PICK k \in Nat : k = i - 1
    BY <1>0, SMT
  <2>2. ((R % Word) + k) % Word = (R + k) % Word
    BY <1>0, ModAdd
  <2>3. rdwr.rd + i - 1 = rdwr.rd + k
    <3>1. rdwr.rd \in Nat
      BY <1>0, DivMod, SMT
    <3> QED BY <3>1, <1>0, <2>1, SMT
  <2> QED BY <1>0, <2>1, <2>2, <2>3, Zenon DEF Item
<1> QED BY <1>2, <1>3 DEF HasPlaces

\* What a dequeue in progress will read.
DeqsTell ==
    \A R, W, gr, gw : ClaimsAre(R, W, gr, gw) =>
        \A d \in DeqsOpen :
            /\ EnqBefore(gr, d) => ItemFor(d) = Item(gr[d]) /\ Live(R, W, gr, gr[d])
            /\ ~EnqBefore(gr, d) => ItemFor(d) = m_array[Slot(gr[d])]

LEMMA DeqsAre == ASSUME FewThreads PROVE IInv => DeqsTell
<1> SUFFICES ASSUME IInv, NEW R, NEW W, NEW gr, NEW gw, ClaimsAre(R, W, gr, gw),
                    NEW d \in DeqsOpen
             PROVE  /\ EnqBefore(gr, d) => ItemFor(d) = Item(gr[d]) /\ Live(R, W, gr, gr[d])
                    /\ ~EnqBefore(gr, d) => ItemFor(d) = m_array[Slot(gr[d])]
  BY DEF DeqsTell
<1>1. /\ m_read \in Nat /\ m_written \in Nat /\ gr[d] \in Nat
      /\ R \in Nat /\ W \in Nat /\ gr[d] < R /\ R <= W
      /\ \A e \in EnqsOpen : gr[e] \in Nat
  BY CountsAre, Zenon DEF IInv, TypeOK, ClaimsAre, InOrder, Side
<1>2. WritesDone(d) <=> ~EnqBefore(gr, d)
  <2>1. WritesDone(d) <=> \A e \in EnqsOpen : gr[d] < gr[e]
    BY <1>1, WaitsTell
  <2>2. \A e \in EnqsOpen : gr[d] < gr[e] <=> ~(gr[e] <= gr[d])
    BY <1>1, SMT
  <2> QED BY <2>1, <2>2, Zenon DEF EnqBefore
<1>3. loc[d].rdwr.rd = gr[d] % Word
  <2>1. loc[d].rdwr = Words(gr[d], gw[d])
    BY Zenon DEF ClaimsAre
  <2> QED BY <2>1, HalvesAre
<1>4. ItemOf(loc[d].rdwr.rd) = Item(gr[d]) /\ ReadSlot(d) = Slot(gr[d])
  BY <1>1, <1>3, SlotOf DEF Item, ReadSlot
<1>5. gr[d] < W
  BY <1>1, SMT
<1> QED BY <1>2, <1>4, <1>5, Zenon DEF ItemFor, Live

\* What the abstract queue sees of a call.
SeenTells ==
    \A u \in Threads :
        /\ Stage[u] = IF u \in EnqsOpen \cup DeqsOpen \/ SeesEmpty(u) THEN "done"
                      ELSE IF pc[u] # "idle" THEN "called" ELSE "idle"
        /\ u \in EnqsOpen => Res[u] = Ok
        /\ SeesEmpty(u) => Res[u] = Empty
        /\ u \in DeqsOpen => Res[u] = IF pc[u] = "d_done" THEN loc[u].val ELSE ItemFor(u)
        /\ u \notin EnqsOpen \cup DeqsOpen /\ ~SeesEmpty(u) => Res[u] = ret[u]
        /\ SeesEmpty(u) => u \notin EnqsOpen \cup DeqsOpen

LEMMA SeenIs == IInv => SeenTells
<1> SUFFICES ASSUME IInv, NEW u \in Threads
             PROVE  /\ Stage[u] = IF u \in EnqsOpen \cup DeqsOpen \/ SeesEmpty(u) THEN "done"
                                  ELSE IF pc[u] # "idle" THEN "called" ELSE "idle"
                    /\ u \in EnqsOpen => Res[u] = Ok
                    /\ SeesEmpty(u) => Res[u] = Empty
                    /\ u \in DeqsOpen => Res[u] = IF pc[u] = "d_done" THEN loc[u].val ELSE ItemFor(u)
                    /\ u \notin EnqsOpen \cup DeqsOpen /\ ~SeesEmpty(u) => Res[u] = ret[u]
                    /\ SeesEmpty(u) => u \notin EnqsOpen \cup DeqsOpen
  BY DEF SeenTells
<1>0. /\ u \in EnqsOpen <=> InProgress(u, "enq")
      /\ u \in DeqsOpen <=> InProgress(u, "deq")
  BY DEF EnqsOpen, DeqsOpen
<1>1. u \in EnqsOpen => u \notin DeqsOpen
  BY <1>0 DEF InProgress
<1>2. SeesEmpty(u) => u \notin EnqsOpen \cup DeqsOpen
  BY <1>0 DEF SeesEmpty, InProgress
<1>3. Stage[u] = IF u \in EnqsOpen \cup DeqsOpen \/ SeesEmpty(u) THEN "done"
                 ELSE IF pc[u] # "idle" THEN "called" ELSE "idle"
  BY <1>0 DEF Stage, InCall
<1>4. Res[u] = CASE u \in EnqsOpen -> Ok
                 [] SeesEmpty(u)   -> Empty
                 [] u \in DeqsOpen -> IF pc[u] = "d_done" THEN loc[u].val ELSE ItemFor(u)
                 [] OTHER          -> ret[u]
  BY <1>0 DEF Res
<1>5. /\ u \in EnqsOpen => Res[u] = Ok
      /\ SeesEmpty(u) => Res[u] = Empty
      /\ u \in DeqsOpen => Res[u] = IF pc[u] = "d_done" THEN loc[u].val ELSE ItemFor(u)
      /\ u \notin EnqsOpen \cup DeqsOpen /\ ~SeesEmpty(u) => Res[u] = ret[u]
  BY <1>1, <1>2, <1>4
<1> QED BY <1>2, <1>3, <1>5

Tells == ItemsTell /\ QueueTells /\ DeqsTell /\ SeenTells

LEMMA AllTell == ASSUME FewThreads PROVE (IInv => Tells) /\ (IInv' => Tells')
<1>1. IInv => Tells
  BY ItemsAre, QueueIs, DeqsAre, SeenIs DEF Tells
<1> QED BY <1>1, PTL

-----------------------------------------------------------------------------
\* What a step leaves alone.

\* The item of a place that is live before and after a step and has the same
\* holder, or the same slot.
LEMMA SameItem ==
    ASSUME Tells, Tells',
           NEW R, NEW W, NEW gr, NEW gw, ClaimsAre(R, W, gr, gw),
           NEW S, NEW V, NEW hr, NEW hw, ClaimsAre(S, V, hr, hw)',
           NEW p \in Nat, Live(R, W, gr, p), Live(S, V, hr, p)',
           \A u \in Threads : Holds(hw, u, p)' <=> Holds(gw, u, p),
           \A u \in Threads : Holds(gw, u, p) => Current(u)' = Current(u),
           \/ \E u \in Threads : Holds(gw, u, p)
           \/ m_array'[Slot(p)] = m_array[Slot(p)]
    PROVE  Item(p)' = Item(p)
<1>1. CASE \E u \in Threads : Holds(gw, u, p)
  <2>1. PICK u \in Threads : Holds(gw, u, p)
    BY <1>1
  <2>2. Holds(hw, u, p)' /\ Current(u)' = Current(u)
    BY <2>1
  <2>3. Item(p) = Current(u).val
    BY <2>1, Zenon DEF Tells, ItemsTell
  <2>4. Item(p)' = Current(u)'.val
    BY <2>2, Zenon DEF Tells, ItemsTell
  <2> QED BY <2>2, <2>3, <2>4
<1>2. CASE ~ \E u \in Threads : Holds(gw, u, p)
  <2>1. Item(p) = m_array[Slot(p)]
    BY <1>2, Zenon DEF Tells, ItemsTell
  <2>2. Item(p)' = m_array'[Slot(p)]
    <3>1. \A u \in Threads : ~Holds(hw, u, p)'
      BY <1>2
    <3>2. Item(p)' = m_array'[Slot(p)']
      BY <3>1, Zenon DEF Tells, ItemsTell
    <3> QED BY <3>2 DEF Slot
  <2> QED BY <1>2, <2>1, <2>2
<1> QED BY <1>1, <1>2

\* The queue, when no place is claimed.
LEMMA SameQueue ==
    ASSUME Tells, Tells',
           NEW R, NEW W, NEW gr, NEW gw, ClaimsAre(R, W, gr, gw),
           NEW hr, NEW hw, ClaimsAre(R, W, hr, hw)',
           \A p \in Nat : R <= p /\ p < W => Item(p)' = Item(p)
    PROVE  Queue' = Queue
<1>1. /\ HasPlaces(Queue, W - R) /\ HasPlaces(Queue', W - R)
      /\ \A i \in 1 .. W - R : Queue[i] = Item(R + (i - 1))
      /\ \A i \in 1 .. W - R : Queue'[i] = Item(R + (i - 1))'
  BY Zenon DEF Tells, QueueTells, HasPlaces
<1>2. \A i \in 1 .. W - R : R + (i - 1) \in Nat /\ R <= R + (i - 1) /\ R + (i - 1) < W
  BY CountsAre, SMT
<1>3. \A i \in 1 .. W - R : Queue'[i] = Queue[i]
  BY <1>1, <1>2, Zenon
<1> QED BY <1>1, <1>3, Zenon DEF HasPlaces

\* The other threads' calls are where they were.
LEMMA SameSeen ==
    ASSUME Tells, Tells', NEW t \in Threads, OthersStay(t),
           \A d \in DeqsOpen \ {t} : pc[d] # "d_done" => ItemFor(d)' = ItemFor(d)
    PROVE  /\ Stage' = [Stage EXCEPT ![t] = Stage'[t]]
           /\ Stage'[t] = Stage[t] => Stage' = Stage
           /\ Res' = [Res EXCEPT ![t] = Res'[t]]
           /\ Res'[t] = Res[t] => Res' = Res
<1>1. ASSUME NEW u \in Threads \ {t}
      PROVE  Stage'[u] = Stage[u] /\ Res'[u] = Res[u]
  <2>1. /\ pc'[u] = pc[u] /\ ret'[u] = ret[u] /\ loc'[u] = loc[u]
        /\ u \in EnqsOpen' <=> u \in EnqsOpen
        /\ u \in DeqsOpen' <=> u \in DeqsOpen
    BY OpenSets DEF OthersStay
  <2>2. SeesEmpty(u)' <=> SeesEmpty(u)
    BY <2>1 DEF SeesEmpty, IsEmpty
  <2>3. Stage'[u] = Stage[u]
    BY <2>1, <2>2 DEF Tells, SeenTells
  <2>4. Res'[u] = Res[u]
    <3>1. CASE u \in EnqsOpen
      BY <2>1, <3>1 DEF Tells, SeenTells
    <3>2. CASE SeesEmpty(u)
      BY <2>1, <2>2, <3>2 DEF Tells, SeenTells
    <3>3. CASE u \in DeqsOpen
      BY <2>1, <3>3 DEF Tells, SeenTells
    <3>4. CASE u \notin EnqsOpen \cup DeqsOpen /\ ~SeesEmpty(u)
      BY <2>1, <2>2, <3>4 DEF Tells, SeenTells
    <3> QED BY <3>1, <3>2, <3>3, <3>4
  <2> QED BY <2>3, <2>4
<1>2. /\ MapOn(Stage, Threads) /\ MapOn(Stage', Threads)
      /\ MapOn(Res, Threads) /\ MapOn(Res', Threads)
  <2>1. MapOn(Stage, Threads) /\ MapOn(Stage', Threads)
    BY Zenon DEF MapOn, Stage
  <2>2. MapOn(Res, Threads) /\ MapOn(Res', Threads)
    BY SMT DEF MapOn, Res
  <2> QED BY <2>1, <2>2
<1>3. Stage' = [Stage EXCEPT ![t] = Stage'[t]] /\ (Stage'[t] = Stage[t] => Stage' = Stage)
  BY <1>1, <1>2, ChangedAt
<1>4. Res' = [Res EXCEPT ![t] = Res'[t]] /\ (Res'[t] = Res[t] => Res' = Res)
  BY <1>1, <1>2, ChangedAt
<1> QED BY <1>3, <1>4

\* What a dequeue in progress will read, if no place is written.
LEMMA SameFor ==
    ASSUME Tells, Tells',
           NEW R, NEW W, NEW gr, NEW gw, ClaimsAre(R, W, gr, gw),
           NEW S, NEW V, NEW hr, NEW hw, ClaimsAre(S, V, hr, hw)',
           NEW d \in DeqsOpen, d \in DeqsOpen', hr[d] = gr[d],
           EnqBefore(hr, d)' <=> EnqBefore(gr, d),
           EnqBefore(gr, d) => Item(gr[d])' = Item(gr[d]),
           ~EnqBefore(gr, d) => m_array'[Slot(gr[d])] = m_array[Slot(gr[d])]
    PROVE  ItemFor(d)' = ItemFor(d)
<1>0. DeqsTell /\ DeqsTell'
  BY Zenon DEF Tells
<1>1. /\ EnqBefore(gr, d) => ItemFor(d) = Item(gr[d])
      /\ ~EnqBefore(gr, d) => ItemFor(d) = m_array[Slot(gr[d])]
  BY ONLY <1>0, ClaimsAre(R, W, gr, gw), d \in DeqsOpen DEF DeqsTell
<1>2. /\ EnqBefore(hr, d)' => ItemFor(d)' = Item(hr[d])'
      /\ ~EnqBefore(hr, d)' => ItemFor(d)' = m_array'[Slot(hr[d])']
  BY ONLY <1>0, ClaimsAre(S, V, hr, hw)', d \in DeqsOpen' DEF DeqsTell
<1>3. Item(hr[d])' = Item(gr[d])' /\ Slot(hr[d])' = Slot(gr[d])
  BY Zenon DEF Item, ItemOf, Slot, Unwritten
<1> QED BY <1>1, <1>2, <1>3

\* A step that claims no place, writes no slot and passes by no write.
LEMMA PlainStep ==
    ASSUME Tells, Tells', NEW t \in Threads, OthersStay(t),
           NEW R, NEW W, NEW gr, NEW gw, ClaimsAre(R, W, gr, gw), ClaimsAre(R, W, gr, gw)',
           EnqsOpen' = EnqsOpen, DeqsOpen' = DeqsOpen, m_array' = m_array,
           pc[t] # "e_done", pc'[t] # "e_done",
           t \in EnqsOpen => Current(t)' = Current(t)
    PROVE  /\ Queue' = Queue
           /\ \A d \in DeqsOpen : ItemFor(d)' = ItemFor(d)
           /\ Stage' = [Stage EXCEPT ![t] = Stage'[t]]
           /\ Stage'[t] = Stage[t] => Stage' = Stage
           /\ Res' = [Res EXCEPT ![t] = Res'[t]]
           /\ Res'[t] = Res[t] => Res' = Res
<1>1. \A p : Live(R, W, gr, p)' <=> Live(R, W, gr, p)
  BY Zenon DEF Live, EnqBefore
<1>2. \A u \in Threads : pc'[u] = "e_done" <=> pc[u] = "e_done"
  BY Zenon DEF OthersStay
<1>3. \A u \in Threads : u \in EnqsOpen => Current(u)' = Current(u)
  BY Zenon DEF OthersStay, Current
<1>4. ASSUME NEW p \in Nat, Live(R, W, gr, p) PROVE Item(p)' = Item(p)
  <2>1. \A u \in Threads : Holds(gw, u, p)' <=> Holds(gw, u, p)
    BY <1>2, Zenon DEF Holds
  <2>2. \A u \in Threads : Holds(gw, u, p) => Current(u)' = Current(u)
    BY <1>3, Zenon DEF Holds
  <2>3. Live(R, W, gr, p)' /\ m_array'[Slot(p)] = m_array[Slot(p)]
    BY <1>1, <1>4, Zenon
  <2> QED BY <1>4, <2>1, <2>2, <2>3, SameItem
<1>5. Queue' = Queue
  <2>1. \A p \in Nat : R <= p /\ p < W => Live(R, W, gr, p)
    BY Zenon DEF Live
  <2> QED BY <1>4, <2>1, SameQueue
<1>6. ASSUME NEW d \in DeqsOpen PROVE ItemFor(d)' = ItemFor(d)
  <2>1. EnqBefore(gr, d)' <=> EnqBefore(gr, d)
    BY Zenon DEF EnqBefore
  <2>2. EnqBefore(gr, d) => Item(gr[d])' = Item(gr[d])
    <3>1. EnqBefore(gr, d) => Live(R, W, gr, gr[d])
      BY Zenon DEF Tells, DeqsTell
    <3> QED BY <1>4, <3>1, CountsAre
  <2>3. d \in DeqsOpen'
    BY <1>6
  <2> QED BY <2>1, <2>2, <2>3, SameFor
<1> QED BY <1>5, <1>6, SameSeen

-----------------------------------------------------------------------------
\* The steps that take effect.

\* The CAS on m_rdwr appends the item of the enqueue.
LEMMA EnqTakesEffect ==
    ASSUME FewThreads, IInv, InOwnCall', Tells, Tells', NEW t \in Threads, OthersStay(t),
           NEW R, NEW W, NEW gr, NEW gw, ClaimsAre(R, W, gr, gw),
           EnqClaim(t), Goto(t, "e_wait"), rdwr = loc[t].rdwr, loc' = loc,
           rdwr' = [loc[t].rdwr EXCEPT !.wr = Count(@)]
    PROVE  Abs!Enqueue(t)
<1> DEFINE n == W - R
<1>0. /\ TypeOK /\ InOwnCall /\ Tested /\ pc[t] = "e_cas" /\ pc'[t] = "e_wait"
      /\ UNCHANGED <<ip, ret, m_read, m_written, m_array>>
  BY PcType, Zenon DEF IInv, EnqClaim, Goto
<1>1. /\ R \in Nat /\ W \in Nat /\ R <= W
      /\ \A u \in EnqsOpen : gw[u] < W
      /\ \A u \in DeqsOpen : gr[u] < R /\ gr[u] \in Nat
  <2>1. R \in Nat /\ W \in Nat /\ R <= W
    BY CountsAre
  <2> QED BY <2>1, Zenon DEF ClaimsAre, InOrder, Side
<1>2. /\ t \notin EnqsOpen /\ t \notin DeqsOpen
      /\ EnqsOpen' = EnqsOpen \cup {t} /\ DeqsOpen' = DeqsOpen
  <2>1. /\ t \notin EnqsOpen /\ t \in EnqsOpen' /\ t \notin DeqsOpen /\ t \notin DeqsOpen'
    BY <1>0, OpenAt, OpenAfter DEF EnqClaimed, DeqClaimed
  <2> QED BY <2>1, OpenSets
<1>3. PICK hr, hw : /\ hr = With(gr, t, R) /\ hw = With(gw, t, W)
                    /\ ClaimsAre(R, W + 1, hr, hw)'
  <2>1. ~IsFull(loc[t].rdwr)
    BY <1>0 DEF Tested
  <2>2. ClaimsAre(R, W + 1, With(gr, t, R), With(gw, t, W))'
    BY <1>0, <2>1, EnqClaims
  <2> QED BY <2>2
<1>4. /\ hr[t] = R /\ hw[t] = W
      /\ \A u \in EnqsOpen \cup DeqsOpen : hr[u] = gr[u] /\ hw[u] = gw[u]
  BY <1>2, <1>3 DEF With, EnqsOpen, DeqsOpen
<1>5. \A u \in Threads : Current(u)' = Current(u)
  BY <1>0, Zenon DEF Current
<1>6. \A p : p # W => \A u \in Threads : Holds(hw, u, p)' <=> Holds(gw, u, p)
  <2>1. \A u \in Threads : u # t => pc'[u] = pc[u]
    BY DEF OthersStay
  <2> QED BY <1>2, <1>4, <2>1 DEF Holds
<1>7. \A d \in DeqsOpen : EnqBefore(hr, d)' <=> EnqBefore(gr, d)
  <2>1. \A d \in DeqsOpen : ~(R <= gr[d])
    BY <1>1, SMT
  <2> QED BY <1>2, <1>4, <2>1 DEF EnqBefore
<1>8. \A p \in Nat : Live(R, W, gr, p) => Live(R, W + 1, hr, p)'
  <2>1. \A p \in Nat : p < W => p < W + 1
    BY <1>1, SMT
  <2>2. ASSUME NEW p, NEW d \in DeqsOpen, gr[d] = p, EnqBefore(gr, d)
        PROVE  hr[d] = p /\ EnqBefore(hr, d)' /\ d \in DeqsOpen'
    BY <1>2, <1>4, <1>7, <2>2
  <2> QED BY <2>1, <2>2, Zenon DEF Live
<1>9. ASSUME NEW p \in Nat, Live(R, W, gr, p) PROVE Item(p)' = Item(p)
  <2>1. p # W
    BY <1>1, <1>9, SMT DEF Live
  <2> QED BY <1>0, <1>3, <1>5, <1>6, <1>8, <1>9, <2>1, SameItem
<1>10. Item(W)' = Current(t).val
  <2>1. Live(R, W + 1, hr, W)'
    BY <1>1, SMT DEF Live
  <2>2. Holds(hw, t, W)'
    BY <1>0, <1>2, <1>4 DEF Holds
  <2>3. Item(W)' = Current(t)'.val
    BY <1>1, <1>3, <2>1, <2>2, Zenon DEF Tells, ItemsTell
  <2> QED BY <1>5, <2>3
<1>11. /\ n \in Nat /\ HasPlaces(Queue, n) /\ HasPlaces(Queue', n + 1)
       /\ \A i \in 1 .. n : Queue'[i] = Queue[i]
       /\ Queue'[n + 1] = Current(t).val
  <2>1. /\ n \in Nat /\ R + (n + 1 - 1) = W
        /\ n + 1 \in 1 .. n + 1
        /\ \A i \in 1 .. n : /\ R + (i - 1) \in Nat /\ R + (i - 1) < W
                             /\ R <= R + (i - 1) /\ i \in 1 .. n + 1
    BY <1>1, SMT
  <2>2. HasPlaces(Queue, n) /\ \A i \in 1 .. n : Queue[i] = Item(R + (i - 1))
    BY Zenon DEF Tells, QueueTells
  <2> HIDE DEF n
  <2>4. HasPlaces(Queue', n + 1) /\ \A i \in 1 .. n + 1 : Queue'[i] = Item(R + (i - 1))'
    <3>1. QueueTells'
      BY DEF Tells
    <3>2. PICK V : V = W + 1 /\ ClaimsAre(R, V, hr, hw)'
      BY <1>3
    <3>3. /\ HasPlaces(Queue', V - R)
          /\ \A i \in 1 .. V - R : Queue'[i] = Item(R + (i - 1))'
      BY ONLY <3>1, <3>2, Zenon DEF QueueTells, HasPlaces
    <3>4. V - R = n + 1
      BY <1>1, <3>2, SMT DEF n
    <3> QED BY ONLY <3>3, <3>4, Zenon
  <2>5. Queue'[n + 1] = Current(t).val
    BY <1>10, <2>1, <2>4
  <2>6. ASSUME NEW i \in 1 .. n PROVE Queue'[i] = Queue[i]
    <3>1. PICK p \in Nat : p = R + (i - 1)
      BY <2>1
    <3>2. Live(R, W, gr, p)
      BY <2>1, <3>1 DEF Live
    <3>3. Item(p)' = Item(p)
      BY <1>9, <3>2
    <3>4. Queue'[i] = Item(p)' /\ Queue[i] = Item(p)
      BY <2>1, <2>2, <2>4, <3>1
    <3> QED BY <3>3, <3>4
  <2> QED BY <2>1, <2>2, <2>4, <2>5, <2>6
<1> HIDE DEF n
<1>12. Queue' = Append(Queue, Current(t).val)
  <2>1. Queue' = Append(Queue, Queue'[n + 1])
    BY ONLY <1>11, PushedBack
  <2> QED BY <1>11, <2>1
<1>13. ASSUME NEW d \in DeqsOpen PROVE ItemFor(d)' = ItemFor(d)
  <2>1. d \in DeqsOpen' /\ hr[d] = gr[d] /\ (EnqBefore(hr, d)' <=> EnqBefore(gr, d))
    BY <1>2, <1>4, <1>7, <1>13
  <2>2. EnqBefore(gr, d) => Item(gr[d])' = Item(gr[d])
    <3>1. EnqBefore(gr, d) => Live(R, W, gr, gr[d])
      BY Zenon DEF Tells, DeqsTell
    <3> QED BY <1>1, <1>9, <3>1
  <2> QED BY <1>0, <1>3, <2>1, <2>2, SameFor
<1>14. /\ Stage[t] = "called" /\ Stage' = [Stage EXCEPT ![t] = "done"]
       /\ Res' = [Res EXCEPT ![t] = "ok"]
  <2>1. Stage[t] = "called" /\ Stage'[t] = "done" /\ Res'[t] = "ok"
    <3>1. t \in EnqsOpen' /\ ~SeesEmpty(t) /\ t \notin EnqsOpen \cup DeqsOpen
      BY <1>0, <1>2 DEF SeesEmpty
    <3> QED BY <1>0, <3>1 DEF Tells, SeenTells, Ok
  <2>2. /\ Stage' = [Stage EXCEPT ![t] = Stage'[t]]
        /\ Res' = [Res EXCEPT ![t] = Res'[t]]
    BY <1>13, SameSeen
  <2> QED BY <2>1, <2>2
<1>15. Script[t][ip[t]].kind = "enq"
  BY <1>0 DEF InOwnCall, InCallOf, EnqLabels, Current
<1> QED BY <1>0, <1>12, <1>14, <1>15 DEF Abs!Enqueue, Abs!Effect, Current

\* The CAS on m_rdwr takes the oldest item, from its slot or from the enqueuer
\* that the dequeue will wait for.
LEMMA DeqTakesEffect ==
    ASSUME FewThreads, IInv, InOwnCall', Tells, Tells', NEW t \in Threads, OthersStay(t),
           NEW R, NEW W, NEW gr, NEW gw, ClaimsAre(R, W, gr, gw),
           DeqClaim(t), Goto(t, "d_wait"), rdwr = loc[t].rdwr, loc' = loc,
           rdwr' = [loc[t].rdwr EXCEPT !.rd = Count(@)]
    PROVE  Abs!Dequeue(t)
<1> DEFINE n == W - (R + 1)
<1>0. /\ TypeOK /\ InOwnCall /\ Tested /\ pc[t] = "d_cas" /\ pc'[t] = "d_wait"
      /\ UNCHANGED <<ip, ret, m_read, m_written, m_array>>
  BY PcType, Zenon DEF IInv, DeqClaim, Goto
<1>1. /\ R \in Nat /\ W \in Nat /\ R <= W /\ R # W
      /\ \A u \in EnqsOpen : gr[u] <= R
      /\ \A u \in DeqsOpen : gr[u] \in Nat
  <2>1. /\ R \in Nat /\ W \in Nat /\ R <= W /\ W <= R + Size
        /\ \A u \in EnqsOpen : gr[u] <= R
        /\ \A u \in DeqsOpen : gr[u] \in Nat
    BY CountsAre
  <2>2. rdwr = Words(R, W)
    BY Zenon DEF ClaimsAre
  <2>3. ~IsEmpty(Words(R, W))
    BY <1>0, <2>2, Zenon DEF Tested
  <2> QED BY <2>1, <2>3, HalvesCount
<1>2. /\ t \notin EnqsOpen /\ t \notin DeqsOpen
      /\ DeqsOpen' = DeqsOpen \cup {t} /\ EnqsOpen' = EnqsOpen
  <2>1. /\ t \notin EnqsOpen /\ t \in DeqsOpen' /\ t \notin DeqsOpen /\ t \notin EnqsOpen'
    BY <1>0, OpenAt, OpenAfter DEF EnqClaimed, DeqClaimed
  <2> QED BY <2>1, OpenSets
<1>3. PICK hr, hw : /\ hr = With(gr, t, R) /\ hw = With(gw, t, W)
                    /\ ClaimsAre(R + 1, W, hr, hw)'
  <2>1. ~IsEmpty(loc[t].rdwr)
    BY <1>0 DEF Tested
  <2>2. ClaimsAre(R + 1, W, With(gr, t, R), With(gw, t, W))'
    BY <1>0, <2>1, DeqClaims
  <2> QED BY <2>2
<1>4. /\ hr[t] = R /\ hw[t] = W
      /\ \A u \in EnqsOpen \cup DeqsOpen : hr[u] = gr[u] /\ hw[u] = gw[u]
  BY <1>2, <1>3 DEF With, EnqsOpen, DeqsOpen
<1>5. \A u \in Threads : Current(u)' = Current(u)
  BY <1>0, Zenon DEF Current
<1>6. \A p : \A u \in Threads : Holds(hw, u, p)' <=> Holds(gw, u, p)
  <2>1. \A u \in Threads : u # t => pc'[u] = pc[u]
    BY DEF OthersStay
  <2> QED BY <1>2, <1>4, <2>1 DEF Holds
<1>7. \A d \in DeqsOpen : EnqBefore(hr, d)' <=> EnqBefore(gr, d)
  BY <1>2, <1>4 DEF EnqBefore
<1>8. \A p \in Nat : p # R /\ Live(R, W, gr, p) => Live(R + 1, W, hr, p)'
  <2>1. \A p \in Nat : p # R /\ R <= p => R + 1 <= p
    BY <1>1, SMT
  <2>2. ASSUME NEW p, NEW d \in DeqsOpen, gr[d] = p, EnqBefore(gr, d)
        PROVE  hr[d] = p /\ EnqBefore(hr, d)' /\ d \in DeqsOpen'
    BY <1>2, <1>4, <1>7, <2>2
  <2> QED BY <2>1, <2>2, Zenon DEF Live
<1>9. ASSUME NEW p \in Nat, Live(R, W, gr, p), Live(R + 1, W, hr, p)'
      PROVE  Item(p)' = Item(p)
  BY <1>0, <1>3, <1>5, <1>6, <1>9, SameItem
<1>l. Live(R, W, gr, R)
  BY <1>1, SMT DEF Live
<1>10. ItemFor(t)' = Item(R)
  <2>0. /\ EnqBefore(hr, t)' => ItemFor(t)' = Item(R)' /\ Live(R + 1, W, hr, R)'
        /\ ~EnqBefore(hr, t)' => ItemFor(t)' = m_array'[Slot(R)]
    <3>1. DeqsTell' /\ ClaimsAre(R + 1, W, hr, hw)' /\ t \in DeqsOpen'
      BY <1>2, <1>3 DEF Tells
    <3>2. PICK S : S = R + 1 /\ ClaimsAre(S, W, hr, hw)'
      BY <3>1
    <3>3. /\ EnqBefore(hr, t)' => ItemFor(t)' = Item(hr[t])' /\ Live(S, W, hr, hr[t])'
          /\ ~EnqBefore(hr, t)' => ItemFor(t)' = m_array'[Slot(hr[t])']
      BY ONLY <3>1, <3>2 DEF DeqsTell
    <3>4. /\ Item(hr[t])' = Item(R)' /\ Slot(hr[t])' = Slot(R)
          /\ Live(S, W, hr, hr[t])' <=> Live(R + 1, W, hr, R)'
      BY <1>4, <3>2, Zenon DEF Item, ItemOf, Unwritten, Slot, Live
    <3> QED BY <3>3, <3>4
  <2>1. CASE EnqBefore(hr, t)'
    BY <1>1, <1>9, <1>l, <2>0, <2>1
  <2>2. CASE ~EnqBefore(hr, t)'
    <3>1. EnqsOpen = {}
      BY <1>1, <1>2, <1>4, <2>2 DEF EnqBefore
    <3>2. \A u \in Threads : ~Holds(gw, u, R)
      BY <3>1 DEF Holds
    <3>3. Item(R) = m_array[Slot(R)]
      BY <1>1, <1>l, <3>2, Zenon DEF Tells, ItemsTell
    <3> QED BY <1>0, <2>0, <2>2, <3>3
  <2> QED BY <2>1, <2>2
<1>11. /\ n \in Nat /\ HasPlaces(Queue, n + 1) /\ HasPlaces(Queue', n)
       /\ \A i \in 1 .. n : Queue'[i] = Queue[i + 1]
       /\ Queue[1] = Item(R)
  <2>1. /\ n \in Nat /\ W - R = n + 1 /\ R + (1 - 1) = R /\ 1 \in 1 .. n + 1
        /\ \A i \in 1 .. n : /\ R + 1 + (i - 1) \in Nat /\ R + 1 + (i - 1) < W
                             /\ R <= R + 1 + (i - 1) /\ R + 1 + (i - 1) # R
                             /\ R + 1 + (i - 1) = R + ((i + 1) - 1)
                             /\ i + 1 \in 1 .. n + 1
    BY <1>1, SMT
  <2>2. /\ HasPlaces(Queue, W - R)
        /\ \A i \in 1 .. W - R : Queue[i] = Item(R + (i - 1))
    BY Zenon DEF Tells, QueueTells
  <2>3. HasPlaces(Queue', n) /\ \A i \in 1 .. n : Queue'[i] = Item(R + 1 + (i - 1))'
    <3>1. QueueTells'
      BY DEF Tells
    <3>2. PICK S : S = R + 1 /\ ClaimsAre(S, W, hr, hw)'
      BY <1>3
    <3>3. /\ HasPlaces(Queue', W - S)
          /\ \A i \in 1 .. W - S : Queue'[i] = Item(S + (i - 1))'
      BY ONLY <3>1, <3>2, Zenon DEF QueueTells, HasPlaces
    <3> QED BY <3>2, <3>3, Zenon
  <2> HIDE DEF n
  <2>4. HasPlaces(Queue, n + 1) /\ \A i \in 1 .. n + 1 : Queue[i] = Item(R + (i - 1))
    BY <2>1, <2>2, Zenon
  <2>5. ASSUME NEW i \in 1 .. n PROVE Queue'[i] = Queue[i + 1]
    <3>1. PICK p \in Nat : p = R + 1 + (i - 1)
      BY <2>1
    <3>2. Live(R, W, gr, p) /\ p # R
      BY <2>1, <3>1 DEF Live
    <3>3. Item(p)' = Item(p)
      BY <1>8, <1>9, <3>2
    <3>4. Queue'[i] = Item(p)' /\ Queue[i + 1] = Item(p)
      BY <2>1, <2>3, <2>4, <3>1, Zenon
    <3> QED BY <3>3, <3>4
  <2>6. Queue[1] = Item(R)
    BY <2>1, <2>4, Zenon
  <2> QED BY <2>1, <2>3, <2>4, <2>5, <2>6
<1> HIDE DEF n
<1>12. Queue # << >> /\ Head(Queue) = Queue[1] /\ Tail(Queue) = Queue'
  BY ONLY <1>11, PoppedFront
<1>13. ASSUME NEW d \in DeqsOpen PROVE ItemFor(d)' = ItemFor(d)
  <2>1. d \in DeqsOpen' /\ hr[d] = gr[d] /\ (EnqBefore(hr, d)' <=> EnqBefore(gr, d))
    BY <1>2, <1>4, <1>7, <1>13
  <2>2. EnqBefore(gr, d) => Item(gr[d])' = Item(gr[d])
    <3>1. EnqBefore(gr, d) => Live(R, W, gr, gr[d])
      BY Zenon DEF Tells, DeqsTell
    <3>2. gr[d] # R
      BY <1>13, <1>1, SMT DEF ClaimsAre, InOrder, Side
    <3> QED BY <1>1, <1>8, <1>9, <3>1, <3>2
  <2> QED BY <1>0, <1>3, <2>1, <2>2, SameFor
<1>14. /\ Stage[t] = "called" /\ Stage' = [Stage EXCEPT ![t] = "done"]
       /\ Res' = [Res EXCEPT ![t] = Item(R)]
  <2>1. Stage[t] = "called" /\ Stage'[t] = "done" /\ Res'[t] = Item(R)
    <3>1. t \in DeqsOpen' /\ ~SeesEmpty(t) /\ t \notin EnqsOpen \cup DeqsOpen
      BY <1>0, <1>2 DEF SeesEmpty
    <3> QED BY <1>0, <1>10, <3>1 DEF Tells, SeenTells
  <2>2. /\ Stage' = [Stage EXCEPT ![t] = Stage'[t]]
        /\ Res' = [Res EXCEPT ![t] = Res'[t]]
    BY <1>13, SameSeen
  <2> QED BY <2>1, <2>2
<1>15. Script[t][ip[t]].kind = "deq"
  BY <1>0 DEF InOwnCall, InCallOf, DeqLabels, Current
<1> QED BY <1>0, <1>11, <1>12, <1>14, <1>15 DEF Abs!Dequeue, Abs!Effect

-----------------------------------------------------------------------------
\* The other steps.

\* While an enqueue whose wait is over is in progress it is before every
\* dequeue in progress.
LEMMA PastIsFirst ==
    ASSUME NEW R, NEW W, NEW gr, NEW gw, ClaimsAre(R, W, gr, gw),
           NEW t \in EnqsPast, NEW d \in DeqsOpen
    PROVE  gw[t] < gw[d] /\ EnqBefore(gr, d)
<1>1. /\ Side(EnqsOpen, DeqsOpen, EnqsPast, gw, gr, W, R)
      /\ t \in EnqsOpen /\ gw[t] \in Nat /\ gw[d] \in Nat
  BY CountsAre DEF ClaimsAre, InOrder
<1>2. gw[t] < gw[d] /\ (Before(gw, gr, t, d) \/ Before(gr, gw, d, t))
  BY <1>1, Zenon DEF Side
<1>3. gr[t] <= gr[d]
  BY <1>1, <1>2, SMT DEF Before
<1> QED BY <1>1, <1>2, <1>3 DEF EnqBefore

\* A live place with the slot of the place t may write is not yet written: its
\* enqueuer waits for the dequeue of the place of t.
LEMMA SlotInUse ==
    ASSUME NEW R, NEW W, NEW gr, NEW gw, ClaimsAre(R, W, gr, gw),
           NEW t \in EnqsPast, NEW p \in Nat, Live(R, W, gr, p),
           p # gw[t], Slot(p) = Slot(gw[t])
    PROVE  \E u \in EnqsOpen \ EnqsPast : gw[u] = p
<1>0. /\ Side(EnqsOpen, DeqsOpen, EnqsPast, gw, gr, W, R)
      /\ Side(DeqsOpen, EnqsOpen, DeqsPast, gr, gw, R, W)
      /\ t \in EnqsOpen /\ gw[t] \in Nat /\ gr[t] \in Nat /\ gw[t] < W
      /\ gr[t] <= gw[t] /\ R \in Nat /\ W \in Nat /\ W <= R + Size
      /\ Size \in Nat \ {0} /\ p < W
      /\ \A u \in EnqsOpen \cup DeqsOpen : gr[u] \in Nat /\ gw[u] \in Nat
      /\ \A d \in DeqsOpen : gw[d] <= gr[d] + Size
  <2>1. t \in EnqsOpen
    BY CountsAre
  <2>2. p < W
    BY DEF Live
  <2> QED BY <2>1, <2>2, CountsAre, SizeAssumption, WordAssumption DEF ClaimsAre, InOrder, Side
<1>1. CASE gw[t] < p
  <2>1. gw[t] + Size <= p
    BY <1>0, <1>1, SlotsApart
  <2>2. gr[t] <= gw[t] /\ gw[t] < R
    BY <1>0, <2>1, SMT
  <2>3. PICK d \in DeqsOpen : gr[d] = gw[t]
    BY <1>0, <2>2, Zenon DEF Side
  <2>4. gw[d] <= p /\ gw[d] \in Nat
    BY <1>0, <2>1, <2>3, SMT
  <2>5. PICK u \in EnqsOpen : gw[u] = p
    BY <1>0, <2>4, Zenon DEF Side
  <2>6. u \in EnqsPast => gw[u] < gw[d]
    BY <1>0, <2>3, <2>5, Zenon DEF Side
  <2> QED BY <2>4, <2>5, <2>6, SMT
<1>2. CASE ~(gw[t] < p)
  <2>1. p + Size <= gw[t]
    <3>1. p < gw[t]
      BY <1>0, <1>2, SMT
    <3> QED BY <1>0, <3>1, SlotsApart
  <2>2. ~(R <= p)
    BY <1>0, <2>1, SMT
  <2>3. PICK d \in DeqsOpen : gr[d] = p
    BY <2>2, Zenon DEF Live
  <2>4. gw[t] < gw[d] /\ gw[d] <= p + Size /\ gw[d] \in Nat
    BY <1>0, <2>3, PastIsFirst
  <2> QED BY <1>0, <2>1, <2>4, SMT
<1> QED BY <1>1, <1>2

\* The payload an enqueue stores is the item its place had.
LEMMA WriteKeepsItems ==
    ASSUME IInv, InOwnCall', Tells, Tells', NEW t \in Threads, OthersStay(t),
           NEW R, NEW W, NEW gr, NEW gw, ClaimsAre(R, W, gr, gw), EnqWriteValue(t)
    PROVE  UNCHANGED Abs!vars
<1> DEFINE P == gw[t]
<1>0. /\ TypeOK /\ InOwnCall /\ pc[t] = "e_val" /\ pc'[t] = "e_done"
      /\ m_array' = [m_array EXCEPT ![WriteSlot(t)] = Current(t).val]
      /\ UNCHANGED <<ip, ret, rdwr, m_read, m_written, loc>>
  BY PcType, Zenon DEF IInv, EnqWriteValue, Goto
<1>1. /\ t \in EnqsOpen /\ t \in EnqsOpen' /\ t \in EnqsPast
      /\ EnqsOpen' = EnqsOpen /\ DeqsOpen' = DeqsOpen
  <2>1. /\ t \in EnqsOpen /\ t \in EnqsOpen' /\ t \notin DeqsOpen /\ t \notin DeqsOpen'
        /\ t \in EnqsPast
    BY <1>0, OpenAt, OpenAfter DEF EnqClaimed, DeqClaimed
  <2> QED BY <2>1, OpenSets
<1>2. ClaimsAre(R, W, gr, gw)'
  BY <1>0, StaysOpen
<1>3. /\ P \in Nat /\ WriteSlot(t) = Slot(P) /\ Slot(P) \in Slots
      /\ m_array'[Slot(P)] = Current(t).val
      /\ \A p \in Nat : Slot(p) # Slot(P) => m_array'[Slot(p)] = m_array[Slot(p)]
  <2>1. P \in Nat
    BY <1>1, CountsAre
  <2>2. loc[t].rdwr.wr = P % Word
    <3>1. loc[t].rdwr = Words(gr[t], gw[t])
      BY <1>1, Zenon DEF ClaimsAre
    <3> QED BY <3>1, HalvesAre
  <2>3. WriteSlot(t) = Slot(P)
    BY <2>1, <2>2, SlotOf DEF WriteSlot
  <2> HIDE DEF P
  <2> QED BY <1>0, <2>1, <2>3, CountBound DEF TypeOK
<1>4. \A p : Live(R, W, gr, p)' <=> Live(R, W, gr, p)
  BY <1>1, Zenon DEF Live, EnqBefore
<1>5. /\ \A u \in Threads : Current(u)' = Current(u)
      /\ \A u \in Threads : u # t => pc'[u] = pc[u]
  BY <1>0, Zenon DEF Current, OthersStay
<1>6. \A p : p # P => \A u \in Threads : Holds(gw, u, p)' <=> Holds(gw, u, p)
  BY <1>1, <1>5, Zenon DEF Holds
<1>7. ASSUME NEW p \in Nat, Live(R, W, gr, p) PROVE Item(p)' = Item(p)
  <2>1. CASE p = P
    <3>1. Holds(gw, t, p) /\ \A u \in Threads : ~Holds(gw, u, p)'
      <4>1. \A u \in EnqsOpen : u # t => gw[u] # gw[t]
        BY <1>1, Zenon DEF ClaimsAre, InOrder, Side
      <4> QED BY <1>0, <1>1, <2>1, <4>1 DEF Holds
    <3>2. Item(p) = Current(t).val
      BY <1>7, <3>1, Zenon DEF Tells, ItemsTell
    <3>3. Item(p)' = m_array'[Slot(p)']
      <4>1. ItemsTell' /\ Live(R, W, gr, p)'
        BY <1>4, <1>7 DEF Tells
      <4>2. \A u \in Threads : ~Holds(gw, u, p)'
        BY <3>1
      <4> QED BY ONLY <1>2, <4>1, <4>2, p \in Nat DEF ItemsTell
    <3>4. Slot(p)' = Slot(p)
      BY DEF Slot
    <3> QED BY <1>3, <2>1, <3>2, <3>3, <3>4
  <2>2. CASE p # P
    <3>1. \/ \E u \in Threads : Holds(gw, u, p)
          \/ m_array'[Slot(p)] = m_array[Slot(p)]
      <4>1. CASE Slot(p) = Slot(P)
        <5>1. PICK u \in EnqsOpen \ EnqsPast : gw[u] = p
          BY <1>1, <1>7, <2>2, <4>1, SlotInUse
        <5>2. Holds(gw, u, p) /\ u \in Threads
          BY <5>1 DEF Holds, EnqsOpen, EnqsPast
        <5> QED BY <5>2
      <4>2. CASE Slot(p) # Slot(P)
        BY <1>3, <4>2
      <4> QED BY <4>1, <4>2
    <3> QED BY <1>2, <1>4, <1>5, <1>6, <1>7, <2>2, <3>1, SameItem
  <2> QED BY <2>1, <2>2
<1>8. Queue' = Queue
  <2>1. \A p \in Nat : R <= p /\ p < W => Live(R, W, gr, p)
    BY Zenon DEF Live
  <2> QED BY <1>2, <1>7, <2>1, SameQueue
<1>9. ASSUME NEW d \in DeqsOpen PROVE ItemFor(d)' = ItemFor(d)
  <2>1. EnqBefore(gr, d) /\ EnqBefore(gr, d)' /\ d \in DeqsOpen'
    <3>1. EnqBefore(gr, d)
      BY <1>1, PastIsFirst
    <3> QED BY <1>1, <3>1, Zenon DEF EnqBefore
  <2>2. Live(R, W, gr, gr[d]) /\ gr[d] \in Nat
    BY <2>1, CountsAre, Zenon DEF Tells, DeqsTell
  <2>3. Item(gr[d])' = Item(gr[d])
    BY <1>7, <2>2
  <2> QED BY <1>2, <2>1, <2>3, SameFor
<1>10. Stage' = Stage /\ Res' = Res
  <2>1. Stage'[t] = Stage[t] /\ Res'[t] = Res[t]
    BY <1>1 DEF Tells, SeenTells
  <2> QED BY <1>9, <2>1, SameSeen
<1> QED BY <1>0, <1>8, <1>10 DEF Abs!vars

\* An enqueue returns.  A dequeue that waited for it alone now reads its item
\* from the slot.
LEMMA EnqReturns ==
    ASSUME FewThreads, IInv, InOwnCall', Tells, Tells', NEW t \in Threads, OthersStay(t),
           NEW R, NEW W, NEW gr, NEW gw, ClaimsAre(R, W, gr, gw), EnqDone(t)
    PROVE  Abs!Return(t)
<1>0. /\ TypeOK /\ InOwnCall /\ pc[t] = "e_done" /\ pc'[t] = "idle" /\ ret'[t] = Ok
      /\ m_written' = m_written + 1
      /\ UNCHANGED <<ip, rdwr, m_read, m_array, loc>>
  BY PcType, Zenon DEF IInv, EnqDone, Return
<1>1. /\ t \in EnqsOpen /\ t \in EnqsPast /\ t \notin EnqsOpen' /\ t \notin DeqsOpen'
      /\ EnqsOpen' = EnqsOpen \ {t} /\ DeqsOpen' = DeqsOpen
  <2>1. /\ t \in EnqsOpen /\ t \notin EnqsOpen' /\ t \notin DeqsOpen /\ t \notin DeqsOpen'
        /\ t \in EnqsPast
    BY <1>0, OpenAt, OpenAfter DEF EnqClaimed, DeqClaimed
  <2> QED BY <2>1, OpenSets
<1>2. ClaimsAre(R, W, gr, gw)'
  BY <1>0, CallDone
<1>5. \A u \in Threads : Current(u)' = Current(u)
  BY <1>0, Zenon DEF Current
<1>6. \A p : \A u \in Threads : Holds(gw, u, p)' <=> Holds(gw, u, p)
  <2>1. \A u \in Threads : u # t => pc'[u] = pc[u]
    BY Zenon DEF OthersStay
  <2> QED BY <1>0, <1>1, <2>1 DEF Holds
<1>7. ASSUME NEW p \in Nat, Live(R, W, gr, p), Live(R, W, gr, p)' PROVE Item(p)' = Item(p)
  BY <1>0, <1>2, <1>5, <1>6, <1>7, SameItem
<1>8. Queue' = Queue
  <2>1. \A p \in Nat : R <= p /\ p < W => Live(R, W, gr, p) /\ Live(R, W, gr, p)'
    BY Zenon DEF Live
  <2> QED BY <1>2, <1>7, <2>1, SameQueue
<1>9. ASSUME NEW d \in DeqsOpen PROVE ItemFor(d)' = ItemFor(d)
  <2>1. EnqBefore(gr, d) /\ d \in DeqsOpen'
    BY <1>1, PastIsFirst
  <2>2. ItemFor(d) = Item(gr[d]) /\ Live(R, W, gr, gr[d]) /\ gr[d] \in Nat
    <3>1. ItemFor(d) = Item(gr[d]) /\ Live(R, W, gr, gr[d])
      BY <2>1, Zenon DEF Tells, DeqsTell
    <3> QED BY <3>1, CountsAre
  <2>3. CASE EnqBefore(gr, d)'
    <3>1. Live(R, W, gr, gr[d])'
      BY <2>1, <2>2, <2>3, Zenon DEF Live
    <3>2. Item(gr[d])' = Item(gr[d])
      BY <1>7, <2>2, <3>1
    <3> QED BY <1>2, <2>1, <2>3, <3>2, SameFor
  <2>4. CASE ~EnqBefore(gr, d)'
    <3>1. \A e \in Threads : ~Holds(gw, e, gr[d])
      <4> SUFFICES ASSUME NEW e \in Threads, Holds(gw, e, gr[d]) PROVE FALSE
        OBVIOUS
      <4>1. e \in EnqsOpen /\ gw[e] = gr[d] /\ e \in EnqsOpen'
        BY <1>0, <1>1 DEF Holds
      <4>2. /\ Before(gw, gr, e, d) \/ Before(gr, gw, d, e)
            /\ gr[d] < gw[d] /\ gw[d] \in Nat
        BY <4>1, CountsAre, Zenon DEF ClaimsAre, InOrder, Side
      <4>3. gr[e] <= gr[d]
        BY <2>2, <4>1, <4>2, SMT DEF Before
      <4> QED BY <2>4, <4>1, <4>3 DEF EnqBefore
    <3>2. Item(gr[d]) = m_array[Slot(gr[d])]
      BY <2>2, <3>1, Zenon DEF Tells, ItemsTell
    <3>3. ItemFor(d)' = m_array'[Slot(gr[d])']
      <4>1. DeqsTell'
        BY DEF Tells
      <4> QED BY ONLY <1>2, <2>1, <2>4, <4>1 DEF DeqsTell
    <3> QED BY <1>0, <2>2, <3>2, <3>3 DEF Slot
  <2> QED BY <2>3, <2>4
<1>10. /\ Stage[t] = "done" /\ Stage' = [Stage EXCEPT ![t] = "idle"] /\ Res' = Res
  <2>1. Stage[t] = "done" /\ Stage'[t] = "idle" /\ Res'[t] = Res[t]
    <3>1. ~SeesEmpty(t)'
      BY <1>0 DEF SeesEmpty
    <3> QED BY <1>0, <1>1, <3>1 DEF Tells, SeenTells
  <2>2. /\ Stage' = [Stage EXCEPT ![t] = Stage'[t]]
        /\ Res'[t] = Res[t] => Res' = Res
    BY <1>9, SameSeen
  <2> QED BY <2>1, <2>2
<1> QED BY <1>0, <1>8, <1>10 DEF Abs!Return

\* A dequeue returns.
LEMMA DeqReturns ==
    ASSUME FewThreads, IInv, InOwnCall', Tells, Tells', NEW t \in Threads, OthersStay(t),
           NEW R, NEW W, NEW gr, NEW gw, ClaimsAre(R, W, gr, gw), DeqDone(t)
    PROVE  Abs!Return(t)
<1>0. /\ TypeOK /\ InOwnCall /\ pc[t] = "d_done" /\ pc'[t] = "idle"
      /\ ret'[t] = loc[t].val /\ m_read' = m_read + 1
      /\ UNCHANGED <<ip, rdwr, m_written, m_array, loc>>
  BY PcType, Zenon DEF IInv, DeqDone, Return
<1>1. /\ t \in DeqsOpen /\ t \notin EnqsOpen /\ t \notin EnqsOpen' /\ t \notin DeqsOpen'
      /\ DeqsOpen' = DeqsOpen \ {t} /\ EnqsOpen' = EnqsOpen
  <2>1. t \in DeqsOpen /\ t \notin EnqsOpen /\ t \notin DeqsOpen' /\ t \notin EnqsOpen'
    BY <1>0, OpenAt, OpenAfter DEF EnqClaimed, DeqClaimed
  <2> QED BY <2>1, OpenSets
<1>2. ClaimsAre(R, W, gr, gw)'
  BY <1>0, CallDone
<1>3. \A d \in DeqsOpen : EnqBefore(gr, d)' <=> EnqBefore(gr, d)
  BY <1>1, Zenon DEF EnqBefore
<1>5. \A u \in Threads : Current(u)' = Current(u)
  BY <1>0, Zenon DEF Current
<1>6. \A p : \A u \in Threads : Holds(gw, u, p)' <=> Holds(gw, u, p)
  <2>1. \A u \in Threads : u # t => pc'[u] = pc[u]
    BY Zenon DEF OthersStay
  <2> QED BY <1>1, <2>1, Zenon DEF Holds
<1>7. ASSUME NEW p \in Nat, Live(R, W, gr, p), Live(R, W, gr, p)' PROVE Item(p)' = Item(p)
  BY <1>0, <1>2, <1>5, <1>6, <1>7, SameItem
<1>8. Queue' = Queue
  <2>1. \A p \in Nat : R <= p /\ p < W => Live(R, W, gr, p) /\ Live(R, W, gr, p)'
    BY Zenon DEF Live
  <2> QED BY <1>2, <1>7, <2>1, SameQueue
<1>9. ASSUME NEW d \in DeqsOpen \ {t} PROVE ItemFor(d)' = ItemFor(d)
  <2>1. d \in DeqsOpen /\ d \in DeqsOpen'
    BY <1>1
  <2>2. EnqBefore(gr, d) => Item(gr[d])' = Item(gr[d])
    <3>1. gr[d] \in Nat
      BY <2>1, CountsAre
    <3>2. EnqBefore(gr, d) => Live(R, W, gr, gr[d])
      BY <2>1, Zenon DEF Tells, DeqsTell
    <3>3. EnqBefore(gr, d) => Live(R, W, gr, gr[d])'
      BY <1>3, <2>1, <3>2, Zenon DEF Live
    <3> QED BY <1>7, <3>1, <3>2, <3>3
  <2> QED BY <1>0, <1>2, <1>3, <2>1, <2>2, SameFor
<1>10. /\ Stage[t] = "done" /\ Stage' = [Stage EXCEPT ![t] = "idle"] /\ Res' = Res
  <2>1. Stage[t] = "done" /\ Stage'[t] = "idle" /\ Res'[t] = Res[t]
    <3>1. ~SeesEmpty(t)'
      BY <1>0 DEF SeesEmpty
    <3> QED BY <1>0, <1>1, <3>1 DEF Tells, SeenTells
  <2>2. /\ Stage' = [Stage EXCEPT ![t] = Stage'[t]]
        /\ Res'[t] = Res[t] => Res' = Res
    BY <1>9, SameSeen
  <2> QED BY <2>1, <2>2
<1> QED BY <1>0, <1>8, <1>10 DEF Abs!Return

\* A step of a thread that has not claimed, or whose turns have ended.
LEMMA OutsideStep ==
    ASSUME IInv, InOwnCall', Tells, Tells', NEW t \in Threads, OthersStay(t),
           NEW R, NEW W, NEW gr, NEW gw, ClaimsAre(R, W, gr, gw),
           UNCHANGED <<rdwr, m_read, m_written, m_array>>,
           pc[t] \notin EnqClaimed \cup DeqClaimed, pc[t] # "blocked",
           pc'[t] \notin EnqClaimed \cup DeqClaimed,
           pc'[t] = "blocked" => ~(cnt'[t] < MaxIter)
    PROVE  /\ t \notin EnqsOpen \cup DeqsOpen /\ t \notin (EnqsOpen \cup DeqsOpen)'
           /\ Queue' = Queue
           /\ Stage' = [Stage EXCEPT ![t] = Stage'[t]]
           /\ Stage'[t] = Stage[t] => Stage' = Stage
           /\ Res' = [Res EXCEPT ![t] = Res'[t]]
           /\ Res'[t] = Res[t] => Res' = Res
<1>0. InOwnCall /\ ClaimsAre(R, W, gr, gw)'
  BY QuietStep DEF IInv
<1>1. t \notin EnqsOpen /\ t \notin EnqsOpen' /\ t \notin DeqsOpen /\ t \notin DeqsOpen'
  BY <1>0, OpenAt, OpenAfter DEF EnqClaimed, DeqClaimed
<1>2. /\ EnqsOpen' = EnqsOpen /\ DeqsOpen' = DeqsOpen
      /\ pc[t] # "e_done" /\ pc'[t] # "e_done"
  BY <1>1, OpenSets DEF EnqClaimed
<1> QED BY <1>0, <1>1, <1>2, PlainStep

\* A step of a thread that has claimed and stays where the abstract queue
\* sees no change.
LEMMA InsideStep ==
    ASSUME InOwnCall, InOwnCall', Tells, Tells', NEW t \in Threads, OthersStay(t),
           NEW R, NEW W, NEW gr, NEW gw, ClaimsAre(R, W, gr, gw), ClaimsAre(R, W, gr, gw)',
           m_array' = m_array, ip' = ip, ret' = ret,
           \/ pc[t] = "e_wait" /\ pc'[t] \in {"e_wait", "e_val"}
           \/ pc[t] = "d_wait" /\ pc'[t] \in {"d_wait", "d_val"}
           \/ pc[t] = "d_val" /\ pc'[t] = "d_done" /\ loc'[t].val = ItemFor(t)
           \/ pc[t] \in {"e_wait", "d_wait"} /\ pc'[t] = "blocked" /\ cnt'[t] < MaxIter
    PROVE  UNCHANGED Abs!vars
<1>1. \/ t \in EnqsOpen /\ t \in EnqsOpen' /\ t \notin DeqsOpen /\ t \notin DeqsOpen'
      \/ t \in DeqsOpen /\ t \in DeqsOpen' /\ t \notin EnqsOpen /\ t \notin EnqsOpen'
  <2>1. CASE pc'[t] # "blocked"
    BY <2>1, OpenAt, OpenAfter DEF EnqClaimed, DeqClaimed
  <2>2. CASE pc'[t] = "blocked"
    <3>1. pc[t] \in {"e_wait", "d_wait"} /\ cnt'[t] < MaxIter /\ Current(t)' = Current(t)
      BY <2>2, Zenon DEF Current
    <3>2. \/ t \in EnqsOpen /\ t \notin DeqsOpen /\ Current(t).kind = "enq"
          \/ t \in DeqsOpen /\ t \notin EnqsOpen /\ Current(t).kind = "deq"
      BY <3>1, OpenAt DEF EnqClaimed, DeqClaimed, EnqsOpen, DeqsOpen, InProgress
    <3> QED BY <2>2, <3>1, <3>2 DEF EnqsOpen, DeqsOpen, InProgress, InCall
  <2> QED BY <2>1, <2>2
<1>2. /\ EnqsOpen' = EnqsOpen /\ DeqsOpen' = DeqsOpen
      /\ pc[t] # "e_done" /\ pc'[t] # "e_done" /\ Current(t)' = Current(t)
  BY <1>1, OpenSets DEF Current
<1>3. /\ Queue' = Queue
      /\ \A d \in DeqsOpen : ItemFor(d)' = ItemFor(d)
      /\ Stage'[t] = Stage[t] => Stage' = Stage
      /\ Res'[t] = Res[t] => Res' = Res
  BY <1>2, PlainStep
<1>4. Stage'[t] = Stage[t]
  BY <1>1 DEF Tells, SeenTells
<1>5. Res'[t] = Res[t]
  <2>1. CASE t \in EnqsOpen
    BY <1>2, <2>1 DEF Tells, SeenTells
  <2>2. CASE t \in DeqsOpen
    BY <1>2, <1>3, <2>2 DEF Tells, SeenTells
  <2> QED BY <1>1, <2>1, <2>2
<1> QED BY <1>3, <1>4, <1>5 DEF Abs!vars

\* A dequeue that loads equal halves finds the queue empty; any other load of
\* its loop is not noticed.
LEMMA DeqLooks ==
    ASSUME IInv, InOwnCall', Tells, Tells', NEW t \in Threads, OthersStay(t),
           NEW R, NEW W, NEW gr, NEW gw, ClaimsAre(R, W, gr, gw),
           UNCHANGED <<ip, ret, rdwr, m_read, m_written, m_array>>,
           pc[t] \in {"d_load", "d_cas"}, pc'[t] \in {"d_loop", "blocked"},
           pc'[t] = "blocked" => ~(cnt'[t] < MaxIter), loc'[t].rdwr = rdwr
    PROVE  Abs!Dequeue(t) \/ UNCHANGED Abs!vars
<1>1. /\ t \notin EnqsOpen \cup DeqsOpen /\ t \notin (EnqsOpen \cup DeqsOpen)'
      /\ Queue' = Queue
      /\ Stage' = [Stage EXCEPT ![t] = Stage'[t]] /\ (Stage'[t] = Stage[t] => Stage' = Stage)
      /\ Res' = [Res EXCEPT ![t] = Res'[t]] /\ (Res'[t] = Res[t] => Res' = Res)
  <2>1. /\ pc[t] \notin EnqClaimed \cup DeqClaimed /\ pc[t] # "blocked"
        /\ pc'[t] \notin EnqClaimed \cup DeqClaimed
    BY DEF EnqClaimed, DeqClaimed
  <2> QED BY <2>1, OutsideStep
<1>2. Stage[t] = "called" /\ Res[t] = ret[t]
  <2>1. ~SeesEmpty(t)
    BY DEF SeesEmpty
  <2> QED BY <1>1, <2>1 DEF Tells, SeenTells
<1>3. CASE pc'[t] = "d_loop" /\ IsEmpty(rdwr)
  <2>1. SeesEmpty(t)'
    BY <1>3 DEF SeesEmpty, IsEmpty
  <2>2. Stage'[t] = "done" /\ Res'[t] = "empty"
    BY <2>1 DEF Tells, SeenTells, Empty
  <2>3. Queue = << >>
    <3>1. R \in Nat /\ W \in Nat /\ R <= W /\ W <= R + Size /\ rdwr = Words(R, W)
      BY CountsAre DEF ClaimsAre
    <3>2. R = W
      <4>1. IsEmpty(Words(R, W))
        BY <1>3, <3>1, Zenon
      <4> QED BY <3>1, <4>1, HalvesCount
    <3>3. HasPlaces(Queue, W - R)
      BY Zenon DEF Tells, QueueTells
    <3>4. W - R = 0
      BY <3>1, <3>2, SMT
    <3>5. HasPlaces(Queue, 0)
      BY ONLY <3>3, <3>4, Zenon
    <3> QED BY <3>5, SMT DEF HasPlaces
  <2>4. Script[t][ip[t]].kind = "deq"
    BY DEF IInv, InOwnCall, InCallOf, DeqLabels, Current
  <2> QED BY <1>1, <1>2, <2>2, <2>3, <2>4 DEF Abs!Dequeue, Abs!Effect
<1>4. CASE ~(pc'[t] = "d_loop" /\ IsEmpty(rdwr))
  <2>1. ~SeesEmpty(t)'
    BY <1>4 DEF SeesEmpty, IsEmpty
  <2>2. Stage'[t] = Stage[t] /\ Res'[t] = Res[t]
    BY <1>1, <1>2, <2>1 DEF Tells, SeenTells
  <2> QED BY <1>1, <2>2 DEF Abs!vars
<1> QED BY <1>3, <1>4

\* No queue, no calls.
LEMMA AbsInit == ASSUME Init PROVE Abs!Init
<1>1. IInv /\ \A t \in Threads : pc[t] = "idle"
  BY InitInv DEF Init, ClientInit
<1>2. \A t \in Threads : ~InProgress(t, "enq") /\ ~InProgress(t, "deq") /\ ~SeesEmpty(t)
  BY <1>1 DEF InProgress, InCall, SeesEmpty
<1>3. Stage = [t \in Threads |-> "idle"]
  BY <1>1, <1>2 DEF Stage, InCall
<1>4. Res = [t \in Threads |-> "noret"]
  <2>1. Res = [t \in Threads |-> ret[t]]
    BY <1>2 DEF Res
  <2> QED BY <2>1 DEF Init, ClientInit, NoRet
<1>5. Queue = << >>
  <2>1. (rdwr.wr - rdwr.rd + Word) % Word = 0
    <3>1. Word \in Nat \ {0} /\ (0 + Word) % Word = 0 % Word
      BY WordIsLong, ModLap
    <3>2. 0 % Word = 0
      <4>1. /\ 0 % Word \in 0 .. Word - 1 /\ 0 \div Word \in Nat
            /\ Word * (0 \div Word) \in Nat /\ 0 = Word * (0 \div Word) + (0 % Word)
        BY <3>1, DivMod
      <4> QED BY <3>1, <4>1, SMT
    <3>3. rdwr.wr - rdwr.rd + Word = 0 + Word
      BY <3>1, SMT DEF Init, Zero
    <3> QED BY <3>1, <3>2, <3>3, Zenon
  <2>2. Queue = [i \in 1 .. 0 |-> ItemOf((rdwr.rd + i - 1) % Word)]
    BY <2>1, Zenon DEF Queue
  <2> QED BY <2>2, SMT
<1>6. ip = [t \in Threads |-> 0]
  BY DEF Init, ClientInit
<1> QED BY <1>3, <1>4, <1>5, <1>6 DEF Abs!Init

\* A step outside the part of a call between its claim and its end: the call
\* begins, moves on unnoticed, or returns having found the queue empty.
LEMMA OutsideSteps ==
    ASSUME HasRoom, IInv, InOwnCall', Tells, Tells', NEW t \in Threads, OthersStay(t),
           NEW R, NEW W, NEW gr, NEW gw, ClaimsAre(R, W, gr, gw),
           EnqCall(t) \/ DeqCall(t) \/ EnqLoad(t) \/ EnqTest(t) \/ DeqTest(t)
    PROVE  Abs!Step(t) \/ UNCHANGED Abs!vars
<1>0. TypeOK /\ UNCHANGED <<rdwr, m_read, m_written, m_array>>
  BY Zenon DEF IInv, EnqCall, DeqCall, EnqLoad, EnqTest, DeqTest, LoadCounters, shared
<1>1. ASSUME pc[t] \notin EnqClaimed \cup DeqClaimed, pc[t] # "blocked",
             pc'[t] \notin EnqClaimed \cup DeqClaimed, pc'[t] # "blocked"
      PROVE  /\ t \notin EnqsOpen \cup DeqsOpen /\ t \notin (EnqsOpen \cup DeqsOpen)'
             /\ Queue' = Queue
             /\ Stage' = [Stage EXCEPT ![t] = Stage'[t]]
             /\ Stage'[t] = Stage[t] => Stage' = Stage
             /\ Res' = [Res EXCEPT ![t] = Res'[t]]
             /\ Res'[t] = Res[t] => Res' = Res
  BY <1>0, <1>1, OutsideStep
<1>2. CASE EnqCall(t) \/ DeqCall(t)
  <2>1. /\ pc[t] = "idle" /\ pc'[t] \in {"e_load", "d_load"}
        /\ ip[t] < Len(Script[t]) /\ ip' = [ip EXCEPT ![t] = ip[t] + 1] /\ ret' = ret
    BY <1>0, <1>2, PcType DEF EnqCall, DeqCall, Invoke, InCall
  <2>2. /\ t \notin EnqsOpen \cup DeqsOpen /\ t \notin (EnqsOpen \cup DeqsOpen)'
        /\ Queue' = Queue
        /\ Stage' = [Stage EXCEPT ![t] = Stage'[t]]
        /\ Res'[t] = Res[t] => Res' = Res
    BY <1>1, <2>1 DEF EnqClaimed, DeqClaimed
  <2>3. ~SeesEmpty(t) /\ ~SeesEmpty(t)'
    BY <2>1 DEF SeesEmpty
  <2>4. Stage[t] = "idle" /\ Stage'[t] = "called" /\ Res'[t] = Res[t]
    BY <2>1, <2>2, <2>3 DEF Tells, SeenTells
  <2>5. Stage' = [Stage EXCEPT ![t] = "called"]
    BY <2>2, <2>4, Zenon
  <2> QED BY <2>1, <2>2, <2>4, <2>5 DEF Abs!Call, Abs!Step
<1>3. CASE \/ EnqLoad(t) \/ EnqTest(t)
           \/ DeqTest(t) /\ ~IsEmpty(loc[t].rdwr)
  <2>1. /\ pc[t] \in {"e_load", "e_loop", "d_loop"} /\ pc'[t] \in {"e_loop", "e_cas", "d_cas"}
        /\ pc[t] = "d_loop" => ~IsEmpty(loc[t].rdwr)
        /\ ip' = ip /\ ret' = ret
    BY <1>0, <1>3, PcType DEF EnqLoad, EnqTest, DeqTest, LoadCounters, Goto, HasRoom
  <2>2. /\ t \notin EnqsOpen \cup DeqsOpen /\ t \notin (EnqsOpen \cup DeqsOpen)'
        /\ Queue' = Queue
        /\ Stage'[t] = Stage[t] => Stage' = Stage
        /\ Res'[t] = Res[t] => Res' = Res
    BY <1>1, <2>1 DEF EnqClaimed, DeqClaimed
  <2>3. ~SeesEmpty(t) /\ ~SeesEmpty(t)'
    BY <2>1 DEF SeesEmpty
  <2>4. Stage'[t] = Stage[t] /\ Res'[t] = Res[t]
    BY <2>1, <2>2, <2>3 DEF Tells, SeenTells
  <2> QED BY <2>1, <2>2, <2>4 DEF Abs!vars
<1>4. CASE DeqTest(t) /\ IsEmpty(loc[t].rdwr)
  <2>1. pc[t] = "d_loop" /\ pc'[t] = "idle" /\ ip' = ip /\ ret'[t] = Empty
    BY <1>0, <1>4, PcType DEF DeqTest, Return
  <2>2. /\ t \notin EnqsOpen \cup DeqsOpen /\ t \notin (EnqsOpen \cup DeqsOpen)'
        /\ Queue' = Queue
        /\ Stage' = [Stage EXCEPT ![t] = Stage'[t]]
        /\ Res'[t] = Res[t] => Res' = Res
    BY <1>1, <2>1 DEF EnqClaimed, DeqClaimed
  <2>3. SeesEmpty(t) /\ ~SeesEmpty(t)'
    BY <1>4, <2>1 DEF SeesEmpty
  <2>4. Stage[t] = "done" /\ Stage'[t] = "idle" /\ Res'[t] = Res[t]
    BY <2>1, <2>2, <2>3 DEF Tells, SeenTells
  <2>5. Stage' = [Stage EXCEPT ![t] = "idle"]
    BY <2>2, <2>4, Zenon
  <2> QED BY <2>1, <2>2, <2>4, <2>5 DEF Abs!Return, Abs!Step
<1> QED BY <1>2, <1>3, <1>4

\* A step between the claim of a call and its end that writes nothing shared.
LEMMA InsideSteps ==
    ASSUME FewThreads, IInv, InOwnCall', Tells, Tells', NEW t \in Threads, OthersStay(t),
           NEW R, NEW W, NEW gr, NEW gw, ClaimsAre(R, W, gr, gw),
           EnqWait(t) \/ DeqWait(t) \/ DeqReadValue(t)
    PROVE  UNCHANGED Abs!vars
<1>0. TypeOK /\ InOwnCall /\ HasTurns /\ UNCHANGED <<rdwr, m_read, m_written, m_array>>
  BY Zenon DEF IInv, EnqWait, DeqWait, DeqReadValue, shared
<1>1. CASE EnqWait(t) \/ DeqWait(t)
  <2>1. ClaimsAre(R, W, gr, gw)' /\ loc' = loc
    BY <1>1, WaitStep DEF EnqWait, DeqWait
  <2>2. /\ ip' = ip /\ ret' = ret
        /\ \/ pc[t] = "e_wait" /\ pc'[t] \in {"e_wait", "e_val"}
           \/ pc[t] = "d_wait" /\ pc'[t] \in {"d_wait", "d_val"}
           \/ pc[t] \in {"e_wait", "d_wait"} /\ pc'[t] = "blocked" /\ cnt'[t] < MaxIter
    <3>1. CASE \/ EnqWait(t) /\ Goto(t, "e_val")
               \/ DeqWait(t) /\ Goto(t, "d_val")
      BY <1>0, <3>1, PcType DEF EnqWait, DeqWait, Goto
    <3>2. CASE UNCHANGED clientVars
      BY <1>1, <3>2 DEF EnqWait, DeqWait, clientVars
    <3>3. CASE MaxIter # 0 /\ Goto(t, "blocked")
      <4>1. pc[t] \in {"e_wait", "d_wait"}
        BY <1>1, Zenon DEF EnqWait, DeqWait
      <4>2. cnt[t] < MaxIter
        BY <1>0, <3>3, <4>1 DEF HasTurns, Labels, EnqLabels, DeqLabels
      <4> QED BY <1>0, <3>3, <4>1, <4>2, PcType DEF Goto
    <3> QED BY <1>1, <3>1, <3>2, <3>3, Zenon DEF EnqWait, DeqWait, Assume
  <2> QED BY <1>0, <2>1, <2>2, InsideStep
<1>2. CASE DeqReadValue(t)
  <2>1. /\ pc[t] = "d_val" /\ pc'[t] = "d_done" /\ ip' = ip /\ ret' = ret
        /\ loc'[t].rdwr = loc[t].rdwr /\ loc'[t].val = m_array[ReadSlot(t)]
    BY <1>0, <1>2, PcType DEF DeqReadValue, Goto
  <2>2. ClaimsAre(R, W, gr, gw)'
    BY <1>0, <2>1, StaysOpen
  <2>3. WritesDone(t)
    <3>1. t \in DeqsOpen /\ t \in DeqsPast
      BY <1>0, <2>1, OpenAt DEF DeqClaimed
    <3>2. \A e \in EnqsOpen : gr[t] < gr[e]
      BY <3>1, Zenon DEF ClaimsAre, InOrder, Side
    <3>3. m_read \in Nat /\ m_written \in Nat
      BY <1>0 DEF TypeOK
    <3> QED BY <3>1, <3>2, <3>3, WaitsTell
  <2>4. loc'[t].val = ItemFor(t)
    BY <2>1, <2>3 DEF ItemFor
  <2> QED BY <1>0, <2>1, <2>2, <2>4, InsideStep
<1> QED BY <1>1, <1>2

\* Every step is one of the atomic queue, or unseen.
LEMMA AbsStep ==
    ASSUME FewThreads, HasRoom, IInv, IInv', NEW t \in Threads, Step(t)
    PROVE  Abs!Step(t) \/ UNCHANGED Abs!vars
<1>0. TypeOK /\ OthersStay(t) /\ InOwnCall' /\ Tells /\ Tells'
  BY StepOthers, AllTell, Zenon DEF IInv
<1>1. PICK R, W, gr, gw : ClaimsAre(R, W, gr, gw)
  BY Zenon DEF IInv
<1>2. CASE EnqCall(t) \/ DeqCall(t) \/ EnqLoad(t) \/ EnqTest(t) \/ DeqTest(t)
  BY <1>0, <1>1, <1>2, OutsideSteps
<1>3. CASE EnqWait(t) \/ DeqWait(t) \/ DeqReadValue(t)
  BY <1>0, <1>1, <1>3, InsideSteps
<1>4. CASE EnqWriteValue(t)
  BY <1>0, <1>1, <1>4, WriteKeepsItems
<1>5. CASE EnqDone(t) \/ DeqDone(t)
  BY <1>0, <1>1, <1>5, EnqReturns, DeqReturns DEF Abs!Step
<1>6. CASE DeqLoad(t)
  <2>1. /\ pc[t] = "d_load" /\ pc'[t] = "d_loop" /\ loc'[t].rdwr = rdwr
        /\ UNCHANGED <<ip, ret, rdwr, m_read, m_written, m_array>>
    BY <1>0, <1>6, PcType DEF DeqLoad, LoadCounters, Goto, shared
  <2> QED BY <1>0, <1>1, <2>1, DeqLooks DEF Abs!Step
<1>7. CASE EnqClaim(t)
  <2>1. CASE /\ Goto(t, "e_wait") /\ rdwr = loc[t].rdwr /\ loc' = loc
             /\ rdwr' = [loc[t].rdwr EXCEPT !.wr = Count(@)]
    BY <1>0, <1>1, <1>7, <2>1, EnqTakesEffect DEF Abs!Step
  <2>2. CASE Retry(t, "e_loop") /\ rdwr' = rdwr
    <3>1. /\ pc[t] = "e_cas" /\ pc'[t] \in {"e_loop", "blocked"} /\ ip' = ip /\ ret' = ret
          /\ pc'[t] = "blocked" => ~(cnt'[t] < MaxIter)
          /\ UNCHANGED <<rdwr, m_read, m_written, m_array>>
      BY <1>0, <1>7, <2>2, RetryEnds DEF EnqClaim
    <3>2. /\ t \notin EnqsOpen \cup DeqsOpen /\ t \notin (EnqsOpen \cup DeqsOpen)'
          /\ Queue' = Queue
          /\ Stage'[t] = Stage[t] => Stage' = Stage
          /\ Res'[t] = Res[t] => Res' = Res
      <4>1. /\ pc[t] \notin EnqClaimed \cup DeqClaimed /\ pc[t] # "blocked"
            /\ pc'[t] \notin EnqClaimed \cup DeqClaimed
        BY <3>1 DEF EnqClaimed, DeqClaimed
      <4> QED BY <1>0, <1>1, <3>1, <4>1, OutsideStep
    <3>3. ~SeesEmpty(t) /\ ~SeesEmpty(t)'
      BY <3>1 DEF SeesEmpty
    <3>4. Stage'[t] = Stage[t] /\ Res'[t] = Res[t]
      BY <1>0, <3>1, <3>2, <3>3 DEF Tells, SeenTells
    <3> QED BY <3>1, <3>2, <3>4 DEF Abs!vars
  <2> QED BY <1>7, <2>1, <2>2, Zenon DEF EnqClaim, Claim
<1>8. CASE DeqClaim(t)
  <2>1. CASE /\ Goto(t, "d_wait") /\ rdwr = loc[t].rdwr /\ loc' = loc
             /\ rdwr' = [loc[t].rdwr EXCEPT !.rd = Count(@)]
    BY <1>0, <1>1, <1>8, <2>1, DeqTakesEffect DEF Abs!Step
  <2>2. CASE /\ Retry(t, "d_loop") /\ rdwr' = rdwr
             /\ loc' = [loc EXCEPT ![t].rdwr = rdwr]
    <3>1. /\ pc[t] = "d_cas" /\ pc'[t] \in {"d_loop", "blocked"} /\ loc'[t].rdwr = rdwr
          /\ pc'[t] = "blocked" => ~(cnt'[t] < MaxIter)
          /\ UNCHANGED <<ip, ret, rdwr, m_read, m_written, m_array>>
      BY <1>0, <1>8, <2>2, RetryEnds, PcType DEF DeqClaim
    <3> QED BY <1>0, <1>1, <3>1, DeqLooks DEF Abs!Step
  <2> QED BY <1>8, <2>1, <2>2, Zenon DEF DeqClaim, Claim
<1> QED BY <1>2, <1>3, <1>4, <1>5, <1>6, <1>7, <1>8, Zenon DEF Step

\* As long as the ring never fills, every execution is one of an atomic FIFO
\* queue with the same calls and the same results: no item is lost, duplicated
\* or overtaken.
THEOREM ImplementsQueue == ASSUME FewThreads PROVE Spec /\ []HasRoom => ImplementsAtomicQueue
<1>1. Init => Abs!Init
  BY AbsInit
<1>2. HasRoom /\ IInv /\ IInv' /\ [Next]_vars => [Abs!Next]_Abs!vars
  <2>1. ASSUME UNCHANGED vars PROVE UNCHANGED Abs!vars
    <3>1. Stage' = Stage /\ Res' = Res
      BY <2>1 DEF vars, Stage, Res, InProgress, SeesEmpty, InCall, Current, ItemFor, ItemOf,
                  Unwritten, WritesDone, ReadSlot, Slot
    <3>2. Queue' = Queue
      BY <2>1 DEF vars, Queue, ItemOf, Unwritten, InProgress, InCall, Current, Slot
    <3> QED BY <2>1, <3>1, <3>2 DEF vars, Abs!vars
  <2> QED BY <2>1, AbsStep DEF Next, Terminating, Abs!Next
<1> QED BY <1>1, <1>2, CountsHold, PTL DEF Spec, Abs!Spec, ImplementsAtomicQueue
=============================================================================
