----------------------------- MODULE QueueLemmas -----------------------------
(***************************************************************************)
(* Facts the proofs about several queues need and that mention none of     *)
(* them: what the steps of Clients preserve; which slot of a ring a ticket *)
(* uses, how a queue that is given as a function of places grows and       *)
(* shrinks, and that a set of numbers has a least one.                     *)
(***************************************************************************)
EXTENDS Clients, Integers, SequenceTheorems, FiniteSetTheorems,
        WellFoundedInduction, TLAPS

-----------------------------------------------------------------------------
\* Clients.

\* Inside a call, ip points at an entry of the script: Current(t) is a call of
\* the queue interface, and its payload is one a cell may hold.
LEMMA CurrentIsCall ==
    ASSUME NEW CONSTANT L, ClientTypeOK(L),
           NEW t \in Threads, InCall(t)
    PROVE  Current(t) \in Calls
<1>1. ip[t] \in 1 .. Len(Script[t]) /\ Script[t] \in Seq(Calls)
  BY ScriptAssumption, SMT DEF ClientTypeOK
<1> QED BY <1>1, SMT DEF Current

\* No thread has started its script: the client variables have their types.
LEMMA InitType ==
    ASSUME NEW CONSTANT L, ClientInit
    PROVE  ClientTypeOK(L)
<1>1. ip \in [Threads -> Nat] /\ cnt \in [Threads -> Nat]
  BY SMT DEF ClientInit
<1>2. ret \in [Threads -> Results]
  BY SMT DEF ClientInit, Results
<1>3. pc \in [Threads -> L \cup {"idle", "blocked", "assert"}]
  BY SMT DEF ClientInit
<1>4. ASSUME NEW t \in Threads
      PROVE  ip[t] <= Len(Script[t]) /\ ~InCall(t)
  BY ScriptAssumption, SMT DEF ClientInit, InCall
<1> QED BY <1>1, <1>2, <1>3, <1>4 DEF ClientTypeOK

\* A thread that makes its next call stays inside its script.
LEMMA InvokeType ==
    ASSUME NEW CONSTANT L, ClientTypeOK(L),
           NEW t \in Threads, NEW kind, NEW entry \in L,
           Invoke(t, kind, entry)
    PROVE  ClientTypeOK(L)'
BY ScriptAssumption, SMT DEF ClientTypeOK, Invoke, InCall

\* Going on to the next access of a call keeps the types.
LEMMA GotoType ==
    ASSUME NEW CONSTANT L, ClientTypeOK(L),
           NEW t \in Threads, InCall(t), NEW label \in L, Goto(t, label)
    PROVE  ClientTypeOK(L)'
BY SMT DEF ClientTypeOK, Goto, InCall

\* So does stopping inside a call, at an assume or a failed assertion.
LEMMA StopType ==
    ASSUME NEW CONSTANT L, ClientTypeOK(L),
           NEW t \in Threads, InCall(t), NEW label \in {"blocked", "assert"},
           Goto(t, label)
    PROVE  ClientTypeOK(L)'
BY SMT DEF ClientTypeOK, Goto, InCall

\* Returning one of the results of the interface keeps the types.
LEMMA ReturnType ==
    ASSUME NEW CONSTANT L, ClientTypeOK(L),
           NEW t \in Threads, NEW r \in Results, Return(t, r)
    PROVE  ClientTypeOK(L)'
BY SMT DEF ClientTypeOK, Return, InCall

\* A turn of the retry loop keeps the types, whether the assume at its head
\* lets the thread go on or stops it.
LEMMA RetryType ==
    ASSUME NEW CONSTANT L, ClientTypeOK(L),
           NEW t \in Threads, InCall(t), NEW entry \in L, Retry(t, entry)
    PROVE  ClientTypeOK(L)'
<1>1. PICK l \in L \cup {"blocked"} : pc' = [pc EXCEPT ![t] = l]
  <2>1. CASE MaxIter = 0
    BY <2>1, Zenon DEF Retry
  <2>2. CASE MaxIter # 0
    <3>1. pc' = [pc EXCEPT ![t] = IF cnt[t] + 1 < MaxIter
                                  THEN entry ELSE "blocked"]
      BY <2>2, Zenon DEF Retry
    <3>2. CASE cnt[t] + 1 < MaxIter
      BY <3>1, <3>2, Zenon
    <3>3. CASE ~(cnt[t] + 1 < MaxIter)
      BY <3>1, <3>3, Zenon
    <3> QED BY <3>2, <3>3
  <2> QED BY <2>1, <2>2
<1>2. cnt' \in [Threads -> Nat] /\ UNCHANGED <<ip, ret>>
  BY SMT DEF ClientTypeOK, Retry
<1>3. pc' \in [Threads -> L \cup {"idle", "blocked", "assert"}]
  BY <1>1, SMT DEF ClientTypeOK
<1>4. ASSUME NEW u \in Threads
      PROVE  ip'[u] <= Len(Script[u]) /\ (InCall(u)' => ip'[u] >= 1)
  <2>1. InCall(u)' => InCall(u)
    BY <1>1, SMT DEF ClientTypeOK, InCall
  <2> QED BY <2>1, <1>2, SMT DEF ClientTypeOK
<1> QED BY <1>2, <1>3, <1>4, SMT DEF ClientTypeOK

\* A retry moves t alone, to the loop head or to the failed assume.
LEMMA RetryMoves ==
    ASSUME NEW t \in Threads, NEW entry, Retry(t, entry)
    PROVE  \E l \in {entry, "blocked"} : pc' = [pc EXCEPT ![t] = l]
<1>1. CASE MaxIter = 0
  BY <1>1, Zenon DEF Retry
<1>2. CASE MaxIter # 0
  <2>1. pc' = [pc EXCEPT ![t] = IF cnt[t] + 1 < MaxIter
                                THEN entry ELSE "blocked"]
    BY <1>2, Zenon DEF Retry
  <2> QED BY <2>1, Zenon
<1> QED BY <1>1, <1>2

-----------------------------------------------------------------------------
\* A step of t inside its call, to an access of the same call or out of it,
\* leaves every thread in a call of its kind.
LEMMA CallGoesOn ==
    ASSUME NEW CONSTANT L, ClientTypeOK(L),
           NEW CONSTANT E, NEW CONSTANT D, InCallOf(E, D),
           NEW t \in Threads, NEW l, pc' = [pc EXCEPT ![t] = l], ip' = ip,
           l \in E => pc[t] \in E, l \in D => pc[t] \in D
    PROVE  InCallOf(E, D)'
<1>1. pc'[t] = l /\ \A u \in Threads : u # t => pc'[u] = pc[u]
  BY Zenon DEF ClientTypeOK
<1> QED BY <1>1, Zenon DEF InCallOf, Current

\* So does a call that begins at an access of its kind.
LEMMA CallBegins ==
    ASSUME NEW CONSTANT L, ClientTypeOK(L),
           NEW CONSTANT E, NEW CONSTANT D, InCallOf(E, D),
           NEW t \in Threads, NEW k, NEW l, Invoke(t, k, l),
           l \in E => k = "enq", l \in D => k = "deq"
    PROVE  InCallOf(E, D)'
<1>1. /\ ip' = [ip EXCEPT ![t] = ip[t] + 1] /\ pc' = [pc EXCEPT ![t] = l]
      /\ Script[t][ip[t] + 1].kind = k
  BY DEF Invoke
<1>2. /\ ip'[t] = ip[t] + 1 /\ pc'[t] = l
      /\ \A u \in Threads : u # t => ip'[u] = ip[u] /\ pc'[u] = pc[u]
  BY <1>1, Zenon DEF ClientTypeOK
<1> QED BY <1>1, <1>2, Zenon DEF InCallOf, Current

-----------------------------------------------------------------------------
\* Slots, places and numbers.

\* Multiples of c are c apart.
LEMMA NextMultiple ==
    ASSUME NEW c \in Nat, NEW a \in Nat, NEW b \in Nat, a < b
    PROVE  c * a + c <= c * b
<1>1. PICK d \in Nat : b = a + 1 + d
  <2>1. b - (a + 1) \in Nat /\ b = a + 1 + (b - (a + 1))
    BY SMT
  <2> QED BY <2>1
<1>2. c * d \in Nat
  BY SMT
<1>3. c * (a + 1 + d) = c * a + c + c * d
  BY SMT
<1> QED BY <1>1, <1>2, <1>3, SMT

\* Division with remainder, in a ring of c slots.
LEMMA DivMod ==
    ASSUME NEW c \in Nat \ {0}, NEW p \in Nat
    PROVE  /\ p % c \in 0 .. c - 1
           /\ p \div c \in Nat
           /\ c * (p \div c) \in Nat
           /\ p = c * (p \div c) + (p % c)
<1>1. p \div c \in Nat /\ p % c \in 0 .. c - 1
  BY SMT
<1>2. p = c * (p \div c) + (p % c)
  BY SMT
<1>3. c * (p \div c) \in Nat
  BY <1>1, SMT
<1> QED BY <1>1, <1>2, <1>3

\* One way only to write a number as a lap and a slot.
LEMMA ModUnique ==
    ASSUME NEW c \in Nat \ {0}, NEW a \in Nat, NEW b \in Nat,
           NEW r \in 0 .. c - 1, NEW s \in 0 .. c - 1, c * a + r = c * b + s
    PROVE  a = b /\ r = s
<1>1. c * a \in Nat /\ c * b \in Nat
  BY SMT
<1>2. ~(a < b)
  <2>1. SUFFICES ASSUME a < b PROVE FALSE
    OBVIOUS
  <2>2. c * a + c <= c * b
    BY <2>1, NextMultiple
  <2> QED BY <2>2, <1>1, SMT
<1>3. ~(b < a)
  <2>1. SUFFICES ASSUME b < a PROVE FALSE
    OBVIOUS
  <2>2. c * b + c <= c * a
    BY <2>1, NextMultiple
  <2> QED BY <2>2, <1>1, SMT
<1>4. a = b
  BY <1>2, <1>3, SMT
<1> QED BY <1>4, <1>1, SMT

\* One lap further is the same slot.
LEMMA ModLap ==
    ASSUME NEW c \in Nat \ {0}, NEW p \in Nat
    PROVE  (p + c) % c = p % c
<1> DEFINE q == p + c
           a == p \div c
           b == q \div c
<1>1. q \in Nat
  BY SMT
<1>2. p % c \in 0 .. c - 1 /\ a \in Nat /\ c * a \in Nat /\ p = c * a + (p % c)
  BY DivMod
<1>3. q % c \in 0 .. c - 1 /\ b \in Nat /\ c * b \in Nat /\ q = c * b + (q % c)
  BY <1>1, DivMod
<1> HIDE DEF a, b
<1> DEFINE d == a + 1
<1>4. d \in Nat /\ c * d = c * a + c
  BY <1>2, SMT
<1> HIDE DEF q, d
<1>5. q = p + c
  BY DEF q
<1>6. c * d + (p % c) = c * b + (q % c)
  BY <1>2, <1>3, <1>4, <1>5, SMT
<1>7. \A r, s \in 0 .. c - 1 : c * d + r = c * b + s => r = s
  <2>1. b \in Nat /\ d \in Nat
    BY <1>3, <1>4
  <2> SUFFICES ASSUME NEW r \in 0 .. c - 1, NEW s \in 0 .. c - 1,
                      c * d + r = c * b + s
               PROVE  r = s
    OBVIOUS
  <2> QED BY <2>1, ModUnique, Z3
<1>8. p % c = q % c
  BY <1>2, <1>3, <1>6, <1>7, SMT
<1> QED BY <1>5, <1>8

\* Two tickets less than a lap apart use two slots.
LEMMA ModInj ==
    ASSUME NEW c \in Nat \ {0}, NEW p \in Nat, NEW q \in Nat,
           p < q, q < p + c
    PROVE  p % c # q % c
<1> SUFFICES ASSUME p % c = q % c PROVE FALSE
  OBVIOUS
<1> DEFINE a == p \div c
           b == q \div c
<1>1. p % c \in 0 .. c - 1 /\ a \in Nat /\ c * a \in Nat /\ p = c * a + (p % c)
  BY DivMod
<1>2. q % c \in 0 .. c - 1 /\ b \in Nat /\ c * b \in Nat /\ q = c * b + (q % c)
  BY DivMod
<1> HIDE DEF a, b
<1>3. c * a < c * b /\ c * b < c * a + c
  BY <1>1, <1>2, SMT
<1>4. ~(a < b)
  BY <1>1, <1>2, <1>3, NextMultiple, SMT
<1>5. ~(b < a)
  BY <1>1, <1>2, <1>3, NextMultiple, SMT
<1>6. a = b
  BY <1>1, <1>2, <1>4, <1>5, SMT
<1> QED BY <1>3, <1>6, <1>1, SMT

\* Whole laps make no difference.
LEMMA ModShift ==
    ASSUME NEW c \in Nat \ {0}, NEW l \in Nat, NEW r \in Nat
    PROVE  (c * l + r) % c = r % c
<1> DEFINE k == r \div c
           u == r % c
           q == c * l + r
           z == q \div c
<1>1. c * l \in Nat /\ q \in Nat
  BY SMT
<1>2. u \in 0 .. c - 1 /\ k \in Nat /\ c * k \in Nat /\ r = c * k + u
  BY DivMod
<1>3. q % c \in 0 .. c - 1 /\ z \in Nat /\ c * z \in Nat /\ q = c * z + (q % c)
  BY <1>1, DivMod
<1> HIDE DEF k, z, u
<1> DEFINE m == l + k
<1>4. m \in Nat /\ c * m = c * l + c * k
  BY <1>2, SMT
<1> HIDE DEF m
<1>5. c * m + u = c * z + (q % c)
  <2>1. c * l + c * k + u = q
    BY <1>1, <1>2, SMT
  <2> HIDE DEF q
  <2> QED BY <2>1, <1>3, <1>4, SMT
<1>6. \A i, j \in 0 .. c - 1 : c * m + i = c * z + j => i = j
  <2>1. z \in Nat /\ m \in Nat
    BY <1>3, <1>4
  <2> SUFFICES ASSUME NEW i \in 0 .. c - 1, NEW j \in 0 .. c - 1, c * m + i = c * z + j
               PROVE  i = j
    OBVIOUS
  <2> QED BY <2>1, ModUnique, Z3
<1>7. u = q % c
  BY <1>2, <1>3, <1>5, <1>6
<1> QED BY <1>7 DEF u

\* To count on from what is left of x modulo c is to count on from x.
LEMMA ModAdd ==
    ASSUME NEW c \in Nat \ {0}, NEW x \in Nat, NEW y \in Nat
    PROVE  ((x % c) + y) % c = (x + y) % c
<1> DEFINE l == x \div c
           r == (x % c) + y
<1>1. x % c \in 0 .. c - 1 /\ l \in Nat /\ c * l \in Nat /\ x = c * l + (x % c)
  BY DivMod
<1>2. r \in Nat
  BY <1>1, SMT
<1> HIDE DEF l
<1>3. x + y = c * l + r
  BY <1>1, SMT
<1> HIDE DEF r
<1>4. (c * l + r) % c = r % c
  BY <1>1, <1>2, ModShift
<1> QED BY <1>3, <1>4 DEF r

\* Two counts less than a lap apart: what is left of them tells how far.
LEMMA ModDifference ==
    ASSUME NEW c \in Nat \ {0}, NEW p \in Nat, NEW q \in Nat, p <= q, q < p + c
    PROVE  ((q % c) - (p % c) + c) % c = q - p
<1> DEFINE k == q - p
           r == p % c
<1>1. k \in Nat /\ k < c /\ p + k = q
  BY SMT
<1>2. r \in 0 .. c - 1 /\ r \in Nat
  BY DivMod, SMT
<1>3. (r + k) % c = q % c
  <2>1. ((p % c) + k) % c = (p + k) % c
    BY <1>1, ModAdd
  <2> QED BY <2>1, <1>1
<1> HIDE DEF k, r
<1>4. /\ \A m \in Nat : m < c => m % c = m
      /\ \A m \in Nat : (m + c) % c = m % c
  <2>1. ASSUME NEW m \in Nat, m < c PROVE m % c = m
    <3>1. m % c \in 0 .. c - 1 /\ m \div c \in Nat /\ m = c * (m \div c) + (m % c)
      BY DivMod
    <3>2. m \in 0 .. c - 1 /\ 0 \in Nat /\ c * 0 + m = m
      BY <2>1, SMT
    <3> QED BY <3>1, <3>2, ModUnique
  <2> QED BY <2>1, ModLap
<1>5. CASE r + k < c
  <2>0. r + k \in Nat
    BY <1>1, <1>2, SMT
  <2>1. q % c = r + k
    BY <2>0, <1>3, <1>4, <1>5, Zenon
  <2>2. (q % c) - r + c = k + c
    <3>1. PICK v : v = q % c
      OBVIOUS
    <3>2. v - r + c = k + c
      BY <3>1, <2>1, <1>1, <1>2, SMT
    <3> QED BY <3>1, <3>2
  <2>3. (k + c) % c = k
    BY <1>1, <1>4
  <2> QED BY <2>2, <2>3 DEF k, r
<1>6. CASE ~(r + k < c)
  <2>1. PICK m \in Nat : r + k = m + c /\ m < c
    <3>1. r + k - c \in Nat /\ r + k = (r + k - c) + c /\ r + k - c < c
      BY <1>1, <1>2, <1>6, SMT
    <3> QED BY <3>1
  <2>2. q % c = m
    BY <2>1, <1>3, <1>4
  <2>3. (q % c) - r + c = k
    BY <2>1, <2>2, <1>1, <1>2, SMT
  <2>4. k % c = k
    BY <1>1, <1>4
  <2> QED BY <2>3, <2>4 DEF k, r
<1> QED BY <1>5, <1>6

-----------------------------------------------------------------------------
\* f is a function, given by its values on S.
MapOn(f, S) == f = [u \in S |-> f[u]]

\* A function that agrees with f but at t.
LEMMA ChangedAt ==
    ASSUME NEW S, NEW t \in S, NEW f, NEW g, MapOn(f, S), MapOn(g, S),
           \A u \in S \ {t} : g[u] = f[u]
    PROVE  /\ g = [f EXCEPT ![t] = g[t]]
           /\ g[t] = f[t] => g = f
  BY SMT DEF MapOn

\* q is given by its items, at the places 1 to n.
HasPlaces(q, n) == q = [i \in 1 .. n |-> q[i]]

\* A function on 1 .. n is a sequence of the values it takes.
LEMMA FunctionIsSeq ==
    ASSUME NEW n \in Nat, NEW q, HasPlaces(q, n),
           NEW S, \A i \in 1 .. n : q[i] \in S
    PROVE  q \in Seq(S) /\ Len(q) = n
<1>1. q \in [1 .. n -> S]
  BY Zenon DEF HasPlaces
<1> QED BY <1>1, SMT

\* The queue r is q with one more item at its end.
LEMMA PushedBack ==
    ASSUME NEW n \in Nat, NEW q, NEW r,
           HasPlaces(q, n), HasPlaces(r, n + 1),
           \A i \in 1 .. n : r[i] = q[i]
    PROVE  r = Append(q, r[n + 1])
<1> DEFINE a == Append(q, r[n + 1])
           S == {r[i] : i \in 1 .. n + 1}
<1>0. /\ n + 1 \in Nat /\ n + 1 \in 1 .. n + 1
      /\ \A i \in 1 .. n : i \in 1 .. n + 1
  BY SMT
<1>s. (\A i \in 1 .. n + 1 : r[i] \in S) /\ (\A i \in 1 .. n : q[i] \in S)
  BY <1>0, Zenon
<1> HIDE DEF S
<1>q. q \in Seq(S) /\ Len(q) = n
  BY <1>s, FunctionIsSeq, Zenon
<1>r. r \in Seq(S) /\ Len(r) = n + 1
  BY <1>0, <1>s, FunctionIsSeq
<1>1. /\ q \in Seq(S) /\ Len(q) = n /\ r \in Seq(S) /\ Len(r) = n + 1
      /\ r[n + 1] \in S
  BY <1>0, <1>s, <1>q, <1>r, Zenon
<1>2. /\ a \in Seq(S) /\ Len(a) = n + 1 /\ a[n + 1] = r[n + 1]
      /\ \A i \in 1 .. n : a[i] = q[i]
  BY <1>1, AppendProperties
<1> HIDE DEF a
<1>3. \A i \in 1 .. Len(r) : r[i] = a[i]
  <2>1. \A i \in 1 .. n + 1 : i \in 1 .. n \/ i = n + 1
    BY SMT
  <2> QED BY <2>1, <1>1, <1>2, Zenon
<1>4. r = a
  BY <1>1, <1>2, <1>3, SeqEqual
<1> QED BY <1>4 DEF a

\* The queue r is q without its first item.
LEMMA PoppedFront ==
    ASSUME NEW n \in Nat, NEW q, NEW r,
           HasPlaces(q, n + 1), HasPlaces(r, n),
           \A i \in 1 .. n : r[i] = q[i + 1]
    PROVE  q # << >> /\ Head(q) = q[1] /\ Tail(q) = r
<1> DEFINE S == {q[i] : i \in 1 .. n + 1}
<1>0. n + 1 \in Nat /\ \A i \in 1 .. n : i + 1 \in 1 .. n + 1
  BY SMT
<1>s. (\A i \in 1 .. n + 1 : q[i] \in S) /\ (\A i \in 1 .. n : r[i] \in S)
  BY <1>0, Zenon
<1> HIDE DEF S
<1>q. q \in Seq(S) /\ Len(q) = n + 1
  BY <1>0, <1>s, FunctionIsSeq
<1>r. r \in Seq(S) /\ Len(r) = n
  BY <1>s, FunctionIsSeq, Zenon
<1>1. q \in Seq(S) /\ Len(q) = n + 1 /\ r \in Seq(S) /\ Len(r) = n
  BY <1>q, <1>r
<1>2. q # << >>
  BY <1>1, SMT
<1>3. Head(q) = q[1]
  BY <1>1, <1>2, SMT
<1>4. /\ Tail(q) \in Seq(S) /\ Len(Tail(q)) = n
      /\ \A i \in 1 .. n : Tail(q)[i] = q[i + 1]
  BY <1>1, <1>2, HeadTailProperties, SMT
<1>5. \A i \in 1 .. Len(r) : r[i] = Tail(q)[i]
  BY <1>1, <1>4, Zenon
<1>6. r = Tail(q)
  BY <1>1, <1>4, <1>5, SeqEqual
<1> QED BY <1>2, <1>3, <1>6

-----------------------------------------------------------------------------
\* Every non-empty set of natural numbers has a least element.  The initial
\* segments 0 .. k below a bound are well-founded by strict inclusion.
LEMMA LeastNumber ==
    ASSUME NEW S, S \subseteq Nat, S # {}
    PROVE  \E x \in S : \A y \in S : x <= y
<1>1. PICK n \in S : TRUE
  OBVIOUS
<1>2. n \in Nat /\ IsFiniteSet(0 .. n)
  BY FS_Interval, SMT
<1> DEFINE U == 0 .. n
           R == StrictSubsetOrdering(U)
           T == {0 .. k : k \in {j \in S : j <= n}}
<1>3. IsWellFoundedOn(R, SUBSET U)
  <2>1. IsWellFoundedOn(R, FiniteSubsetsOf(U))
    BY FS_StrictSubsetOrderingWellFounded
  <2>2. FiniteSubsetsOf(U) = SUBSET U
    BY <1>2, FS_FiniteSubsetsOfFinite
  <2> QED BY <2>1, <2>2, Zenon
<1>4. T \subseteq SUBSET U /\ T # {}
  BY <1>2, SMT
<1>5. PICK I \in T : \A J \in T : ~(<<J, I>> \in R)
  <2> HIDE DEF R, T, U
  <2> QED BY <1>3, <1>4, WFMin
<1>6. PICK x \in S : x <= n /\ I = 0 .. x
  BY SMT
<1>7. ASSUME NEW y \in S, y < x PROVE FALSE
  <2>1. 0 .. y \in T
    BY <1>7, <1>6, <1>2, SMT
  <2>2. 0 .. y \subseteq I /\ 0 .. y # I
    <3>1. x \in 0 .. x /\ ~(x \in 0 .. y)
      BY <1>7, SMT
    <3> QED BY <1>7, <1>6, <3>1, SMT
  <2>3. 0 .. y \in SUBSET U /\ I \in SUBSET U
    BY <2>1, <1>4
  <2> HIDE DEF U, T
  <2>4. <<0 .. y, I>> \in R
    BY <2>2, <2>3 DEF StrictSubsetOrdering
  <2> QED BY <2>1, <2>4, <1>5
<1> QED BY <1>7, SMT
=============================================================================
