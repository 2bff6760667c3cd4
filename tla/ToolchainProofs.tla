-------------------------- MODULE ToolchainProofs --------------------------
(***************************************************************************)
(* The tool chain, for all sizes, whatever models the SMT solver gives:    *)
(* what the solver scripts print is minimal, is printed once and is        *)
(* complete, and a program made from it completes only if what it tests    *)
(* has a history that is not linearizable.                                 *)
(*                                                                         *)
(* That the formulas of the scripts stand for the runs of a queue and of a *)
(* set is FormulasRight, a hypothesis that TLC evaluates for the sizes of  *)
(* the run.  The rest is about orders.  An edge of an order between which  *)
(* nothing lies can be taken out and an order is left, so an order from    *)
(* which no single edge can be taken contains no smaller test case; every  *)
(* test case contains a smallest one; and the assertion added for a model  *)
(* rules out it and its renamings and no other minimal order.              *)
(***************************************************************************)
EXTENDS GeneratedTest, FiniteSetTheorems, WellFoundedInduction, TLAPS

-----------------------------------------------------------------------------
\* The orders that are test cases.

\* The numbers of a size.
LEMMA SizeFacts ==
    ASSUME NEW s \in Sizes
    PROVE  /\ Count(s) \in Nat
           /\ s.tool = "queue" => /\ s.n \in Nat /\ s.k \in Nat /\ s.N \in Nat
                                  /\ Count(s) = s.n /\ s.k < s.n /\ (s.n - s.k) % 2 = 0
           /\ s.tool # "queue" => /\ s.tool = "set"
                                  /\ s.n \in Nat /\ s.k \in Nat /\ s.l \in Nat
                                  /\ Count(s) = s.n * GroupSize(s)
                                  /\ GroupSize(s) \in Nat /\ GroupSize(s) = 2 + s.k + s.l
<1>1. CASE s \in [tool : {"queue"}, n : Nat, k : Nat, N : Nat]
  BY <1>1, SizesAssumption, SMT DEF Count
<1>2. CASE s \in [tool : {"set"}, n : Nat \ {0}, k : Nat, l : Nat]
  BY <1>2, SMT DEF Count, GroupSize
<1> QED BY <1>1, <1>2, SizesAssumption, Zenon

\* The operations are finitely many.
LEMMA OpsFinite ==
    ASSUME NEW s \in Sizes
    PROVE  IsFiniteSet(Ops(s)) /\ Cardinality(Ops(s)) = Count(s)
<1>1. Count(s) \in Nat
  BY SizeFacts
<1> DEFINE c == Count(s)
<1>2. c \in Nat /\ 0 \in Int /\ c - 1 \in Int /\ Ops(s) = 0 .. c - 1
  BY <1>1, SMT DEF Ops
<1> HIDE DEF c
<1>3. IsFiniteSet(0 .. c - 1) /\ Cardinality(0 .. c - 1) = IF 0 > c - 1 THEN 0 ELSE (c - 1) - 0 + 1
  BY <1>2, FS_Interval
<1>4. (IF 0 > c - 1 THEN 0 ELSE (c - 1) - 0 + 1) = c
  BY <1>2, SMT
<1> QED BY <1>2, <1>3, <1>4 DEF c

\* An order of the operations of s.
IsOrder(s, x) == x \in SUBSET (Ops(s) \X Ops(s)) /\ irr(s, x) /\ trans(x)

\* Posets has all of them: the solutions of po.
LEMMA PosetsAre ==
    ASSUME NEW s \in Sizes, NEW x
    PROVE  x \in Posets[Count(s)] <=> IsOrder(s, x)
<1>1. x \in Posets[Count(s)] <=>
          /\ x \in SUBSET {e \in (0 .. Count(s) - 1) \X (0 .. Count(s) - 1) : e[1] # e[2]}
          /\ trans(x)
  BY Zenon DEF Posets
<1>2. x \in SUBSET {e \in (0 .. Count(s) - 1) \X (0 .. Count(s) - 1) : e[1] # e[2]} <=>
          x \in SUBSET (Ops(s) \X Ops(s)) /\ irr(s, x)
  BY SMT DEF Ops, irr
<1> QED BY <1>1, <1>2 DEF IsOrder

\* Of a finite set of more than n elements n + 1 can be chosen.
LEMMA SomeOfThem ==
    ASSUME NEW S, IsFiniteSet(S), NEW n \in Nat, Cardinality(S) > n
    PROVE  \E T \in SUBSET S : Cardinality(T) = n + 1
<1>1. PICK c \in Nat : c = Cardinality(S) /\ ExistsBijection(1 .. c, S)
  BY FS_CardinalityType
<1>2. PICK f \in Bijection(1 .. c, S) : TRUE
  BY <1>1 DEF ExistsBijection
<1> DEFINE T == {f[i] : i \in 1 .. n + 1}
           g == [i \in 1 .. n + 1 |-> f[i]]
<1>3. 1 .. n + 1 \subseteq 1 .. c
  BY <1>1, SMT
<1>4. /\ f \in [1 .. c -> S]
      /\ \A i, j \in 1 .. c : f[i] = f[j] => i = j
  BY <1>2, Zenon DEF Bijection, Injection, IsInjective
<1>5. T \in SUBSET S
  BY <1>3, <1>4
<1>6. g \in Bijection(1 .. n + 1, T)
  <2>1. g \in [1 .. n + 1 -> T]
    OBVIOUS
  <2>2. \A i, j \in 1 .. n + 1 : g[i] = g[j] => i = j
    BY <1>3, <1>4
  <2>3. \A y \in T : \E i \in 1 .. n + 1 : g[i] = y
    OBVIOUS
  <2> HIDE DEF T, g
  <2> QED BY <2>1, <2>2, <2>3, Zenon DEF Bijection, Injection, Surjection, IsInjective
<1>7. ExistsBijection(1 .. n + 1, T)
  BY <1>6 DEF ExistsBijection
<1>8. Cardinality(T) = n + 1
  <2> HIDE DEF T
  <2>1. n + 1 \in Nat
    BY SMT
  <2> QED BY <2>1, <1>7, FS_CountingElements
<1> QED BY <1>5, <1>8

\* maxchain says what it stands for: no more than N operations at a time.
LEMMA WidthIs ==
    ASSUME NEW s \in Sizes, s.tool = "queue", NEW x
    PROVE  maxchain(s, x) <=> Width(s, x)
<1>0. s.N \in Nat
  BY SizeFacts
<1>1. ASSUME maxchain(s, x), NEW I \in SUBSET Ops(s),
             \A i, j \in I : <<i, j>> \notin x, ~(Cardinality(I) <= s.N)
      PROVE  FALSE
  <2>1. IsFiniteSet(I)
    BY OpsFinite, FS_Subset
  <2>2. Cardinality(I) > s.N
    BY <2>1, <1>0, <1>1, FS_CardinalityType, SMT
  <2>3. PICK J \in SUBSET I : Cardinality(J) = s.N + 1
    BY <1>0, <2>1, <2>2, SomeOfThem
  <2>4. J \in kSubset(s.N + 1, Ops(s))
    BY <2>3 DEF kSubset
  <2> QED BY <2>4, <1>1, Zenon DEF maxchain
<1>2. ASSUME Width(s, x), NEW I \in kSubset(s.N + 1, Ops(s)),
             \A i, j \in I : <<i, j>> \notin x
      PROVE  FALSE
  <2>1. I \in SUBSET Ops(s) /\ Cardinality(I) = s.N + 1
    BY <1>2 DEF kSubset
  <2>2. Cardinality(I) <= s.N
    BY <2>1, <1>2, Zenon DEF Width
  <2> QED BY <1>0, <2>1, <2>2, SMT
<1> QED BY <1>1, <1>2, Zenon DEF maxchain, Width

\* The test cases are the orders that no history of a correct object has.
LEMMA TestCasesAre ==
    ASSUME FormulasRight, NEW s \in Sizes, NEW x
    PROVE  x \in Forbidden[s] <=> IsOrder(s, x) /\ testcase(s, x)
<1>1. x \in Forbidden[s] <=> /\ IsOrder(s, x) /\ NotLinearizable(s, x)
                             /\ s.tool = "queue" => Width(s, x)
  BY PosetsAre, Zenon DEF Forbidden
<1>2. NotLinearizable(s, x) <=> \A y \in LegalOrders[s] : ~le(x, y)
  BY Zenon DEF FormulasRight, NotLinearizable, le
<1>3. s.tool = "queue" => (Width(s, x) <=> maxchain(s, x))
  BY WidthIs
<1> QED BY <1>1, <1>2, <1>3, Zenon DEF testcase, po, IsOrder

\* The models the solver may print.
LEMMA MinimalAre ==
    ASSUME NEW s \in Sizes, NEW x
    PROVE  x \in Minimal[s] <=> IsOrder(s, x) /\ testcase(s, x) /\ minimal_all(s, x)
BY PosetsAre, Zenon DEF Minimal

\* A test case stays one when its order grows.
LEMMA TestCaseGrows ==
    ASSUME NEW s \in Sizes, NEW x, NEW z, z \subseteq x, testcase(s, z), IsOrder(s, x)
    PROVE  testcase(s, x)
<1>1. po(s, x)
  BY DEF IsOrder, po
<1>2. s.tool = "queue" => maxchain(s, x)
  BY Zenon DEF testcase, maxchain
<1>3. \A y \in LegalOrders[s] : ~le(x, y)
  BY Zenon DEF testcase, le
<1> QED BY <1>1, <1>2, <1>3 DEF testcase

-----------------------------------------------------------------------------
\* Among some subsets of a finite set there is one that contains no other.
LEMMA SmallestSet ==
    ASSUME NEW U, IsFiniteSet(U), NEW T, T \subseteq SUBSET U, T # {}
    PROVE  \E I \in T : \A J \in T : J \subseteq I => J = I
<1> DEFINE R == StrictSubsetOrdering(U)
<1>1. IsWellFoundedOn(R, SUBSET U)
  BY FS_StrictSubsetOrderingWellFounded, FS_FiniteSubsetsOfFinite
<1>2. PICK I \in T : \A J \in T : ~(<<J, I>> \in R)
  <2> HIDE DEF R
  <2> QED BY <1>1, WFMin
<1>3. ASSUME NEW J \in T, J \subseteq I, J # I PROVE FALSE
  <2>1. <<J, I>> \in R
    BY <1>3 DEF StrictSubsetOrdering
  <2> QED BY <2>1, <1>2
<1> QED BY <1>3

\* The operations strictly between the ends of an edge.
Between(s, x, e) == {i \in Ops(s) : <<e[1], i>> \in x /\ <<i, e[2]>> \in x}

\* An edge with nothing between its ends can be taken away.
LEMMA CoverGoes ==
    ASSUME NEW s \in Sizes, NEW x, IsOrder(s, x), NEW e \in x, Between(s, x, e) = {}
    PROVE  IsOrder(s, x \ {e})
<1>1. x \in SUBSET (Ops(s) \X Ops(s)) /\ irr(s, x) /\ trans(x)
  BY DEF IsOrder
<1>2. ASSUME NEW f \in x \ {e}, NEW g \in x \ {e}, f[2] = g[1], f[1] # f[2], g[1] # g[2]
      PROVE  <<f[1], g[2]>> \in x \ {e}
  <2>1. <<f[1], g[2]>> \in x
    BY <1>1, <1>2, Zenon DEF trans
  <2>2. f = <<f[1], f[2]>> /\ g = <<g[1], g[2]>> /\ f[2] \in Ops(s)
    BY <1>1, <1>2
  <2>3. ASSUME <<f[1], g[2]>> = e PROVE FALSE
    <3>1. e[1] = f[1] /\ e[2] = g[2]
      BY <2>3
    <3>2. f[2] \in Between(s, x, e)
      BY <3>1, <2>2, <1>2, Zenon DEF Between
    <3> QED BY <3>2
  <2> QED BY <2>1, <2>3
<1>3. trans(x \ {e})
  BY <1>2, Zenon DEF trans
<1>4. irr(s, x \ {e})
  BY <1>1, Zenon DEF irr
<1> QED BY <1>1, <1>3, <1>4, Zenon DEF IsOrder

\* An order with a smaller one inside has an edge that the smaller one lacks and
\* that can be taken away.
LEMMA LooseEdge ==
    ASSUME NEW s \in Sizes, NEW x, IsOrder(s, x), NEW z, IsOrder(s, z), z \subseteq x, z # x
    PROVE  \E e \in x : e \notin z /\ IsOrder(s, x \ {e})
<1>0. x \in SUBSET (Ops(s) \X Ops(s)) /\ irr(s, x) /\ trans(x) /\ trans(z)
  BY DEF IsOrder
<1> DEFINE T == {Between(s, x, e) : e \in x \ z}
<1>1. T \subseteq SUBSET Ops(s) /\ T # {} /\ IsFiniteSet(Ops(s))
  BY OpsFinite DEF Between
<1>2. PICK I \in T : \A J \in T : J \subseteq I => J = I
  <2> HIDE DEF T
  <2> QED BY <1>1, SmallestSet
<1>3. PICK e \in x \ z : I = Between(s, x, e)
  OBVIOUS
<1>4. ASSUME NEW i \in Between(s, x, e) PROVE FALSE
  <2>1. /\ i \in Ops(s) /\ <<e[1], i>> \in x /\ <<i, e[2]>> \in x
        /\ e = <<e[1], e[2]>> /\ e[1] \in Ops(s) /\ e[2] \in Ops(s)
    BY <1>0, <1>3, <1>4 DEF Between
  <2>2. e[1] # i /\ i # e[2]
    BY <2>1, <1>0, Zenon DEF irr
  <2> DEFINE f == <<e[1], i>>
             g == <<i, e[2]>>
  <2>3. f \notin z \/ g \notin z
    <3>1. f[2] = g[1] /\ f[1] # f[2] /\ g[1] # g[2] /\ <<f[1], g[2]>> = e
      BY <2>1, <2>2
    <3> HIDE DEF f, g
    <3> QED BY <3>1, <1>0, <1>3, Zenon DEF trans
  <2>4. \A a, b, c \in Ops(s) : <<a, b>> \in x /\ <<b, c>> \in x => <<a, c>> \in x
    <3> SUFFICES ASSUME NEW a \in Ops(s), NEW b \in Ops(s), NEW c \in Ops(s),
                        <<a, b>> \in x, <<b, c>> \in x
                 PROVE  <<a, c>> \in x
      OBVIOUS
    <3>1. a # b /\ b # c
      BY <1>0, Zenon DEF irr
    <3>2. <<<<a, b>>[1], <<b, c>>[2]>> \in x
      <4>1. <<a, b>>[2] = <<b, c>>[1] /\ <<a, b>>[1] # <<a, b>>[2] /\ <<b, c>>[1] # <<b, c>>[2]
        BY <3>1
      <4> QED BY <4>1, <1>0, Zenon DEF trans
    <3> QED BY <3>2
  <2>5. Between(s, x, f) \subseteq I /\ Between(s, x, g) \subseteq I
    BY <2>1, <2>4, <1>3, Zenon DEF Between
  <2>6. i \in I /\ i \notin Between(s, x, f) /\ i \notin Between(s, x, g)
    BY <1>0, <1>3, <1>4, <2>1 DEF Between, irr
  <2>7. f \in x /\ g \in x
    BY <2>1
  <2>8. Between(s, x, f) \in T \/ Between(s, x, g) \in T
    BY <2>3, <2>7, Zenon
  <2> QED BY <2>5, <2>6, <2>8, <1>2, Zenon
<1>5. IsOrder(s, x \ {e})
  BY <1>3, <1>4, CoverGoes
<1> QED BY <1>3, <1>5

\* An order from which no single edge can go is minimal among all.
LEMMA MinimalAmongAll ==
    ASSUME FormulasRight, NEW s \in Sizes, NEW x \in Minimal[s],
           NEW z \in SUBSET x, z # x
    PROVE  z \notin Forbidden[s]
<1> SUFFICES ASSUME z \in Forbidden[s] PROVE FALSE
  OBVIOUS
<1>1. IsOrder(s, x) /\ minimal_all(s, x)
  BY MinimalAre
<1>2. IsOrder(s, z) /\ testcase(s, z)
  BY TestCasesAre
<1>3. PICK e \in x : e \notin z /\ IsOrder(s, x \ {e})
  BY <1>1, <1>2, LooseEdge
<1>4. testcase(s, x \ {e})
  <2>1. z \subseteq x \ {e}
    BY <1>3
  <2> QED BY <2>1, <1>2, <1>3, TestCaseGrows
<1>5. e = <<e[1], e[2]>>
  BY <1>1 DEF IsOrder
<1>6. ~testcase(s, x \ {<<e[1], e[2]>>})
  BY <1>1, Zenon DEF minimal_all, minimal_one
<1> QED BY <1>4, <1>5, <1>6, Zenon

\* Every forbidden order contains a minimal one.
LEMMA MinimalInside ==
    ASSUME FormulasRight, NEW s \in Sizes, NEW x \in Forbidden[s]
    PROVE  \E z \in Minimal[s] : z \subseteq x
<1>1. IsOrder(s, x) /\ x \subseteq Ops(s) \X Ops(s)
  BY TestCasesAre DEF IsOrder
<1>2. IsFiniteSet(Ops(s) \X Ops(s))
  BY OpsFinite, FS_Product
<1> DEFINE T == {z \in Forbidden[s] : z \subseteq x}
<1>3. T \subseteq SUBSET (Ops(s) \X Ops(s)) /\ T # {}
  BY <1>1
<1>4. PICK z \in T : \A y \in T : y \subseteq z => y = z
  <2> HIDE DEF T
  <2> QED BY <1>2, <1>3, SmallestSet
<1>5. IsOrder(s, z) /\ testcase(s, z)
  BY TestCasesAre
<1>6. ASSUME NEW e \in z, testcase(s, z \ {<<e[1], e[2]>>}) PROVE FALSE
  <2>1. e = <<e[1], e[2]>>
    BY <1>5 DEF IsOrder
  <2>2. testcase(s, z \ {e})
    BY <1>6, <2>1, Zenon
  <2>3. IsOrder(s, z \ {e})
    <3>1. po(s, z \ {e})
      BY <2>2 DEF testcase
    <3> QED BY <3>1, <1>5 DEF IsOrder, po
  <2>4. z \ {e} \in T
    BY <2>2, <2>3, TestCasesAre
  <2>5. z \ {e} \subseteq z /\ z \ {e} # z
    OBVIOUS
  <2> QED BY <2>4, <2>5, <1>4
<1>7. z \in Minimal[s]
  BY <1>5, <1>6, MinimalAre, Zenon DEF minimal_all, minimal_one
<1> QED BY <1>7

-----------------------------------------------------------------------------
\* The ways to rename the operations of a queue.
Renaming(s, f) ==
    /\ f \in [Ops(s) -> Ops(s)]
    /\ \A i, j \in Ops(s) : f[i] = f[j] => i = j
    /\ \A i \in Ops(s) : QueueType(s, f[i]) = QueueType(s, i)
    /\ \A i \in EnqOps(s) : f[i + 1] = f[i] + 1

\* An enqueue and its dequeue.
LEMMA EnqOpsAre ==
    ASSUME NEW s \in Sizes, s.tool = "queue"
    PROVE  /\ \A i \in Ops(s) : i \in EnqOps(s) <=> QueueType(s, i) = 0
           /\ \A i \in EnqOps(s) : i \in Ops(s) /\ i + 1 \in Ops(s)
           /\ \A i \in EnqOps(s) : QueueType(s, i + 1) = 1
           /\ \A i \in Ops(s) : QueueType(s, i) = 1 => i - 1 \in EnqOps(s)
BY SizeFacts, SMTT(30) DEF EnqOps, Ops, QueueType

\* A renaming reaches every operation.
LEMMA RenamingOnto ==
    ASSUME NEW s \in Sizes, NEW f, Renaming(s, f)
    PROVE  \A j \in Ops(s) : \E i \in Ops(s) : f[i] = j
<1>1. f \in Injection(Ops(s), Ops(s))
  BY Zenon DEF Renaming, Injection, IsInjective
<1>2. f \in Surjection(Ops(s), Ops(s))
  BY <1>1, OpsFinite, FS_Injection
<1> QED BY <1>2, Zenon DEF Surjection

\* The maps of gi_strong are the renamings.
LEMMA MapsAre ==
    ASSUME NEW s \in Sizes, s.tool = "queue", NEW f
    PROVE  f \in Maps[s] <=> Renaming(s, f)
<1>0. s \in QueueSizes /\ Count(s) \in Nat
  BY SizeFacts DEF QueueSizes
<1>1. f \in Maps[s] <=> f \in gi_t1t2(s) /\ gi_t4(s, f) /\ gi_t5(s, f)
  BY <1>0, Zenon DEF Maps
<1>2. f \in gi_t1t2(s) <=> /\ f \in [Ops(s) -> Ops(s)]
                           /\ \A i, j \in Ops(s) : f[i] = f[j] => i = j
  <2>1. ASSUME NEW run \in SetToSeqs(Ops(s)), f = [i \in Ops(s) |-> run[i + 1]]
        PROVE  /\ f \in [Ops(s) -> Ops(s)]
               /\ \A i, j \in Ops(s) : f[i] = f[j] => i = j
    <3>1. /\ run \in [1 .. Count(s) -> Ops(s)]
          /\ \A i, j \in 1 .. Count(s) : i # j => run[i] # run[j]
      BY <2>1, OpsFinite, Zenon DEF SetToSeqs
    <3>2. \A i \in Ops(s) : i + 1 \in 1 .. Count(s) /\ i \in Nat
      BY <1>0, SMT DEF Ops
    <3>3. \A i \in Ops(s) : f[i] = run[i + 1] /\ run[i + 1] \in Ops(s)
      BY <2>1, <3>1, <3>2, Zenon
    <3>4. f \in [Ops(s) -> Ops(s)]
      BY <2>1, <3>3
    <3>5. ASSUME NEW i \in Ops(s), NEW j \in Ops(s), i # j
          PROVE  f[i] # f[j]
      <4>1. i + 1 # j + 1
        BY <3>2, <3>5, SMT
      <4> QED BY <3>1, <3>2, <3>3, <4>1, Zenon
    <3> QED BY <3>4, <3>5, Zenon
  <2>2. ASSUME f \in [Ops(s) -> Ops(s)], \A i, j \in Ops(s) : f[i] = f[j] => i = j
        PROVE  f \in gi_t1t2(s)
    <3> DEFINE run == [i \in 1 .. Count(s) |-> f[i - 1]]
    <3>1. \A i \in 1 .. Count(s) : i - 1 \in Ops(s) /\ i \in Nat
      BY <1>0, SMT DEF Ops
    <3>2. run \in SetToSeqs(Ops(s))
      <4>1. run \in [1 .. Count(s) -> Ops(s)]
        BY <2>2, <3>1
      <4>2. ASSUME NEW i \in 1 .. Count(s), NEW j \in 1 .. Count(s), i # j
            PROVE  run[i] # run[j]
        <5>1. i - 1 # j - 1
          BY <3>1, <4>2, SMT
        <5> QED BY <5>1, <2>2, <3>1
      <4> HIDE DEF run
      <4> QED BY <4>1, <4>2, OpsFinite, Zenon DEF SetToSeqs
    <3>3. f = [i \in Ops(s) |-> run[i + 1]]
      <4>1. \A i \in Ops(s) : i + 1 \in 1 .. Count(s) /\ (i + 1) - 1 = i
        BY <1>0, SMT DEF Ops
      <4>2. \A i \in Ops(s) : run[i + 1] = f[i]
        BY <4>1
      <4> HIDE DEF run
      <4> QED BY <4>2, <2>2
    <3> HIDE DEF run
    <3> QED BY <3>2, <3>3, Zenon DEF gi_t1t2
  <2> QED BY <2>1, <2>2, Zenon DEF gi_t1t2
<1>3. ASSUME f \in [Ops(s) -> Ops(s)], gi_t4(s, f)
      PROVE  gi_t5(s, f) <=> \A i \in EnqOps(s) : f[i + 1] = f[i] + 1
  <2>1. \A i \in Ops(s) : i \in EnqOps(s) <=> QueueType(s, i) = 0 /\ QueueType(s, f[i]) = 0
    BY <1>3, EnqOpsAre, Zenon DEF gi_t4
  <2>2. \A i \in EnqOps(s) : i \in Ops(s)
    BY EnqOpsAre
  <2> QED BY <2>1, <2>2, Zenon DEF gi_t5
<1>4. gi_t4(s, f) <=> \A i \in Ops(s) : QueueType(s, f[i]) = QueueType(s, i)
  BY Zenon DEF gi_t4
<1> QED BY <1>1, <1>2, <1>3, <1>4 DEF Renaming

\* What an order becomes.
Image(f, x) == {<<f[e[1]], f[e[2]]>> : e \in x}

\* The names of a trace, in other words.
LEMMA RenamedAre ==
    ASSUME NEW s \in Sizes, NEW x, NEW y
    PROVE  y \in Renamed(s, x) <=> \E f : Renaming(s, f) /\ y = Image(f, x)
<1>1. ASSUME NEW f \in [Ops(s) -> Ops(s)]
      PROVE  IsInjective(f) <=> \A i, j \in Ops(s) : f[i] = f[j] => i = j
  BY Zenon DEF IsInjective
<1>2. y \in Renamed(s, x) <=>
        \E f \in [Ops(s) -> Ops(s)] :
            /\ IsInjective(f)
            /\ \A i \in Ops(s) : QueueType(s, f[i]) = QueueType(s, i)
            /\ \A i \in EnqOps(s) : f[i + 1] = f[i] + 1
            /\ y = Image(f, x)
  BY Zenon DEF Renamed, Image
<1> QED BY <1>1, <1>2, Zenon DEF Renaming

\* gi_strong maps one trace to another if the second is a name of the first.
LEMMA MatchIsName ==
    ASSUME NEW s \in Sizes, s.tool = "queue", NEW x, IsOrder(s, x), NEW y, IsOrder(s, y)
    PROVE  gi_strong(s, x, y) <=> y \in Renamed(s, x)
<1>0. /\ x \in SUBSET (Ops(s) \X Ops(s)) /\ y \in SUBSET (Ops(s) \X Ops(s))
      /\ \A i, j \in Ops(s) : <<i, j>> \in x => i # j
      /\ \A i, j \in Ops(s) : <<i, j>> \in y => i # j
  BY DEF IsOrder, irr
<1>1. ASSUME NEW f, Renaming(s, f)
      PROVE  gi_t3(s, f, x, y) <=> y = Image(f, x)
  <2>0. /\ f \in [Ops(s) -> Ops(s)]
        /\ \A i, j \in Ops(s) : f[i] = f[j] => i = j
        /\ \A j \in Ops(s) : \E i \in Ops(s) : f[i] = j
    BY <1>1, RenamingOnto DEF Renaming
  <2>1. ASSUME gi_t3(s, f, x, y) PROVE y = Image(f, x)
    <3>1. ASSUME NEW d \in y PROVE d \in Image(f, x)
      <4>1. d = <<d[1], d[2]>> /\ d[1] \in Ops(s) /\ d[2] \in Ops(s)
        BY <1>0
      <4>2. PICK i \in Ops(s) : f[i] = d[1]
        BY <2>0, <4>1, Zenon
      <4>3. PICK j \in Ops(s) : f[j] = d[2]
        BY <2>0, <4>1, Zenon
      <4>4. d[1] # d[2]
        BY <1>0, <4>1, Zenon
      <4>5. i # j
        BY <4>2, <4>3, <4>4, Zenon
      <4>6. <<f[i], f[j]>> \in y
        BY <4>1, <4>2, <4>3, Zenon
      <4>7. <<i, j>> \in x
        BY <2>1, <4>5, <4>6, Zenon DEF gi_t3
      <4>8. <<f[<<i, j>>[1]], f[<<i, j>>[2]]>> \in Image(f, x)
        BY <4>7, Zenon DEF Image
      <4> QED BY <4>8, <4>2, <4>3, <4>1
    <3>2. ASSUME NEW e \in x PROVE <<f[e[1]], f[e[2]]>> \in y
      <4>1. e = <<e[1], e[2]>> /\ e[1] \in Ops(s) /\ e[2] \in Ops(s)
        BY <1>0
      <4>2. e[1] # e[2]
        BY <1>0, <4>1, Zenon
      <4> QED BY <2>1, <4>1, <4>2, Zenon DEF gi_t3
    <3> QED BY <3>1, <3>2, Zenon DEF Image
  <2>2. ASSUME y = Image(f, x) PROVE gi_t3(s, f, x, y)
    <3>1. ASSUME NEW i \in Ops(s), NEW j \in Ops(s), <<i, j>> \in x
          PROVE  <<f[i], f[j]>> \in y
      <4>1. <<f[<<i, j>>[1]], f[<<i, j>>[2]]>> \in Image(f, x)
        BY <3>1, Zenon DEF Image
      <4> QED BY <4>1, <2>2
    <3>2. ASSUME NEW i \in Ops(s), NEW j \in Ops(s), <<f[i], f[j]>> \in y
          PROVE  <<i, j>> \in x
      <4>1. PICK e \in x : <<f[i], f[j]>> = <<f[e[1]], f[e[2]]>>
        BY <3>2, <2>2, Zenon DEF Image
      <4>2. e = <<e[1], e[2]>> /\ e[1] \in Ops(s) /\ e[2] \in Ops(s)
        BY <1>0
      <4>3. f[i] = f[e[1]] /\ f[j] = f[e[2]]
        BY <4>1
      <4>4. i = e[1]
        <5>1. e[1] \in Ops(s) /\ f[i] = f[e[1]]
          BY <4>2, <4>3
        <5> QED BY ONLY <2>0, <5>1, i \in Ops(s), Zenon
      <4>5. j = e[2]
        <5>1. e[2] \in Ops(s) /\ f[j] = f[e[2]]
          BY <4>2, <4>3
        <5> QED BY ONLY <2>0, <5>1, j \in Ops(s), Zenon
      <4> QED BY <4>2, <4>4, <4>5
    <3> QED BY <3>1, <3>2, Zenon DEF gi_t3
  <2> QED BY <2>1, <2>2
<1> QED BY <1>1, MapsAre, RenamedAre, Zenon DEF gi_strong

\* If y is a name of x, x is a name of y.
LEMMA RenamedBack ==
    ASSUME NEW s \in Sizes, s.tool = "queue", NEW x \in SUBSET (Ops(s) \X Ops(s)),
           NEW y \in Renamed(s, x)
    PROVE  x \in Renamed(s, y)
<1>1. PICK f : Renaming(s, f) /\ y = Image(f, x)
  BY RenamedAre
<1>2. /\ f \in [Ops(s) -> Ops(s)]
      /\ \A i, j \in Ops(s) : f[i] = f[j] => i = j
      /\ \A j \in Ops(s) : \E i \in Ops(s) : f[i] = j
  BY <1>1, RenamingOnto DEF Renaming
<1> DEFINE g == [j \in Ops(s) |-> CHOOSE i \in Ops(s) : f[i] = j]
<1>3. \A j \in Ops(s) : g[j] \in Ops(s) /\ f[g[j]] = j
  BY <1>2
<1>4. g \in [Ops(s) -> Ops(s)]
  BY <1>3
<1>5. \A i \in Ops(s) : g[f[i]] = i
  BY <1>2, <1>3
<1> HIDE DEF g
<1>6. \A i, j \in Ops(s) : g[i] = g[j] => i = j
  BY <1>3, Zenon
<1>7. \A i \in Ops(s) : QueueType(s, g[i]) = QueueType(s, i)
  <2>1. \A i \in Ops(s) : QueueType(s, f[i]) = QueueType(s, i)
    BY <1>1 DEF Renaming
  <2> QED BY <2>1, <1>3, Zenon
<1>8. \A i \in EnqOps(s) : g[i + 1] = g[i] + 1
  <2> TAKE i \in EnqOps(s)
  <2>1. i \in Ops(s) /\ QueueType(s, i) = 0
    BY EnqOpsAre
  <2>2. g[i] \in Ops(s) /\ QueueType(s, g[i]) = 0
    BY <1>3, <1>7, <2>1
  <2>3. g[i] \in EnqOps(s)
    BY <2>2, EnqOpsAre
  <2>4. g[i] + 1 \in Ops(s) /\ f[g[i] + 1] = f[g[i]] + 1
    BY <1>1, <2>3, EnqOpsAre, Zenon DEF Renaming
  <2>5. f[g[i] + 1] = i + 1
    BY <2>4, <2>1, <1>3
  <2> QED BY <2>4, <2>5, <1>5, Zenon
<1>9. Renaming(s, g)
  BY <1>4, <1>6, <1>7, <1>8, Zenon DEF Renaming
<1>10. x = Image(g, y)
  <2>1. ASSUME NEW e \in x PROVE e \in Image(g, y)
    <3>1. e = <<e[1], e[2]>> /\ e[1] \in Ops(s) /\ e[2] \in Ops(s)
      OBVIOUS
    <3>2. PICK d : d = <<f[e[1]], f[e[2]]>>
      OBVIOUS
    <3>3. d \in y
      BY <1>1, <3>2, Zenon DEF Image
    <3>4. <<g[d[1]], g[d[2]]>> \in Image(g, y)
      BY <3>3, Zenon DEF Image
    <3>5. g[d[1]] = e[1] /\ g[d[2]] = e[2]
      <4>1. d[1] = f[e[1]] /\ d[2] = f[e[2]]
        BY <3>2
      <4> QED BY <4>1, <3>1, <1>5, Zenon
    <3> QED BY <3>1, <3>4, <3>5, Zenon
  <2>2. ASSUME NEW d \in y PROVE <<g[d[1]], g[d[2]]>> \in x
    <3>1. PICK e \in x : d = <<f[e[1]], f[e[2]]>>
      BY <1>1, Zenon DEF Image
    <3>2. e = <<e[1], e[2]>> /\ e[1] \in Ops(s) /\ e[2] \in Ops(s)
      OBVIOUS
    <3>3. d[1] = f[e[1]] /\ d[2] = f[e[2]]
      BY <3>1
    <3>4. g[d[1]] = e[1] /\ g[d[2]] = e[2]
      BY <3>2, <3>3, <1>5, Zenon
    <3> QED BY <3>2, <3>4
  <2> QED BY <2>1, <2>2, Zenon DEF Image
<1> QED BY <1>9, <1>10, RenamedAre

-----------------------------------------------------------------------------
\* The loop.

\* What is printed is wanted, and when the solver has no more models all of the
\* wanted ones are ruled out.
SolverInv ==
    /\ size \in Sizes
    /\ found \subseteq Minimal[size]
    /\ res = "unsat" => Candidates(size, found) = {}
    /\ NoTwoAlike

\* A wanted trace that m rules out contains one of the names of m.
LEMMA RulesOutNames ==
    ASSUME NEW s \in Sizes, NEW x \in Minimal[s], NEW y \in Minimal[s],
           RulesOut(s, x, y)
    PROVE  \E z \in Names[s][x] : z \subseteq y
<1>1. IsOrder(s, x) /\ IsOrder(s, y)
  BY MinimalAre
<1>2. CASE s.tool = "queue"
  <2>1. gi_strong(s, x, y)
    BY <1>2, Zenon DEF RulesOut
  <2>2. y \in Renamed(s, x)
    BY <2>1, <1>1, <1>2, MatchIsName
  <2>3. Names[s][x] = Renamed(s, x)
    BY <1>2, Zenon DEF Names
  <2> QED BY <2>2, <2>3
<1>3. CASE s.tool # "queue"
  <2>1. x \subseteq y
    BY <1>3, Zenon DEF RulesOut, RuledOutBy
  <2>2. Names[s][x] = {x}
    BY <1>3, Zenon DEF Names
  <2> QED BY <2>1, <2>2
<1> QED BY <1>2, <1>3

\* And it rules out all of them.
LEMMA NamesRuledOut ==
    ASSUME NEW s \in Sizes, NEW x \in Minimal[s], NEW y \in Minimal[s],
           x # y, y \in Names[s][x]
    PROVE  RulesOut(s, x, y) /\ RulesOut(s, y, x)
<1>1. IsOrder(s, x) /\ IsOrder(s, y)
  BY MinimalAre
<1>2. s.tool = "queue"
  <2>1. s.tool # "queue" => Names[s][x] = {x}
    BY Zenon DEF Names
  <2> QED BY <2>1
<1>3. y \in Renamed(s, x)
  BY <1>2, Zenon DEF Names
<1>4. x \in Renamed(s, y)
  BY <1>1, <1>2, <1>3, RenamedBack DEF IsOrder
<1>5. gi_strong(s, x, y) /\ gi_strong(s, y, x)
  BY <1>1, <1>2, <1>3, <1>4, MatchIsName
<1> QED BY <1>2, <1>5, Zenon DEF RulesOut

\* The script begins with nothing printed.
LEMMA SolverStarts == ASSUME SolverInit PROVE SolverInv
<1>1. size \in Sizes /\ found = {} /\ res = Answer(size, {})
  BY DEF SolverInit
<1>2. res = "unsat" => Candidates(size, found) = {}
  BY <1>1, Zenon DEF Answer
<1> QED BY <1>1, <1>2, Zenon DEF SolverInv, NoTwoAlike

\* A model that is printed is none of those before it under another name.
LEMMA ModelPrinted ==
    ASSUME SolverInv, NextModel
    PROVE  SolverInv'
<1>1. PICK x \in Candidates(size, found) :
            found' = found \cup {x} /\ res' = Answer(size, found') /\ size' = size
  BY Zenon DEF NextModel
<1>2. size \in Sizes /\ found \subseteq Minimal[size] /\ NoTwoAlike
  BY DEF SolverInv
<1>3. x \in Minimal[size] /\ \A m \in found : ~RulesOut(size, m, x)
  BY <1>1, Zenon DEF Candidates
<1>4. res' = "unsat" => Candidates(size', found') = {}
  BY <1>1, Zenon DEF Answer
<1>5. ASSUME NEW y \in found, x # y
      PROVE  x \notin Names[size][y] /\ y \notin Names[size][x]
  <2>1. y \in Minimal[size] /\ ~RulesOut(size, y, x)
    BY <1>2, <1>3
  <2>2. x \notin Names[size][y]
    BY <1>2, <1>3, <1>5, <2>1, NamesRuledOut
  <2>3. y \notin Names[size][x]
    BY <1>2, <1>3, <1>5, <2>1, NamesRuledOut
  <2> QED BY <2>2, <2>3
<1>6. NoTwoAlike'
  <2> SUFFICES ASSUME NEW y \in found', NEW z \in found', y # z
               PROVE  z \notin Names[size][y]
    BY <1>1, Zenon DEF NoTwoAlike
  <2>1. y \in found /\ z \in found => z \notin Names[size][y]
    BY <1>2, Zenon DEF NoTwoAlike
  <2> QED BY <2>1, <1>1, <1>5, Zenon
<1> QED BY <1>1, <1>2, <1>3, <1>4, <1>6, Zenon DEF SolverInv

\* When a program has been made of one, the script's models are gone.
LEMMA ScriptGone ==
    ASSUME SolverInv, size' = size, found' = {}, res' = "ended"
    PROVE  SolverInv'
<1>1. NoTwoAlike'
  BY Zenon DEF NoTwoAlike
<1> QED BY <1>1, Zenon DEF SolverInv

\* Nothing else touches them.
LEMMA SolverKept == ASSUME SolverInv, UNCHANGED solverVars PROVE SolverInv'
<1>1. size' = size /\ found' = found /\ res' = res
  BY DEF solverVars
<1> QED BY <1>1, Zenon DEF SolverInv, NoTwoAlike, Candidates

\* So it is in every step of the tool chain.
LEMMA SolverSteps == ASSUME SolverInv, [Next]_vars PROVE SolverInv'
<1>1. CASE NextModel
  BY <1>1, ModelPrinted
<1>2. CASE Generate
  BY <1>2, ScriptGone DEF Generate
<1>3. CASE \E t \in started : Load(t) \/ Call(t) \/ Return(t) \/ Signal(t)
  BY <1>3, SolverKept, Zenon DEF Load, Call, Return, Signal
<1>4. CASE UNCHANGED vars
  BY <1>4, SolverKept DEF vars
<1> QED BY <1>1, <1>2, <1>3, <1>4, Zenon DEF Next, Terminating

\* No trace is printed in vain: each is the order of histories that no FIFO
\* queue, or no set, can have, and none contains a smaller order with this
\* property, although minimal_one tries its edges one by one.
THEOREM MinimalFound ==
    ASSUME FormulasRight
    PROVE  Spec => []FoundAreMinimal
<1>1. Init => SolverInv
  BY SolverStarts DEF Init
<1>2. SolverInv /\ [Next]_vars => SolverInv'
  BY SolverSteps
<1>3. SolverInv => FoundAreMinimal
  <2> SUFFICES ASSUME SolverInv PROVE FoundAreMinimal
    OBVIOUS
  <2>1. size \in Sizes /\ found \subseteq Minimal[size]
    BY DEF SolverInv
  <2>2. \A x \in found : x \in Forbidden[size]
    BY <2>1, MinimalAre, TestCasesAre
  <2>3. \A x \in found : \A z \in SUBSET x : z # x => z \notin Forbidden[size]
    BY <2>1, MinimalAmongAll
  <2> QED BY <2>2, <2>3, Zenon DEF FoundAreMinimal
<1> QED BY <1>1, <1>2, <1>3, PTL DEF Spec

\* No trace is printed under two names: gi_strong rules out every renaming of
\* the models before it, and the scripts print no others.
THEOREM PrintedOnce == Spec => []NoTwoAlike
<1>1. Init => SolverInv
  BY SolverStarts DEF Init
<1>2. SolverInv /\ [Next]_vars => SolverInv'
  BY SolverSteps
<1>3. SolverInv => NoTwoAlike
  BY DEF SolverInv
<1> QED BY <1>1, <1>2, <1>3, PTL DEF Spec

\* When the script ends it has missed nothing: every order that makes a history
\* impossible contains one of the traces printed, under some names.  Neither
\* gi_strong nor the assertion of set_solver.py rules out more than it should.
THEOREM AllFound ==
    ASSUME FormulasRight
    PROVE  Spec => []NothingMissed
<1>1. Init => SolverInv
  BY SolverStarts DEF Init
<1>2. SolverInv /\ [Next]_vars => SolverInv'
  BY SolverSteps
<1>3. SolverInv => NothingMissed
  <2> SUFFICES ASSUME SolverInv, res = "unsat", NEW x \in Forbidden[size]
               PROVE  \E y \in UNION {Names[size][m] : m \in found} : y \subseteq x
    BY Zenon DEF NothingMissed
  <2>1. size \in Sizes /\ found \subseteq Minimal[size] /\ Candidates(size, found) = {}
    BY DEF SolverInv
  <2>2. PICK z \in Minimal[size] : z \subseteq x
    BY <2>1, MinimalInside
  <2>3. PICK m \in found : RulesOut(size, m, z)
    BY <2>1, <2>2, Zenon DEF Candidates
  <2>4. PICK y \in Names[size][m] : y \subseteq z
    BY <2>1, <2>3, RulesOutNames
  <2> QED BY <2>2, <2>4
<1> QED BY <1>1, <1>2, <1>3, PTL DEF Spec

-----------------------------------------------------------------------------
\* The program made from a trace.

\* A finite set of numbers can be listed in ascending order.
LEMMA Ascending ==
    ASSUME NEW W, W \subseteq Nat, IsFiniteSet(W)
    PROVE  \E q \in SetToSeqs(W) : \A i, j \in DOMAIN q : i < j => q[i] < q[j]
<1>1. PICK c \in Nat : c = Cardinality(W)
  BY FS_CardinalityType
<1> DEFINE Upto(w) == {v \in W : v <= w}
           r == [w \in W |-> Cardinality(Upto(w))]
<1>2. ASSUME NEW w \in W
      PROVE  IsFiniteSet(Upto(w)) /\ r[w] \in 1 .. c
  <2>1. Upto(w) \subseteq W /\ w \in Upto(w)
    BY SMT
  <2>2. IsFiniteSet(Upto(w)) /\ Cardinality(Upto(w)) <= c /\ Cardinality(Upto(w)) \in Nat
    <3> HIDE DEF Upto
    <3> QED BY <1>1, <2>1, FS_Subset, FS_CardinalityType
  <2>3. Cardinality(Upto(w)) # 0
    <3> HIDE DEF Upto
    <3> QED BY <2>1, <2>2, FS_EmptySet
  <2> HIDE DEF Upto
  <2> QED BY <2>2, <2>3, <1>1, SMT
<1>3. ASSUME NEW v \in W, NEW w \in W, v < w
      PROVE  r[v] < r[w]
  <2>1. Upto(v) \subseteq Upto(w) /\ Upto(v) # Upto(w)
    <3>1. v \in Nat /\ w \in Nat /\ \A u \in W : u \in Nat
      OBVIOUS
    <3>2. \A u \in W : u <= v => u <= w
      BY <1>3, <3>1, SMT
    <3>3. w <= w /\ ~(w <= v)
      BY <1>3, <3>1, SMT
    <3>4. Upto(v) \subseteq Upto(w)
      BY <3>2, Zenon
    <3>5. w \in Upto(w) /\ w \notin Upto(v)
      BY <3>3, Zenon
    <3> QED BY <3>4, <3>5, Zenon
  <2>2. r[v] = Cardinality(Upto(v)) /\ r[w] = Cardinality(Upto(w))
    OBVIOUS
  <2>3. Cardinality(Upto(v)) <= Cardinality(Upto(w)) /\ Cardinality(Upto(v)) # Cardinality(Upto(w))
    <3>1. IsFiniteSet(Upto(w))
      BY <1>2
    <3> HIDE DEF Upto, r
    <3> QED BY <2>1, <3>1, FS_Subset
  <2>4. r[v] \in Nat /\ r[w] \in Nat
    BY <1>2, SMT
  <2> HIDE DEF Upto, r
  <2> QED BY <2>2, <2>3, <2>4, SMT
<1> DEFINE q == [i \in 1 .. c |-> CHOOSE w \in W : r[w] = i]
<1>4. r \in Surjection(W, 1 .. c)
  <2>1. r \in [W -> 1 .. c]
    BY <1>2
  <2>2. \A v, w \in W : r[v] = r[w] => v = w
    <3> SUFFICES ASSUME NEW v \in W, NEW w \in W, r[v] = r[w], v # w PROVE FALSE
      OBVIOUS
    <3>1. v < w \/ w < v
      BY SMT
    <3>2. r[v] \in Nat /\ r[w] \in Nat
      BY <1>2, SMT
    <3> HIDE DEF r
    <3> QED BY <1>3, <3>1, <3>2, SMT
  <2> HIDE DEF r
  <2>3. r \in Injection(W, 1 .. c)
    BY <2>1, <2>2, Zenon DEF Injection, IsInjective
  <2>4. IsFiniteSet(1 .. c) /\ Cardinality(1 .. c) = c
    BY <1>1, FS_Interval, SMT
  <2> QED BY <1>1, <2>3, <2>4, FS_Injection
<1>5. \A i \in 1 .. c : q[i] \in W /\ r[q[i]] = i
  <2> HIDE DEF r
  <2>1. \A i \in 1 .. c : \E w \in W : r[w] = i
    BY <1>4, Zenon DEF Surjection
  <2> QED BY <2>1
<1>6. q \in [1 .. c -> W]
  BY <1>5
<1> HIDE DEF q, r
<1>7. \A i, j \in 1 .. c : i # j => q[i] # q[j]
  BY <1>5, Zenon
<1>8. ASSUME NEW i \in 1 .. c, NEW j \in 1 .. c, i < j
      PROVE  q[i] < q[j]
  <2>1. q[i] # q[j] /\ ~(q[j] < q[i])
    <3>1. i # j /\ ~(j < i)
      BY <1>8, SMT
    <3>2. q[i] # q[j]
      BY <3>1, <1>7, Zenon
    <3>3. ASSUME q[j] < q[i] PROVE FALSE
      <4>1. q[i] \in W /\ q[j] \in W /\ r[q[i]] = i /\ r[q[j]] = j
        BY <1>5
      <4>2. r[q[j]] < r[q[i]]
        BY <3>3, <4>1, <1>3
      <4> QED BY <3>1, <4>1, <4>2
    <3> QED BY <3>2, <3>3
  <2>2. q[i] \in Nat /\ q[j] \in Nat
    BY <1>5
  <2> QED BY <2>1, <2>2, SMT
<1>9. q \in SetToSeqs(W)
  BY <1>1, <1>6, <1>7, Zenon DEF SetToSeqs
<1>10. DOMAIN q = 1 .. c
  BY <1>6
<1> QED BY <1>8, <1>9, <1>10, Zenon

\* A thread waits for the flags of all that are before it, and for no other.
LEMMA WaitSeqIs ==
    ASSUME NEW S, IsFiniteSet(S), S \subseteq Nat, NEW t, WaitFor(trace, t) \subseteq S
    PROVE  /\ Len(WaitSeq(t)) \in Nat
           /\ \A i \in 1 .. Len(WaitSeq(t)) : WaitSeq(t)[i] \in WaitFor(trace, t)
           /\ \A u \in WaitFor(trace, t) : \E i \in 1 .. Len(WaitSeq(t)) : WaitSeq(t)[i] = u
<1> DEFINE W == WaitFor(trace, t)
           c == Cardinality(W)
           q == WaitSeq(t)
<1>1. IsFiniteSet(W) /\ W \subseteq Nat /\ c \in Nat
  BY FS_Subset, FS_CardinalityType
<1>2. q \in SetToSeqs(W)
  <2> HIDE DEF W
  <2>1. \E p \in SetToSeqs(W) : \A i, j \in DOMAIN p : i < j => p[i] < p[j]
    BY <1>1, Ascending
  <2> USE DEF W
  <2> QED BY <2>1, Zenon DEF WaitSeq
<1>3. q \in [1 .. c -> W] /\ \A i, j \in 1 .. c : i # j => q[i] # q[j]
  BY <1>2, Zenon DEF SetToSeqs
<1> HIDE DEF q, W
<1>4. q \in Injection(1 .. c, W)
  BY <1>3, Zenon DEF Injection, IsInjective
<1>5. IsFiniteSet(1 .. c) /\ Cardinality(1 .. c) = c
  BY <1>1, FS_Interval, SMT
<1>6. q \in Surjection(1 .. c, W)
  BY <1>1, <1>4, <1>5, FS_Injection
<1>7. Len(q) = c
  <2>1. q \in Seq(W)
    BY <1>1, <1>3, SMT
  <2> QED BY <2>1, <1>1, <1>3, SMT
<1>8. \A u \in W : \E i \in 1 .. c : q[i] = u
  BY <1>6, Zenon DEF Surjection
<1>9. \A i \in 1 .. c : q[i] \in W
  BY <1>3
<1> QED BY <1>1, <1>7, <1>8, <1>9 DEF q, W

\* Division with remainder.
LEMMA Division ==
    ASSUME NEW c \in Nat \ {0}, NEW i \in Nat
    PROVE  /\ i \div c \in Nat /\ i % c \in Nat /\ i % c < c
           /\ (i \div c) * c \in Nat /\ (i \div c) * c + (i % c) = i
<1>1. i \div c \in Nat /\ i % c \in Nat /\ i % c < c
  BY SMT
<1>2. i = c * (i \div c) + (i % c)
  BY SMT
<1>3. c * (i \div c) = (i \div c) * c
  BY <1>1, SMT
<1>4. (i \div c) * c \in Nat
  BY <1>1, SMT
<1> QED BY <1>1, <1>2, <1>3, <1>4

\* parse_index finds the operation that label has named.
LEMMA ParseQueue ==
    ASSUME LettersSuffice, NEW s \in Sizes, s.tool = "queue", NEW i \in Ops(s)
    PROVE  parse_index(s, label(s, i)) = i
<1>1. /\ s.n \in Nat /\ s.k \in Nat /\ s.k < s.n /\ s.n - s.k <= 38
      /\ i \in 0 .. s.n - 1
  BY SizeFacts, SMT DEF LettersSuffice, Ops, LetterT
<1>2. CASE i \in BottomOps(s)
  <2>1. label(s, i) = [kind |-> "deq", letter |-> 19, second |-> i - s.n + s.k]
    BY <1>2 DEF label, Name, LetterT
  <2>2. parse_index(s, label(s, i)) = s.n - s.k + (i - s.n + s.k)
    BY <2>1 DEF parse_index, LetterT
  <2> QED BY <2>2, <1>1, SMT
<1>3. CASE i \notin BottomOps(s)
  <2>1. i < s.n - s.k
    BY <1>1, <1>3, SMT DEF BottomOps
  <2>2. QueueType(s, i) = i % 2
    BY <1>1, <2>1, SMT DEF QueueType
  <2>3. /\ i \div 2 \in Nat /\ i % 2 \in {0, 1} /\ (i \div 2) * 2 + (i % 2) = i
        /\ i \div 2 # 19
    <3>1. 2 \in Nat \ {0} /\ i \in Nat
      BY <1>1, SMT
    <3>2. i \div 2 \in Nat /\ i % 2 \in Nat /\ i % 2 < 2 /\ (i \div 2) * 2 + (i % 2) = i
      BY <3>1, Division
    <3> QED BY <3>2, <1>1, <2>1, SMT
  <2>4. label(s, i) = [kind |-> IF i % 2 = 0 THEN "enq" ELSE "deq",
                       letter |-> i \div 2, second |-> 0]
    BY <1>3, <2>2 DEF label, Name
  <2>5. parse_index(s, label(s, i)) = (i \div 2) * 2 + (IF i % 2 = 0 THEN 0 ELSE 1)
    BY <2>3, <2>4 DEF parse_index, LetterT
  <2> HIDE DEF parse_index, label
  <2> QED BY <2>3, <2>5, SMT
<1> QED BY <1>2, <1>3

\* The same for sets.
LEMMA ParseSet ==
    ASSUME NEW s \in Sizes, s.tool = "set", NEW i \in Ops(s)
    PROVE  parse_index(s, label(s, i)) = i
<1> DEFINE c == GroupSize(s)
           a == i \div c
           p == i % c
<1>1. s.k \in Nat /\ s.l \in Nat /\ c = 2 + s.k + s.l /\ c \in Nat \ {0} /\ i \in Nat
  BY SizeFacts, SMT DEF Ops
<1>2. a \in Nat /\ p \in Nat /\ p < c /\ a * c \in Nat /\ a * c + p = i
  BY <1>1, Division, Zenon
<1>3. base_val(s, i) = a
  BY DEF base_val
<1>4. SetType(s, i) = IF p < 2 THEN p ELSE IF p < 2 + s.k THEN 2 ELSE 3
  BY DEF SetType
<1>5. parse_index(s, label(s, i)) =
        CASE SetType(s, i) = 0 -> a * c
          [] SetType(s, i) = 1 -> a * c + 1
          [] SetType(s, i) = 2 -> a * c + 2 + (p - 2)
          [] SetType(s, i) = 3 -> a * c + 2 + s.k + (p - 2 - s.k)
  <2> HIDE DEF c, a, p
  <2>2. CASE SetType(s, i) = 0
    <3>1. label(s, i) = [kind |-> "add", letter |-> a, second |-> 0]
      BY <2>2, <1>3 DEF label, Name
    <3> QED BY <2>2, <3>1 DEF parse_index, c
  <2>3. CASE SetType(s, i) = 1
    <3>1. label(s, i) = [kind |-> "remove", letter |-> a, second |-> 0]
      BY <2>3, <1>3 DEF label, Name
    <3> QED BY <2>3, <3>1 DEF parse_index, c
  <2>4. CASE SetType(s, i) = 2
    <3>1. label(s, i) = [kind |-> "in-t", letter |-> a, second |-> p - 2]
      BY <2>4, <1>3 DEF label, Name, p, c
    <3> QED BY <2>4, <3>1 DEF parse_index, c
  <2>5. CASE SetType(s, i) = 3
    <3>1. label(s, i) = [kind |-> "in-f", letter |-> a, second |-> p - 2 - s.k]
      BY <2>5, <1>3 DEF label, Name, p, c
    <3> QED BY <2>5, <3>1 DEF parse_index, c
  <2>6. SetType(s, i) \in {0, 1, 2, 3}
    BY <1>2, <1>4, SMT
  <2> QED BY <2>2, <2>3, <2>4, <2>5, <2>6, Zenon
<1> HIDE DEF a, c, p
<1> QED BY <1>1, <1>2, <1>4, <1>5, SMT

\* So the program is made for the trace that was printed.
LEMMA EdgesAre ==
    ASSUME LettersSuffice, NEW s \in Sizes, NEW x \in SUBSET (Ops(s) \X Ops(s))
    PROVE  Edges(s, x) = x
<1>1. \A i \in Ops(s) : parse_index(s, label(s, i)) = i
  BY SizeFacts, ParseQueue, ParseSet, Zenon
<1>2. \A e \in x : e[1] \in Ops(s) /\ e[2] \in Ops(s) /\ e = <<e[1], e[2]>>
  OBVIOUS
<1>3. \A e \in x : <<parse_index(s, label(s, e[1])), parse_index(s, label(s, e[2]))>> = e
  BY <1>1, <1>2, Zenon
<1> QED BY <1>3, Zenon DEF Edges

\* Who takes part is an operation, and all that the trace names take part.
LEMMA Participants ==
    ASSUME NEW s \in Sizes, NEW x \in SUBSET (Ops(s) \X Ops(s))
    PROVE  /\ participating(s, x) \subseteq Ops(s)
           /\ \A e \in x : e[1] \in participating(s, x) /\ e[2] \in participating(s, x)
<1> DEFINE named == {e[1] : e \in x} \cup {e[2] : e \in x}
<1>1. named \subseteq Ops(s)
  OBVIOUS
<1>2. ASSUME s.tool = "set", NEW r \in named, SetType(s, r) = 1
      PROVE  r - 1 \in Ops(s)
  <2>1. r \in Ops(s)
    BY <1>1
  <2> HIDE DEF named
  <2>2. GroupSize(s) \in Nat /\ GroupSize(s) >= 2 /\ Count(s) \in Nat /\ r \in 0 .. Count(s) - 1
    BY <1>2, <2>1, SizeFacts, SMT DEF Ops
  <2>3. r % GroupSize(s) = 1
    <3>1. r \in Nat /\ GroupSize(s) \in Nat \ {0}
      BY <2>2, SMT
    <3>2. r % GroupSize(s) \in Nat
      BY <3>1, Division, Zenon
    <3> QED BY <1>2, <3>2, SMT DEF SetType
  <2>4. r # 0
    <3>1. 0 % GroupSize(s) = 0
      BY <2>2, SMT
    <3> QED BY <2>3, <3>1
  <2> QED BY <2>2, <2>4, SMT DEF Ops
<1>3. participating(s, x) = named \cup {i - 1 : i \in {r \in named : s.tool = "set" /\ SetType(s, r) = 1}}
  BY DEF participating
<1> QED BY <1>1, <1>2, <1>3

-----------------------------------------------------------------------------
\* The run of the program.

\* What main sets up.
TestShape ==
    /\ trace \in Forbidden[size]
    /\ started \subseteq Ops(size)
    /\ \A e \in trace : e[2] \in started
    /\ pc \in [started -> {"wait", "call", "signal", "done", "blocked"}]
    /\ waited \in [started -> Nat]
    /\ flag \in [Ops(size) -> {0, 1}]
    /\ DOMAIN result = started

\* A flag is set by its own thread, when that is done; and the flags a thread
\* has seen are set.
FlagsHeld ==
    /\ \A u \in Ops(size) : flag[u] = 1 => u \in started /\ pc[u] = "done"
    /\ \A t \in started : \A i \in 1 .. Len(WaitSeq(t)) :
            i <= waited[t] => flag[WaitSeq(t)[i]] = 1

\* A call that has begun has those it waited for before it.
OrderKept ==
    \A t \in started : pc[t] \in {"call", "signal", "done"} =>
        \A u \in WaitFor(trace, t) : <<u, t>> \in before

\* A thread that goes on has the answer it is made for.
AnswersKept ==
    \A t \in started : pc[t] \in {"signal", "done"} =>
        result[t] \in Answers(size, t) /\ Passes(size, t, result[t])

TestInv ==
    /\ res = "ended" => TestShape /\ FlagsHeld /\ OrderKept /\ AnswersKept
    /\ res # "ended" => started = {}

\* The flags a thread waits for are those of operations.
LEMMA WaitsForOps ==
    ASSUME SolverInv, TestShape, NEW t
    PROVE  /\ WaitFor(trace, t) \subseteq Ops(size)
           /\ Len(WaitSeq(t)) \in Nat
           /\ \A i \in 1 .. Len(WaitSeq(t)) : WaitSeq(t)[i] \in WaitFor(trace, t)
           /\ \A u \in WaitFor(trace, t) : \E i \in 1 .. Len(WaitSeq(t)) : WaitSeq(t)[i] = u
<1>1. size \in Sizes
  BY DEF SolverInv
<1>2. trace \in SUBSET (Ops(size) \X Ops(size))
  <2>1. trace \in Posets[Count(size)]
    BY <1>1, Zenon DEF TestShape, Forbidden
  <2> QED BY <1>1, <2>1, PosetsAre DEF IsOrder
<1>3. WaitFor(trace, t) \subseteq Ops(size)
  BY <1>2 DEF WaitFor
<1>4. IsFiniteSet(Ops(size)) /\ Ops(size) \subseteq Nat
  BY <1>1, OpsFinite, SizeFacts, SMT DEF Ops
<1> QED BY <1>3, <1>4, WaitSeqIs

\* They are fixed with the trace.
LEMMA WaitSeqKept == ASSUME UNCHANGED trace, NEW t PROVE WaitSeq(t)' = WaitSeq(t)
BY DEF WaitSeq

\* The program as it is generated: nothing has run, no flag is set.
LEMMA TestGenerated ==
    ASSUME LettersSuffice, FormulasRight, SolverInv, TestInv, Generate
    PROVE  TestInv'
<1>1. PICK rel \in found :
        /\ trace' = Edges(size, rel)
        /\ started' \in {participating(size, trace'), Ops(size)}
  BY Zenon DEF Generate
<1>2. /\ pc' = [t \in started' |-> "wait"]
      /\ waited' = [t \in started' |-> 0]
      /\ flag' = [t \in Ops(size) |-> 0]
      /\ result' = [t \in started' |-> NoResult]
      /\ res' = "ended" /\ size' = size
  BY Zenon DEF Generate
<1>3. size \in Sizes /\ rel \in Minimal[size]
  BY <1>1 DEF SolverInv
<1>4. rel \in SUBSET (Ops(size) \X Ops(size)) /\ rel \in Forbidden[size]
  BY <1>3, MinimalAre, TestCasesAre DEF IsOrder
<1>5. trace' = rel
  BY <1>1, <1>3, <1>4, EdgesAre
<1>6. started' \subseteq Ops(size) /\ \A e \in rel : e[2] \in started'
  <2>1. \A e \in rel : e[2] \in Ops(size)
    BY <1>4
  <2>2. /\ participating(size, rel) \subseteq Ops(size)
        /\ \A e \in rel : e[2] \in participating(size, rel)
    BY <1>3, <1>4, Participants
  <2> QED BY <1>1, <1>5, <2>1, <2>2
<1>7. TestShape'
  <2>1. pc' \in [started' -> {"wait", "call", "signal", "done", "blocked"}]
    BY <1>2
  <2>2. waited' \in [started' -> Nat] /\ flag' \in [Ops(size) -> {0, 1}]
    BY <1>2
  <2>3. DOMAIN result' = started'
    BY <1>2
  <2> QED BY <1>2, <1>4, <1>5, <1>6, <2>1, <2>2, <2>3 DEF TestShape
<1>8. FlagsHeld'
  <2>1. \A u \in Ops(size)' : flag'[u] = 0
    BY <1>2
  <2>2. ASSUME NEW t \in started', NEW i \in 1 .. Len(WaitSeq(t)')
        PROVE  ~(i <= waited'[t])
    BY <1>2, SMT
  <2> QED BY <2>1, <2>2 DEF FlagsHeld
<1>9. \A t \in started' : pc'[t] = "wait"
  BY <1>2
<1> QED BY <1>2, <1>7, <1>8, <1>9, SMT DEF TestInv, OrderKept, AnswersKept

\* A thread counts a flag only when it is set.
LEMMA TestLoad ==
    ASSUME SolverInv, TestInv, NEW t \in started, Load(t)
    PROVE  TestInv'
<1>1. /\ res = "ended" /\ TestShape /\ FlagsHeld /\ OrderKept /\ AnswersKept
  BY Zenon DEF TestInv
<1>2. /\ pc[t] = "wait"
      /\ UNCHANGED <<size, found, res, trace, started, flag, result, before>>
  BY DEF Load, solverVars
<1>3. \/ /\ flag[WaitSeq(t)[waited[t] + 1]] = 1
         /\ waited' = [waited EXCEPT ![t] = @ + 1] /\ pc' = pc
      \/ /\ pc' = [pc EXCEPT ![t] = "blocked"] /\ waited' = waited
  BY DEF Load
<1>4. \A u : WaitSeq(u)' = WaitSeq(u)
  BY <1>2, WaitSeqKept
<1>5. TestShape'
  <2>1. pc' \in [started -> {"wait", "call", "signal", "done", "blocked"}]
    BY <1>1, <1>3, SMT DEF TestShape
  <2>2. waited' \in [started -> Nat]
    BY <1>1, <1>3, SMT DEF TestShape
  <2> QED BY <1>1, <1>2, <2>1, <2>2 DEF TestShape
<1>6. \A u \in started : pc'[u] = pc[u] \/ (u = t /\ pc'[u] = "blocked")
  BY <1>1, <1>3 DEF TestShape
<1>7. FlagsHeld'
  <2>1. ASSUME NEW u \in Ops(size), flag[u] = 1
        PROVE  u \in started /\ pc'[u] = "done"
    BY <2>1, <1>1, <1>2, <1>6 DEF FlagsHeld
  <2>2. ASSUME NEW u \in started, NEW i \in 1 .. Len(WaitSeq(u)), i <= waited'[u]
        PROVE  flag[WaitSeq(u)[i]] = 1
    <3>1. CASE i <= waited[u]
      BY <3>1, <1>1 DEF FlagsHeld
    <3>2. CASE ~(i <= waited[u])
      <4>1. u = t /\ waited'[t] = waited[t] + 1 /\ flag[WaitSeq(t)[waited[t] + 1]] = 1
        BY <3>2, <2>2, <1>1, <1>3, SMT DEF TestShape
      <4>2. i = waited[t] + 1
        BY <3>2, <2>2, <4>1, <1>1, SMT DEF TestShape
      <4> QED BY <4>1, <4>2
    <3> QED BY <3>1, <3>2
  <2> QED BY <2>1, <2>2, <1>2, <1>4, Zenon DEF FlagsHeld
<1>8. OrderKept'
  BY <1>1, <1>2, <1>6, Zenon DEF OrderKept
<1>9. AnswersKept'
  BY <1>1, <1>2, <1>6, Zenon DEF AnswersKept
<1> QED BY <1>1, <1>2, <1>5, <1>7, <1>8, <1>9 DEF TestInv

\* A thread that has counted all its flags begins after the calls it waits for.
LEMMA TestCall ==
    ASSUME SolverInv, TestInv, NEW t \in started, Call(t)
    PROVE  TestInv'
<1>1. /\ res = "ended" /\ TestShape /\ FlagsHeld /\ OrderKept /\ AnswersKept
  BY Zenon DEF TestInv
<1>2. /\ pc[t] = "wait" /\ waited[t] = Len(WaitSeq(t))
      /\ pc' = [pc EXCEPT ![t] = "call"]
      /\ before' = before \cup {<<u, t>> : u \in Returned}
      /\ UNCHANGED <<size, found, res, trace, started, waited, flag, result>>
  BY DEF Call, solverVars
<1>3. \A u : WaitSeq(u)' = WaitSeq(u)
  BY <1>2, WaitSeqKept
<1>4. TestShape'
  <2>1. pc' \in [started -> {"wait", "call", "signal", "done", "blocked"}]
    BY <1>1, <1>2, SMT DEF TestShape
  <2> QED BY <1>1, <1>2, <2>1 DEF TestShape
<1>5. \A u \in started : pc'[u] = pc[u] \/ (u = t /\ pc'[u] = "call")
  BY <1>1, <1>2 DEF TestShape
<1>6. FlagsHeld'
  <2>1. ASSUME NEW u \in Ops(size), flag[u] = 1
        PROVE  u \in started /\ pc'[u] = "done"
    BY <2>1, <1>1, <1>2, <1>5 DEF FlagsHeld
  <2> QED BY <2>1, <1>1, <1>2, <1>3, Zenon DEF FlagsHeld
<1>7. OrderKept'
  <2>1. ASSUME NEW u \in WaitFor(trace, t)
        PROVE  <<u, t>> \in before'
    <3>1. PICK i \in 1 .. Len(WaitSeq(t)) : WaitSeq(t)[i] = u
      BY <1>1, WaitsForOps
    <3>2. u \in Ops(size) /\ Len(WaitSeq(t)) \in Nat
      BY <1>1, WaitsForOps
    <3>3. flag[u] = 1
      <4>1. i <= waited[t]
        BY <1>2, <3>2, SMT
      <4> QED BY <1>1, <3>1, <4>1 DEF FlagsHeld
    <3>4. u \in Returned
      BY <1>1, <3>2, <3>3 DEF FlagsHeld, Returned
    <3> QED BY <1>2, <3>4
  <2>2. before \subseteq before'
    BY <1>2
  <2> QED BY <1>1, <1>2, <1>5, <2>1, <2>2, Zenon DEF OrderKept
<1>8. AnswersKept'
  BY <1>1, <1>2, <1>5, Zenon DEF AnswersKept
<1> QED BY <1>1, <1>2, <1>4, <1>6, <1>7, <1>8 DEF TestInv

\* A call that returns what does not pass stops its thread.
LEMMA TestReturn ==
    ASSUME SolverInv, TestInv, NEW t \in started, Return(t)
    PROVE  TestInv'
<1>1. /\ res = "ended" /\ TestShape /\ FlagsHeld /\ OrderKept /\ AnswersKept
  BY Zenon DEF TestInv
<1>2. /\ pc[t] = "call"
      /\ UNCHANGED <<size, found, res, trace, started, waited, flag, before>>
  BY DEF Return, solverVars
<1>3. PICK r \in Answers(size, t) :
        /\ result' = [result EXCEPT ![t] = r]
        /\ pc' = [pc EXCEPT ![t] = IF Passes(size, t, r) THEN "signal" ELSE "blocked"]
  BY Zenon DEF Return
<1>4. \A u : WaitSeq(u)' = WaitSeq(u)
  BY <1>2, WaitSeqKept
<1>5. TestShape'
  <2>1. pc' \in [started -> {"wait", "call", "signal", "done", "blocked"}]
    BY <1>1, <1>3, SMT DEF TestShape
  <2>2. DOMAIN result' = started
    BY <1>1, <1>3 DEF TestShape
  <2> QED BY <1>1, <1>2, <2>1, <2>2 DEF TestShape
<1>6. \A u \in started : u # t => pc'[u] = pc[u] /\ result'[u] = result[u]
  BY <1>1, <1>3, Zenon DEF TestShape
<1>7. pc'[t] = (IF Passes(size, t, r) THEN "signal" ELSE "blocked") /\ result'[t] = r
  BY <1>1, <1>3, Zenon DEF TestShape
<1>8. FlagsHeld'
  <2>1. ASSUME NEW u \in Ops(size), flag[u] = 1
        PROVE  u \in started /\ pc'[u] = "done"
    BY <2>1, <1>1, <1>2, <1>6 DEF FlagsHeld
  <2> QED BY <2>1, <1>1, <1>2, <1>4, Zenon DEF FlagsHeld
<1>9. OrderKept'
  BY <1>1, <1>2, <1>6, Zenon DEF OrderKept
<1>10. AnswersKept'
  <2> SUFFICES ASSUME NEW u \in started, pc'[u] \in {"signal", "done"}
               PROVE  result'[u] \in Answers(size, u) /\ Passes(size, u, result'[u])
    BY <1>2, Zenon DEF AnswersKept
  <2>1. CASE u = t
    BY <2>1, <1>3, <1>7
  <2>2. CASE u # t
    BY <2>2, <1>1, <1>6 DEF AnswersKept
  <2> QED BY <2>1, <2>2
<1> QED BY <1>1, <1>2, <1>5, <1>8, <1>9, <1>10 DEF TestInv

\* A thread sets its flag after its call has returned and passed.
LEMMA TestSignal ==
    ASSUME SolverInv, TestInv, NEW t \in started, Signal(t)
    PROVE  TestInv'
<1>1. /\ res = "ended" /\ TestShape /\ FlagsHeld /\ OrderKept /\ AnswersKept
  BY Zenon DEF TestInv
<1>2. /\ pc[t] = "signal"
      /\ flag' = [flag EXCEPT ![t] = 1] /\ pc' = [pc EXCEPT ![t] = "done"]
      /\ UNCHANGED <<size, found, res, trace, started, waited, result, before>>
  BY DEF Signal, solverVars
<1>3. \A u : WaitSeq(u)' = WaitSeq(u)
  BY <1>2, WaitSeqKept
<1>4. t \in Ops(size)
  BY <1>1 DEF TestShape
<1>5. TestShape'
  <2>1. pc' \in [started -> {"wait", "call", "signal", "done", "blocked"}]
    BY <1>1, <1>2, SMT DEF TestShape
  <2>2. flag' \in [Ops(size) -> {0, 1}]
    BY <1>1, <1>2, SMT DEF TestShape
  <2> QED BY <1>1, <1>2, <2>1, <2>2 DEF TestShape
<1>6. \A u \in started : pc'[u] = IF u = t THEN "done" ELSE pc[u]
  BY <1>1, <1>2 DEF TestShape
<1>7. \A u \in Ops(size) : flag'[u] = IF u = t THEN 1 ELSE flag[u]
  BY <1>1, <1>2 DEF TestShape
<1>8. FlagsHeld'
  <2>1. ASSUME NEW u \in Ops(size), flag'[u] = 1
        PROVE  u \in started /\ pc'[u] = "done"
    BY <2>1, <1>1, <1>6, <1>7 DEF FlagsHeld
  <2>2. ASSUME NEW u \in started, NEW i \in 1 .. Len(WaitSeq(u)), i <= waited[u]
        PROVE  flag'[WaitSeq(u)[i]] = 1
    <3>1. WaitSeq(u)[i] \in Ops(size)
      BY <1>1, WaitsForOps
    <3> QED BY <2>2, <3>1, <1>1, <1>7 DEF FlagsHeld
  <2>3. UNCHANGED <<size, trace, started, waited>>
    BY <1>2
  <2>4. \A u \in Ops(size) : flag'[u] = 1 => u \in started /\ pc'[u] = "done"
    BY <2>1
  <2>5. \A u \in started : \A i \in 1 .. Len(WaitSeq(u)) :
            i <= waited[u] => flag'[WaitSeq(u)[i]] = 1
    BY <2>2
  <2> QED BY ONLY <2>3, <2>4, <2>5, <1>3, Zenon DEF FlagsHeld
<1>9. OrderKept'
  BY <1>1, <1>2, <1>6, Zenon DEF OrderKept
<1>10. AnswersKept'
  BY <1>1, <1>2, <1>6, Zenon DEF AnswersKept
<1> QED BY <1>1, <1>2, <1>5, <1>8, <1>9, <1>10 DEF TestInv

\* A program's invariant is kept by every step of the tool chain.
LEMMA TestSteps ==
    ASSUME LettersSuffice, FormulasRight, SolverInv, TestInv, [Next]_vars
    PROVE  TestInv'
<1>1. CASE NextModel /\ UNCHANGED testVars
  <2>1. res # "ended" /\ started' = started /\ res' \in {"sat", "unsat"}
    BY <1>1, Zenon DEF NextModel, testVars, Answer
  <2> QED BY <2>1 DEF TestInv
<1>2. CASE Generate
  BY <1>2, TestGenerated
<1>3. CASE \E t \in started : Load(t) \/ Call(t) \/ Return(t) \/ Signal(t)
  BY <1>3, TestLoad, TestCall, TestReturn, TestSignal
<1>4. CASE UNCHANGED vars
  <2>1. UNCHANGED <<size, found, res, trace, started, pc, waited, flag, result, before>>
    BY <1>4 DEF vars, solverVars, testVars
  <2>2. \A u : WaitSeq(u)' = WaitSeq(u)
    BY <2>1, WaitSeqKept
  <2>3. /\ TestShape => TestShape'
        /\ OrderKept => OrderKept'
        /\ AnswersKept => AnswersKept'
    BY <2>1 DEF TestShape, OrderKept, AnswersKept
  <2>4. ASSUME FlagsHeld PROVE FlagsHeld'
    <3>1. ASSUME NEW u \in Ops(size), flag[u] = 1
          PROVE  u \in started /\ pc'[u] = "done"
      BY <2>1, <2>4, <3>1 DEF FlagsHeld
    <3>2. UNCHANGED <<size, trace, started, waited, flag>>
      BY <2>1
    <3> QED BY ONLY <3>1, <3>2, <2>2, <2>4, Zenon DEF FlagsHeld
  <2> QED BY <2>1, <2>3, <2>4 DEF TestInv
<1> QED BY <1>1, <1>2, <1>3, <1>4, Zenon DEF Next, Terminating

\* The answers that pass are those of the history: a dequeue of bottom has none,
\* its thread waits for a 0 that nothing is.
LEMMA AnswersInHistory ==
    ASSUME NEW s \in Sizes, NEW t \in Ops(s), NEW r \in Answers(s, t), Passes(s, t, r)
    PROVE  /\ s.tool = "set" => r = (SetType(s, t) \in 0 .. 2)
           /\ s.tool = "queue" => /\ QueueType(s, t) \in {0, 1}
                                  /\ QueueType(s, t) = 1 => r = val(s, t - 1)
<1>1. CASE s.tool = "set"
  <2>1. r = (SetType(s, t) # 3)
    <3>1. r = succ(s, t)
      BY <1>1, Zenon DEF Passes
    <3> QED BY <3>1, Zenon DEF succ
  <2>2. SetType(s, t) \in {0, 1, 2, 3}
    <3>1. GroupSize(s) \in Nat \ {0} /\ t \in Nat /\ s.k \in Nat
      BY <1>1, SizeFacts, SMT DEF Ops
    <3>2. t % GroupSize(s) \in Nat
      BY <3>1, Division, Zenon
    <3> QED BY <3>1, <3>2, SMT DEF SetType
  <2>3. (SetType(s, t) # 3) = (SetType(s, t) \in 0 .. 2)
    BY <2>2, SMT
  <2> QED BY <1>1, <2>1, <2>3
<1>2. CASE s.tool = "queue"
  <2>1. s.n \in Nat /\ s.k \in Nat /\ s.k < s.n /\ t \in 0 .. s.n - 1 /\ (s.n - s.k) % 2 = 0
    BY <1>2, SizeFacts, SMT DEF Ops
  <2>2. QueueType(s, t) \in {0, 1, 2}
    BY <2>1, SMT DEF QueueType
  <2>3. CASE QueueType(s, t) = 0
    BY <1>2, <2>3, SMT
  <2>4. CASE QueueType(s, t) = 1
    <3>1. t < s.n - s.k /\ t % 2 = 1
      BY <2>1, <2>4, SMT DEF QueueType
    <3>2. val(s, t) = t \div 2 + 1 /\ val(s, t - 1) = (t - 1) \div 2 + 1
      BY <2>1, <3>1, SMT DEF val
    <3>3. (t - 1) \div 2 = t \div 2
      BY <2>1, <3>1, SMT
    <3>4. val(s, t) # -1
      BY <3>2, <2>1, SMT
    <3>5. ~IsEnq(s, t)
      BY <2>4 DEF IsEnq
    <3>6. r = val(s, t)
      BY <1>2, <3>4, <3>5, Zenon DEF Passes
    <3> QED BY <1>2, <2>4, <3>2, <3>3, <3>6
  <2>5. CASE QueueType(s, t) = 2
    <3>1. val(s, t) = 0
      <4>1. ~(t < s.n - s.k)
        BY <2>1, <2>5, SMT DEF QueueType
      <4> QED BY <4>1, SMT DEF val
    <3>2. ~IsEnq(s, t)
      BY <2>5 DEF IsEnq
    <3>3. r = 0
      BY <1>2, <3>1, <3>2, SMT DEF Passes
    <3>4. r \in {Empty, NoiseVal} \cup {val(s, i) : i \in EnqOps(s)}
      BY <1>2, <3>2, Zenon DEF Answers
    <3>5. \A i \in EnqOps(s) : val(s, i) # 0
      BY <2>1, SMT DEF EnqOps, val
    <3> QED BY <3>3, <3>4, <3>5, SMT DEF Empty, NoiseVal
  <2> QED BY <1>2, <2>2, <2>3, <2>4, <2>5
<1> QED BY <1>1, <1>2, SizeFacts, Zenon

\* A generated test that completes has found a fault: all its calls gave the
\* answers of the history and ran in an order that contains the trace, for which
\* no FIFO queue, or set, gives these answers.
THEOREM CompletedFindsFault ==
    ASSUME LettersSuffice, FormulasRight
    PROVE  Spec => []CompletedIsForbidden
<1>1. Init => SolverInv /\ TestInv
  <2> SUFFICES ASSUME Init PROVE SolverInv /\ TestInv
    OBVIOUS
  <2>1. SolverInit /\ started = {}
    BY DEF Init
  <2>2. res # "ended"
    BY <2>1, Zenon DEF SolverInit, Answer
  <2> QED BY <2>1, <2>2, SolverStarts DEF TestInv
<1>2. SolverInv /\ TestInv /\ [Next]_vars => (SolverInv /\ TestInv)'
  BY SolverSteps, TestSteps
<1>3. SolverInv /\ TestInv => CompletedIsForbidden
  <2> SUFFICES ASSUME SolverInv, TestInv, Completed
               PROVE  AsInHistory /\ NotLinearizable(size, before)
    BY DEF CompletedIsForbidden
  <2>1. size \in Sizes
    BY DEF SolverInv
  <2>2. TestShape /\ OrderKept /\ AnswersKept /\ \A t \in started : pc[t] = "done"
    BY Zenon DEF Completed, TestInv
  <2>3. ASSUME NEW t \in started
        PROVE  /\ size.tool = "set" => result[t] = (SetType(size, t) \in 0 .. 2)
               /\ size.tool = "queue" =>
                     /\ QueueType(size, t) = 1 => result[t] = val(size, t - 1)
                     /\ QueueType(size, t) = 2 => result[t] = Empty
    <3>1. t \in Ops(size)
      BY <2>2 DEF TestShape
    <3>2. result[t] \in Answers(size, t) /\ Passes(size, t, result[t])
      BY <2>2 DEF AnswersKept
    <3>3. /\ size.tool = "set" => result[t] = (SetType(size, t) \in 0 .. 2)
          /\ size.tool = "queue" => /\ QueueType(size, t) \in {0, 1}
                                    /\ QueueType(size, t) = 1 => result[t] = val(size, t - 1)
      BY <2>1, <3>1, <3>2, AnswersInHistory
    <3> QED BY <3>3
  <2>4. trace \in SUBSET (Ops(size) \X Ops(size)) /\ NotLinearizable(size, trace)
    <3>1. trace \in Posets[Count(size)] /\ NotLinearizable(size, trace)
      BY <2>1, <2>2, Zenon DEF TestShape, Forbidden
    <3> QED BY <2>1, <3>1, PosetsAre DEF IsOrder
  <2>5. trace \subseteq before
    <3> SUFFICES ASSUME NEW e \in trace PROVE e \in before
      OBVIOUS
    <3>1. e = <<e[1], e[2]>> /\ e[2] \in started
      BY <2>2, <2>4 DEF TestShape
    <3>2. e[1] \in WaitFor(trace, e[2])
      BY DEF WaitFor
    <3> QED BY <2>2, <3>1, <3>2 DEF OrderKept
  <2>6. NotLinearizable(size, before)
    BY <2>4, <2>5, Zenon DEF NotLinearizable
  <2> QED BY <2>3, <2>6, Zenon DEF AsInHistory
<1> QED BY <1>1, <1>2, <1>3, PTL DEF Spec
=============================================================================
