------------------------- MODULE SectionRepair_proof -------------------------
(***************************************************************************)
(* Proofs about SectionRepair, for every number of receivers, blocks,      *)
(* sections, rounds, losses and deadlines: the planner hands out only      *)
(* tasks its sources can serve, a receiver is confirmed only when it has   *)
(* the right file, the barrier between two files opens on silent           *)
(* receivers, and an attempt implements FileDelivery.                      *)
(***************************************************************************)
EXTENDS SectionRepair, SequenceTheorems, FiniteSetTheorems, TLAPS

------------------------------------------------------------------------------
(* Lemmas about sets and the sequences made of them *)

\* below[x] is what comes before x in a strict total order on S.
Ranked(S, below) ==
    /\ below \in [S -> SUBSET S]
    /\ \A x \in S : x \notin below[x]
    /\ \A x, y \in S : x \in below[y] => below[x] \subseteq below[y]
    /\ \A x, y \in S : x = y \/ x \in below[y] \/ y \in below[x]

\* Every rank below the size of S is taken, and by one element only.
OnePerRank(S, below) ==
    /\ \A i \in 1 .. Cardinality(S) : \E x \in S : Cardinality(below[x]) = i - 1
    /\ \A x \in S : Cardinality(below[x]) + 1 \in 1 .. Cardinality(S)
    /\ \A x, y \in S : Cardinality(below[x]) = Cardinality(below[y]) => x = y

LEMMA RankExists ==
    ASSUME NEW S, IsFiniteSet(S), NEW below, Ranked(S, below)
    PROVE  OnePerRank(S, below)
<1> DEFINE n == Cardinality(S)
           T == 0 .. n - 1
           rank == [x \in S |-> Cardinality(below[x])]
<1> USE DEF Ranked
<1>1. n \in Nat /\ IsFiniteSet(T) /\ Cardinality(T) = n
  <2>1. n \in Nat
    BY FS_CardinalityType
  <2> HIDE DEF n
  <2>2. IsFiniteSet(0 .. n - 1) /\ Cardinality(0 .. n - 1) = IF 0 > n - 1 THEN 0 ELSE n - 1 - 0 + 1
    BY <2>1, FS_Interval
  <2> QED
    BY <2>1, <2>2
<1>2. \A x \in S : IsFiniteSet(below[x]) /\ Cardinality(below[x]) \in Nat
  BY FS_Subset, FS_CardinalityType
<1>3. \A x \in S : Cardinality(below[x]) < n
  <2> TAKE x \in S
  <2>1. below[x] \in SUBSET S /\ below[x] # S
    OBVIOUS
  <2>2. Cardinality(below[x]) <= n /\ Cardinality(below[x]) # n
    BY <2>1, FS_Subset
  <2> HIDE DEF n
  <2> QED
    BY <1>1, <1>2, <2>2
<1>4. \A x, y \in S : x \in below[y] => Cardinality(below[x]) < Cardinality(below[y])
  <2> SUFFICES ASSUME NEW x \in S, NEW y \in S, x \in below[y]
               PROVE  Cardinality(below[x]) < Cardinality(below[y])
    OBVIOUS
  <2>1. below[x] \in SUBSET below[y]
    OBVIOUS
  <2>2. x \in below[y] /\ x \notin below[x]
    OBVIOUS
  <2>3. /\ Cardinality(below[x]) <= Cardinality(below[y])
        /\ Cardinality(below[x]) # Cardinality(below[y])
    BY <1>2, <2>1, <2>2, FS_Subset
  <2> QED
    BY <1>2, <2>3
<1>5. rank \in Injection(S, T)
  <2>1. rank \in [S -> T]
    <3> HIDE DEF n
    <3>1. \A x \in S : Cardinality(below[x]) \in T
      BY <1>1, <1>2, <1>3
    <3> QED
      BY <3>1
  <2>2. \A x, y \in S : rank[x] = rank[y] => x = y
    <3> SUFFICES ASSUME NEW x \in S, NEW y \in S, rank[x] = rank[y]
                 PROVE  x = y
      OBVIOUS
    <3>1. Cardinality(below[x]) = Cardinality(below[y])
      OBVIOUS
    <3>2. x \notin below[y] /\ y \notin below[x]
      BY <1>2, <1>4, <3>1
    <3> QED
      BY <3>2
  <2> HIDE DEF rank
  <2> QED
    BY <2>1, <2>2 DEF Injection, IsInjective
<1>6. rank \in Surjection(S, T)
  <2> HIDE DEF rank, T
  <2> QED
    BY <1>1, <1>5, FS_Injection DEF n
<1>7. \A i \in 1 .. n : \E x \in S : rank[x] = i - 1
  <2>1. \A i \in 1 .. n : i - 1 \in T
    BY <1>1
  <2> HIDE DEF rank, T, n
  <2> QED
    BY <1>6, <2>1 DEF Surjection
<1>8. \A x \in S : Cardinality(below[x]) + 1 \in 1 .. n
  <2> HIDE DEF n
  <2> QED
    BY <1>1, <1>2, <1>3
<1>9. \A x, y \in S : rank[x] = rank[y] => x = y
  <2> HIDE DEF rank, T
  <2> QED
    BY <1>5 DEF Injection, IsInjective
<1> QED
  BY <1>7, <1>8, <1>9 DEF OnePerRank

LEMMA LeastNat ==
    ASSUME NEW S \in SUBSET Nat, S # {}
    PROVE  Min(S) \in S /\ \A y \in S : Min(S) =< y
<1> DEFINE R == OpToRel(<, Nat)
<1>1. PICK x \in S : \A y \in S : ~(<<y, x>> \in R)
  BY NatLessThanWellFounded, WFMin
<1>2. \A y \in S : ~(y < x)
  BY <1>1 DEF OpToRel
<1>3. \A y \in S : x =< y
  BY <1>2
<1> QED
  BY <1>3 DEF Min

LEMMA GreatestInInterval ==
    ASSUME NEW n \in Nat, NEW S \in SUBSET (1 .. n), S # {}
    PROVE  Max(S) \in S
<1> DEFINE R == OpToRel(<, Nat)
           D == {n - x : x \in S}
<1>0. \A x \in S : n - x \in Nat
  OBVIOUS
<1>1. D \in SUBSET Nat /\ D # {}
  BY <1>0
<1> HIDE DEF D
<1>2. PICK d \in D : \A e \in D : ~(<<e, d>> \in R)
  BY <1>1, NatLessThanWellFounded, WFMin
<1>3. PICK x \in S : d = n - x
  BY DEF D
<1>4. \A y \in S : n - y \in D /\ n - y \in Nat /\ d \in Nat
  BY <1>1 DEF D
<1>5. \A y \in S : ~(n - y < d)
  BY <1>2, <1>4 DEF OpToRel
<1>6. \A y \in S : x >= y
  BY <1>3, <1>4, <1>5
<1> QED
  BY <1>6 DEF Max

LEMMA InductionOnNat ==
    ASSUME NEW K, 0 \in K, \A k \in Nat : k \in K => k + 1 \in K
    PROVE  Nat \subseteq K
<1> DEFINE C == Nat \ K
<1> SUFFICES ASSUME C # {} PROVE FALSE
  OBVIOUS
<1>1. Min(C) \in C /\ \A y \in C : Min(C) =< y
  BY LeastNat
<1> DEFINE m == Min(C)
<1> HIDE DEF m
<1>2. m \in Nat /\ m \notin K /\ \A y \in C : m =< y
  BY <1>1 DEF m
<1>3. m # 0 /\ m - 1 \in Nat
  BY <1>2
<1>4. m - 1 \in K
  BY <1>2, <1>3
<1>5. m - 1 + 1 \in K
  BY <1>3, <1>4
<1> QED
  BY <1>2, <1>5

\* A sequence is made of what its elements are made of.
LEMMA FunctionIsSeq ==
    ASSUME NEW n \in Nat, NEW S, NEW q \in [1 .. n -> S]
    PROVE  q \in Seq(S)
  OBVIOUS

LEMMA NumbersInOrder ==
    ASSUME NEW S \in SUBSET Nat, IsFiniteSet(S)
    PROVE  /\ InOrder(S, <) \in Seq(S)
           /\ \A x \in S : \E i \in 1 .. Len(InOrder(S, <)) : InOrder(S, <)[i] = x
<1> DEFINE below == [x \in S |-> {y \in S : y < x}]
<1>0. below \in [S -> SUBSET S]
  OBVIOUS
<1>1. \A x, y \in S : y \in below[x] <=> y < x
  OBVIOUS
<1>2. \A x \in S : below[x] = {y \in S : y < x}
  OBVIOUS
<1> HIDE DEF below
<1>a. \A x \in S : x \notin below[x]
  BY <1>1
<1>n. \A x \in S : x \in Nat
  OBVIOUS
<1>b. \A x, y \in S : x \in below[y] => below[x] \subseteq below[y]
  <2> SUFFICES ASSUME NEW x \in S, NEW y \in S, x \in below[y], NEW z \in below[x]
               PROVE  z \in below[y]
    OBVIOUS
  <2>1. z \in S /\ z < x /\ x < y
    BY <1>0, <1>1
  <2>2. z < y
    BY <1>n, <2>1
  <2> QED
    BY <1>1, <2>1, <2>2
<1>c. \A x, y \in S : x = y \/ x \in below[y] \/ y \in below[x]
  <2> SUFFICES ASSUME NEW x \in S, NEW y \in S, x \notin below[y], y \notin below[x]
               PROVE  x = y
    OBVIOUS
  <2>1. ~(x < y) /\ ~(y < x)
    BY <1>1
  <2>2. x \in Nat /\ y \in Nat
    BY <1>n
  <2> QED
    BY <2>1, <2>2
<1>r. Ranked(S, below)
  BY <1>0, <1>a, <1>b, <1>c DEF Ranked
<1>o. OnePerRank(S, below)
  BY <1>r, RankExists
<1>3. \A i \in 1 .. Cardinality(S) : \E x \in S : Cardinality(below[x]) = i - 1
  BY <1>o DEF OnePerRank
<1>4. \A i \in 1 .. Cardinality(S) : \E x \in S : Cardinality({y \in S : y < x}) = i - 1
  BY <1>2, <1>3
<1> DEFINE q == InOrder(S, <)
<1>5. InOrder(S, <) = [i \in 1 .. Cardinality(S) |->
                         CHOOSE x \in S : Cardinality({y \in S : y < x}) = i - 1]
  BY Zenon DEF InOrder
<1>6. ASSUME NEW i \in 1 .. Cardinality(S)
      PROVE  (CHOOSE x \in S : Cardinality({y \in S : y < x}) = i - 1) \in S
  BY <1>4, Zenon
<1>7. Cardinality(S) \in Nat
  BY FS_CardinalityType
<1> DEFINE n == Cardinality(S)
<1>8. q \in [1 .. n -> S]
  BY <1>5, <1>6
<1> HIDE DEF q
<1> HIDE DEF n
<1>d. n \in Nat
  BY <1>7 DEF n
<1>9. q \in Seq(S)
  BY <1>8, <1>d, FunctionIsSeq
<1>10. Len(q) = n
  BY <1>8, <1>d
<1>11. \A i \in 1 .. n : q[i] \in S /\ Cardinality({z \in S : z < q[i]}) = i - 1
  <2> TAKE i \in 1 .. n
  <2>1. \E y \in S : Cardinality({z \in S : z < y}) = i - 1
    BY <1>4 DEF n
  <2>2. q[i] = CHOOSE y \in S : Cardinality({z \in S : z < y}) = i - 1
    BY DEF q, InOrder, n
  <2> QED
    BY <2>1, <2>2, Zenon
<1>12. \A i \in 1 .. n : q[i] \in S /\ Cardinality(below[q[i]]) = i - 1
  <2> TAKE i \in 1 .. n
  <2>1. q[i] \in S /\ Cardinality({z \in S : z < q[i]}) = i - 1
    BY <1>11
  <2>2. below[q[i]] = {z \in S : z < q[i]}
    BY <1>2, <2>1
  <2> QED
    BY <2>1, <2>2
<1>13. ASSUME NEW x \in S
       PROVE  \E i \in 1 .. n : q[i] = x
  <2>1. /\ Cardinality(below[x]) + 1 \in 1 .. n
        /\ \A y \in S : Cardinality(below[y]) = Cardinality(below[x]) => y = x
    BY <1>o DEF OnePerRank, n
  <2>2. PICK i \in 1 .. n : i = Cardinality(below[x]) + 1
    BY <2>1
  <2>3. Cardinality(below[x]) \in Nat
    BY <1>0, FS_Subset, FS_CardinalityType
  <2>4. q[i] \in S /\ Cardinality(below[q[i]]) = i - 1
    BY <1>12
  <2>5. i - 1 = Cardinality(below[x])
    BY <2>2, <2>3
  <2> QED
    BY <2>1, <2>4, <2>5
<1> QED
  BY <1>9, <1>10, <1>13 DEF q

\* Both orders below compare two numbers, the second when the first are equal.
LEMMA LexicographicRank ==
    ASSUME NEW S, IsFiniteSet(S),
           NEW k \in [S -> Nat], NEW l \in [S -> Nat],
           \A x, y \in S : k[x] = k[y] /\ l[x] = l[y] => x = y,
           NEW below \in [S -> SUBSET S],
           \A x, y \in S : y \in below[x] <=> k[y] < k[x] \/ (k[y] = k[x] /\ l[y] < l[x]),
           NEW i \in 1 .. Cardinality(S)
    PROVE  \E x \in S : Cardinality(below[x]) = i - 1
<1>1. \A x, y \in S : y \in below[x] <=> k[y] < k[x] \/ (k[y] = k[x] /\ l[y] < l[x])
  OBVIOUS
<1>n. \A x \in S : k[x] \in Nat /\ l[x] \in Nat
  OBVIOUS
<1>a. \A x \in S : x \notin below[x]
  BY <1>1, <1>n
<1>b. \A x, y \in S : x \in below[y] => below[x] \subseteq below[y]
  <2> SUFFICES ASSUME NEW x \in S, NEW y \in S, x \in below[y], NEW z \in below[x]
               PROVE  z \in below[y]
    OBVIOUS
  <2>1. /\ z \in S
        /\ k[z] < k[x] \/ (k[z] = k[x] /\ l[z] < l[x])
        /\ k[x] < k[y] \/ (k[x] = k[y] /\ l[x] < l[y])
    BY <1>1
  <2>2. k[z] < k[y] \/ (k[z] = k[y] /\ l[z] < l[y])
    BY <1>n, <2>1
  <2> QED
    BY <1>1, <2>1, <2>2
<1>c. \A x, y \in S : x = y \/ x \in below[y] \/ y \in below[x]
  <2> SUFFICES ASSUME NEW x \in S, NEW y \in S, x \notin below[y], y \notin below[x]
               PROVE  x = y
    OBVIOUS
  <2>1. /\ ~(k[x] < k[y] \/ (k[x] = k[y] /\ l[x] < l[y]))
        /\ ~(k[y] < k[x] \/ (k[y] = k[x] /\ l[y] < l[x]))
    BY <1>1
  <2>2. k[x] = k[y] /\ l[x] = l[y]
    BY <1>n, <2>1
  <2> QED
    BY <2>2
<1>2. Ranked(S, below)
  BY <1>a, <1>b, <1>c DEF Ranked
<1>3. OnePerRank(S, below)
  BY <1>2, RankExists
<1> QED
  BY <1>3 DEF OnePerRank

LEMMA ScatteredInOrder ==
    ASSUME NEW missing, DOMAIN missing \subseteq Nat, IsFiniteSet(DOMAIN missing)
    PROVE  ScatteredSeq(missing) \in Seq(Scattered(missing))
<1> DEFINE S == Scattered(missing)
           k == [p \in S |-> p[1]]
           l == [p \in S |-> p[2]]
           below == [x \in S |-> {y \in S : y[1] < x[1] \/ (y[1] = x[1] /\ y[2] < x[2])}]
           n == Cardinality(S)
           q == ScatteredSeq(missing)
<1>1. IsFiniteSet(S)
  <2>1. IsFiniteSet(Receivers)
    BY RepairPlanAssumption, FS_Interval DEF Receivers
  <2>2. IsFiniteSet((DOMAIN missing) \X Receivers)
    BY <2>1, FS_Product
  <2>3. S \in SUBSET ((DOMAIN missing) \X Receivers)
    BY DEF Scattered, Multicast
  <2> QED
    BY <2>2, <2>3, FS_Subset
<1>2. S \subseteq Nat \X Nat
  BY RepairPlanAssumption DEF Scattered, Receivers
<1> DEFINE nth(i) == CHOOSE x \in S :
             Cardinality({y \in S : y[1] < x[1] \/ (y[1] = x[1] /\ y[2] < x[2])}) = i - 1
<1>q. q = [i \in 1 .. n |-> nth(i)]
  BY DEF ScatteredSeq, InOrder
<1>n. n \in Nat
  BY <1>1, FS_CardinalityType
<1> HIDE DEF S, q
<1>3. \A p \in S : p[1] \in Nat /\ p[2] \in Nat /\ p = <<p[1], p[2]>>
  BY <1>2
<1>4. \A x, y \in S : k[x] = k[y] /\ l[x] = l[y] => x = y
  BY <1>3
<1>5. k \in [S -> Nat] /\ l \in [S -> Nat]
  BY <1>3
<1>6. /\ below \in [S -> SUBSET S]
      /\ \A x, y \in S : y \in below[x] <=> k[y] < k[x] \/ (k[y] = k[x] /\ l[y] < l[x])
  OBVIOUS
<1>b. \A x \in S : below[x] = {y \in S : y[1] < x[1] \/ (y[1] = x[1] /\ y[2] < x[2])}
  OBVIOUS
<1> HIDE DEF k, l, below
<1>7. ASSUME NEW i \in 1 .. n
      PROVE  \E x \in S : Cardinality({y \in S : y[1] < x[1] \/ (y[1] = x[1] /\ y[2] < x[2])}) = i - 1
  <2>1. PICK x \in S : Cardinality(below[x]) = i - 1
    BY <1>1, <1>4, <1>5, <1>6, LexicographicRank
  <2> QED
    BY <1>b, <2>1
<1>8. \A i \in 1 .. n : nth(i) \in S
  BY <1>7
<1> HIDE DEF n, nth
<1>9. q \in [1 .. n -> S]
  BY <1>8, <1>q
<1>10. q \in Seq(S)
  BY <1>9, <1>n, FunctionIsSeq
<1> QED
  BY <1>10 DEF q, S

------------------------------------------------------------------------------
(* Lemmas about the planner *)

\* The tasks of one plan cut it into pieces that do not overlap.
LEMMA ChunksApart ==
    ASSUME NEW S
    PROVE  /\ \A c \in Chunks(S) : c # {} /\ c \subseteq S
           /\ \A c, d \in Chunks(S) : c # d => c \cap d = {}
<1> DEFINE key(b) == Rank(b, S) \div MaxTaskBlocks
           chunk(k) == {b \in S : key(b) = k}
<1>1. Chunks(S) = {chunk(k) : k \in {key(b) : b \in S}}
  BY DEF Chunks
<1>2. \A b \in S : b \in chunk(key(b))
  OBVIOUS
<1>3. \A k, l : chunk(k) # chunk(l) => chunk(k) \cap chunk(l) = {}
  OBVIOUS
<1>4. \A k : chunk(k) \subseteq S
  OBVIOUS
<1>5. \A c \in Chunks(S) : \E b \in S : c = chunk(key(b))
  BY <1>1
<1> HIDE DEF key, chunk
<1> QED
  BY <1>2, <1>3, <1>4, <1>5

\* What a source is asked for is part of its plan, for one of the receivers.
LEMMA TasksOfPlan ==
    ASSUME NEW plan, NEW source, NEW k \in Tasks(plan, source)
    PROVE  /\ k = [target |-> k.target, blocks |-> k.blocks]
           /\ k.target \in Receivers /\ k.blocks \in Chunks(plan.peer[source][k.target])
           /\ k.blocks # {} /\ k.blocks \subseteq plan.peer[source][k.target]
<1>1. PICK t \in Receivers :
         k \in {[target |-> t, blocks |-> c] : c \in Chunks(plan.peer[source][t])}
  BY DEF Tasks
<1>2. PICK c \in Chunks(plan.peer[source][t]) : k = [target |-> t, blocks |-> c]
  BY <1>1
<1>3. k.target = t /\ k.blocks = c
  BY <1>2
<1> QED
  BY <1>2, <1>3, ChunksApart

LEMMA TasksInOrder ==
    ASSUME NEW plan, NEW source,
           \A t \in Receivers : /\ plan.peer[source][t] \subseteq Nat
                                /\ IsFiniteSet(plan.peer[source][t])
    PROVE  TasksFrom(plan, source) \in Seq(Tasks(plan, source))
<1> DEFINE S == Tasks(plan, source)
           k == [x \in S |-> x.target]
           l == [x \in S |-> Min(x.blocks)]
           before(y, x) == \/ y.target < x.target
                           \/ y.target = x.target /\ Min(y.blocks) < Min(x.blocks)
           below == [x \in S |-> {y \in S : before(y, x)}]
           n == Cardinality(S)
           q == TasksFrom(plan, source)
           nth(i) == CHOOSE x \in S : Cardinality({y \in S : before(y, x)}) = i - 1
<1>1. IsFiniteSet(S)
  <2>1. IsFiniteSet(Receivers)
    BY RepairPlanAssumption, FS_Interval DEF Receivers
  <2> DEFINE all == UNION {plan.peer[source][t] : t \in Receivers}
             map == [t \in Receivers |-> plan.peer[source][t]]
  <2>2. IsFiniteSet(all)
    <3> DEFINE D == {plan.peer[source][t] : t \in Receivers}
    <3>1. map \in Surjection(Receivers, D)
      BY DEF Surjection
    <3> HIDE DEF map
    <3>2. IsFiniteSet(D)
      BY <2>1, <3>1, FS_Surjection
    <3>3. \A T \in D : IsFiniteSet(T)
      OBVIOUS
    <3> HIDE DEF D
    <3> QED
      BY <3>2, <3>3, FS_UNION DEF D
  <2> DEFINE pairs == Receivers \X SUBSET all
             made == [p \in pairs |-> [target |-> p[1], blocks |-> p[2]]]
             image == {made[p] : p \in pairs}
  <2>3. IsFiniteSet(pairs)
    BY <2>1, <2>2, FS_SUBSET, FS_Product
  <2>4. made \in Surjection(pairs, image)
    BY DEF Surjection
  <2>5. S \subseteq image
    <3> SUFFICES ASSUME NEW x \in S PROVE x \in image
      OBVIOUS
    <3>1. /\ x = [target |-> x.target, blocks |-> x.blocks]
          /\ x.target \in Receivers /\ x.blocks \subseteq plan.peer[source][x.target]
      BY TasksOfPlan
    <3>2. <<x.target, x.blocks>> \in pairs
      BY <3>1
    <3>3. made[<<x.target, x.blocks>>] = x
      BY <3>1, <3>2
    <3> QED
      BY <3>2, <3>3
  <2> HIDE DEF made, pairs, image, S
  <2>6. IsFiniteSet(image)
    BY <2>3, <2>4, FS_Surjection
  <2> QED
    BY <2>5, <2>6, FS_Subset
<1>n. n \in Nat
  BY <1>1, FS_CardinalityType
<1>q. q = [i \in 1 .. n |-> nth(i)]
  BY DEF TasksFrom, InOrder
<1>2. \A x \in S : /\ x = [target |-> x.target, blocks |-> x.blocks]
                   /\ x.target \in Receivers
                   /\ x.blocks \in Chunks(plan.peer[source][x.target])
                   /\ x.blocks # {} /\ x.blocks \subseteq plan.peer[source][x.target]
  BY TasksOfPlan
<1> HIDE DEF S, q
<1>3. \A x \in S : Min(x.blocks) \in x.blocks /\ x.target \in Nat /\ Min(x.blocks) \in Nat
  <2> TAKE x \in S
  <2>1. x.blocks \in SUBSET Nat /\ x.blocks # {}
    BY <1>2
  <2>2. Min(x.blocks) \in x.blocks
    BY <2>1, LeastNat
  <2>3. x.target \in Nat
    BY <1>2, RepairPlanAssumption DEF Receivers
  <2> QED
    BY <2>1, <2>2, <2>3
<1>4. \A x, y \in S : k[x] = k[y] /\ l[x] = l[y] => x = y
  <2> SUFFICES ASSUME NEW x \in S, NEW y \in S,
                      x.target = y.target, Min(x.blocks) = Min(y.blocks)
               PROVE  x = y
    OBVIOUS
  <2>1. x.blocks \cap y.blocks # {}
    BY <1>3
  <2>2. x.blocks = y.blocks
    BY <1>2, <2>1, ChunksApart
  <2> QED
    BY <1>2, <2>2
<1>5. k \in [S -> Nat] /\ l \in [S -> Nat]
  BY <1>3
<1>6. below \in [S -> SUBSET S]
  OBVIOUS
<1>7. \A x, y \in S : y \in below[x] <=> k[y] < k[x] \/ (k[y] = k[x] /\ l[y] < l[x])
  OBVIOUS
<1>8. \A x \in S : below[x] = {y \in S : before(y, x)}
  OBVIOUS
<1> HIDE DEF k, l, below, before
<1>9. ASSUME NEW i \in 1 .. n
      PROVE  \E x \in S : Cardinality({y \in S : before(y, x)}) = i - 1
  <2>1. PICK x \in S : Cardinality(below[x]) = i - 1
    BY <1>1, <1>4, <1>5, <1>6, <1>7, LexicographicRank
  <2> QED
    BY <1>8, <2>1
<1>10. \A i \in 1 .. n : nth(i) \in S
  BY <1>9
<1> HIDE DEF n, nth
<1>11. q \in [1 .. n -> S]
  BY <1>10, <1>q
<1>12. q \in Seq(S)
  BY <1>11, <1>n, FunctionIsSeq
<1> QED
  BY <1>12 DEF q, S

\* Plans about the blocks B, in which a source sends only what it is believed to hold.
SoundPlans(B, has) ==
    {p \in [peer : [Receivers -> [Receivers -> SUBSET B]], load : [Receivers -> Nat],
            fallback : [Receivers -> SUBSET B]] :
        \A s, t \in Receivers : p.peer[s][t] \subseteq has[s]}

LEMMA MinOfReceivers ==
    ASSUME NEW S \in SUBSET Receivers, S # {}
    PROVE  Min(S) \in S
<1>1. S \in SUBSET Nat
  BY RepairPlanAssumption DEF Receivers
<1> QED
  BY <1>1, LeastNat

LEMMA AssignSound ==
    ASSUME NEW B, NEW has, NEW p \in SoundPlans(B, has),
           NEW b \in B, NEW t \in Receivers
    PROVE  Assign(has, p, b, t) \in SoundPlans(B, has)
<1> DEFINE g == Assign(has, p, b, t)
           serving == ServingSources(has, p, b, t)
           fresh == FreshSources(has, p, b, t)
<1>p. /\ p = [peer |-> p.peer, load |-> p.load, fallback |-> p.fallback]
      /\ p.peer \in [Receivers -> [Receivers -> SUBSET B]]
      /\ p.load \in [Receivers -> Nat] /\ p.fallback \in [Receivers -> SUBSET B]
      /\ \A s, u \in Receivers : p.peer[s][u] \subseteq has[s]
  BY DEF SoundPlans
<1>s. ASSUME NEW s \in Receivers, b \in has[s], NEW load \in [Receivers -> Nat]
      PROVE  [peer |-> [p.peer EXCEPT ![s][t] = @ \cup {b}], load |-> load,
              fallback |-> p.fallback] \in SoundPlans(B, has)
  <2> DEFINE peer == [p.peer EXCEPT ![s][t] = @ \cup {b}]
             h == [peer |-> peer, load |-> load, fallback |-> p.fallback]
  <2>1. peer \in [Receivers -> [Receivers -> SUBSET B]]
    BY <1>p
  <2>2. \A q, u \in Receivers : peer[q][u] \subseteq has[q]
    <3> SUFFICES ASSUME NEW q \in Receivers, NEW u \in Receivers
                 PROVE  peer[q][u] \subseteq has[q]
      OBVIOUS
    <3>1. peer[q][u] = IF q = s /\ u = t THEN p.peer[s][t] \cup {b} ELSE p.peer[q][u]
      BY <1>p
    <3> HIDE DEF peer
    <3> QED
      BY <1>p, <1>s, <3>1
  <2> HIDE DEF peer
  <2>3. h.peer = peer /\ h \in [peer : [Receivers -> [Receivers -> SUBSET B]],
            load : [Receivers -> Nat], fallback : [Receivers -> SUBSET B]]
    BY <1>p, <1>s, <2>1
  <2>4. h \in SoundPlans(B, has)
    BY <2>2, <2>3 DEF SoundPlans
  <2> QED
    BY <2>4 DEF peer
<1>0. serving \subseteq Receivers /\ fresh \subseteq Receivers
  BY DEF ServingSources, FreshSources
<1>1. CASE serving # {}
  <2> DEFINE s == Min(serving)
  <2>1. s \in serving /\ s \in Receivers
    BY <1>0, <1>1, MinOfReceivers
  <2>2. g = [p EXCEPT !.peer[s][t] = @ \cup {b}]
    BY <1>1 DEF Assign
  <2>3. b \in has[s]
    BY <2>1 DEF ServingSources
  <2> HIDE DEF s, serving, fresh, g
  <2>4. g = [peer |-> [p.peer EXCEPT ![s][t] = @ \cup {b}], load |-> p.load,
             fallback |-> p.fallback]
    BY <1>p, <2>2
  <2> QED
    BY <1>p, <1>s, <2>1, <2>3, <2>4 DEF g
<1>2. CASE serving = {} /\ fresh # {}
  <2> DEFINE s == Min(fresh)
             load == [p.load EXCEPT ![s] = @ + 1]
  <2>1. s \in fresh /\ s \in Receivers
    BY <1>0, <1>2, MinOfReceivers
  <2>2. g = [p EXCEPT !.peer[s][t] = @ \cup {b}, !.load[s] = @ + 1]
    BY <1>2 DEF Assign
  <2>3. b \in has[s]
    BY <2>1 DEF FreshSources
  <2> HIDE DEF s, serving, fresh, g
  <2>4. g = [peer |-> [p.peer EXCEPT ![s][t] = @ \cup {b}], load |-> load,
             fallback |-> p.fallback]
    BY <1>p, <2>2
  <2>5. load \in [Receivers -> Nat]
    BY <1>p, <2>1
  <2> HIDE DEF load
  <2> QED
    BY <1>s, <2>1, <2>3, <2>4, <2>5 DEF g
<1>3. CASE serving = {} /\ fresh = {}
  <2> DEFINE fallback == [p.fallback EXCEPT ![t] = @ \cup {b}]
  <2>1. g = [p EXCEPT !.fallback[t] = @ \cup {b}]
    BY <1>3 DEF Assign
  <2> HIDE DEF serving, fresh, g
  <2>2. g = [peer |-> p.peer, load |-> p.load, fallback |-> fallback]
    BY <1>p, <2>1
  <2>3. fallback \in [Receivers -> SUBSET B]
    BY <1>p
  <2> HIDE DEF fallback
  <2>4. g \in SoundPlans(B, has)
    BY <1>p, <2>2, <2>3 DEF SoundPlans
  <2> QED
    BY <2>4 DEF g
<1> QED
  BY <1>1, <1>2, <1>3

LEMMA DropSmallSound ==
    ASSUME NEW B, NEW has, NEW p \in SoundPlans(B, has)
    PROVE  DropSmall(p) \in SoundPlans(B, has)
<1> DEFINE small(s, t) == Cardinality(p.peer[s][t]) < MinPeerBlocks
           peer == [s \in Receivers |-> [t \in Receivers |->
                      IF small(s, t) THEN {} ELSE p.peer[s][t]]]
           fallback == [t \in Receivers |-> p.fallback[t] \cup
                          UNION {p.peer[s][t] : s \in {q \in Receivers : small(q, t)}}]
           g == DropSmall(p)
<1>p. /\ p = [peer |-> p.peer, load |-> p.load, fallback |-> p.fallback]
      /\ p.peer \in [Receivers -> [Receivers -> SUBSET B]]
      /\ p.load \in [Receivers -> Nat] /\ p.fallback \in [Receivers -> SUBSET B]
      /\ \A s, u \in Receivers : p.peer[s][u] \subseteq has[s]
  BY DEF SoundPlans
<1>1. g = [p EXCEPT !.peer = peer, !.fallback = fallback]
  BY DEF DropSmall
<1> HIDE DEF small, g
<1>2. peer \in [Receivers -> [Receivers -> SUBSET B]]
  BY <1>p
<1>3. fallback \in [Receivers -> SUBSET B]
  <2>1. \A t \in Receivers : p.fallback[t] \cup
           UNION {p.peer[s][t] : s \in {q \in Receivers : small(q, t)}} \in SUBSET B
    BY <1>p
  <2> QED
    BY <2>1
<1>4. \A s, t \in Receivers : peer[s][t] \subseteq has[s]
  BY <1>p
<1> HIDE DEF peer, fallback
<1>5. g = [peer |-> peer, load |-> p.load, fallback |-> fallback]
  BY <1>p, <1>1
<1>6. g \in SoundPlans(B, has)
  BY <1>p, <1>2, <1>3, <1>4, <1>5 DEF SoundPlans
<1> QED
  BY <1>6 DEF g

\* The fold over the missing blocks, one Assign after the other.
LEMMA FoldSound ==
    ASSUME NEW B, NEW has, NEW sq \in Seq(B \X Receivers)
    PROVE  FoldLeft(LAMBDA plan, p : Assign(has, plan, p[1], p[2]), EmptyPlan, sq)
              \in SoundPlans(B, has)
<1> DEFINE G == SoundPlans(B, has)
           n == Len(sq)
           D == 1 .. n
           Sub(k) == {s \in SUBSET D : Cardinality(s) <= k}
           F(f, s) == IF s = {} THEN EmptyPlan
                      ELSE Assign(has, f[s \ {Max(s)}], sq[Max(s)][1], sq[Max(s)][2])
           iter == CHOOSE f : f = [s \in SUBSET D |-> F(f, s)]
<1>n. n \in Nat /\ DOMAIN sq = D /\ \A i \in D : sq[i][1] \in B /\ sq[i][2] \in Receivers
  BY LenProperties, ElementOfSeq
<1>0. FoldLeft(LAMBDA plan, p : Assign(has, plan, p[1], p[2]), EmptyPlan, sq) = iter[D]
  BY <1>n DEF FoldLeft, MapThenFoldSet
<1>c. \A s \in SUBSET D : IsFiniteSet(s) /\ Cardinality(s) \in Nat /\ Cardinality(s) <= n
  <2> HIDE DEF n
  <2>0. Cardinality(1 .. n) = IF 1 > n THEN 0 ELSE n - 1 + 1
    BY <1>n, FS_Interval
  <2>1. IsFiniteSet(D) /\ Cardinality(D) = n
    BY <1>n, <2>0, FS_Interval
  <2> HIDE DEF D
  <2> QED
    BY <2>1, FS_Subset, FS_CardinalityType
<1>m. \A s \in SUBSET D : s # {} => /\ Max(s) \in s
                                   /\ s \ {Max(s)} \in SUBSET D
                                   /\ Cardinality(s \ {Max(s)}) = Cardinality(s) - 1
  <2> SUFFICES ASSUME NEW s \in SUBSET D, s # {}
               PROVE  /\ Max(s) \in s
                      /\ Cardinality(s \ {Max(s)}) = Cardinality(s) - 1
    OBVIOUS
  <2>1. Max(s) \in s
    BY <1>n, GreatestInInterval
  <2> QED
    BY <1>c, <2>1, FS_RemoveElement
<1> HIDE DEF D, n
<1>s. \A k \in Nat : \A s \in Sub(k + 1) : s # {} => s \ {Max(s)} \in Sub(k)
  <2> SUFFICES ASSUME NEW k \in Nat, NEW s \in SUBSET D, Cardinality(s) <= k + 1, s # {}
               PROVE  s \ {Max(s)} \in SUBSET D /\ Cardinality(s \ {Max(s)}) <= k
    OBVIOUS
  <2>1. Cardinality(s) \in Nat /\ s \ {Max(s)} \in SUBSET D
        /\ Cardinality(s \ {Max(s)}) = Cardinality(s) - 1
    BY <1>c, <1>m
  <2> QED
    BY <2>1
<1>1. \E f : f = [s \in SUBSET D |-> F(f, s)]
  <2> DEFINE K == {k \in Nat : \E f : f = [s \in Sub(k) |-> F(f, s)]}
  <2>1. 0 \in K
    <3> DEFINE f == [s \in Sub(0) |-> EmptyPlan]
    <3>1. \A s \in Sub(0) : s = {}
      BY <1>c, FS_EmptySet
    <3>2. \A s \in Sub(0) : F(f, s) = EmptyPlan
      BY <3>1
    <3>3. f = [s \in Sub(0) |-> F(f, s)]
      BY <3>2
    <3> QED
      BY <3>3
  <2>2. ASSUME NEW k \in Nat, k \in K
        PROVE  k + 1 \in K
    <3>1. PICK f : f = [s \in Sub(k) |-> F(f, s)]
      BY <2>2
    <3> DEFINE g == [s \in Sub(k + 1) |-> F(f, s)]
    <3>2. \A s \in Sub(k) : s \in Sub(k + 1)
      BY <1>c
    <3>3. \A s \in Sub(k) : g[s] = f[s]
      <4> HIDE DEF F, Sub
      <4>1. \A s \in Sub(k) : f[s] = F(f, s)
        BY <3>1
      <4>2. \A s \in Sub(k + 1) : g[s] = F(f, s)
        OBVIOUS
      <4> QED
        BY <3>2, <4>1, <4>2
    <3>4. \A s \in Sub(k + 1) : s # {} => s \ {Max(s)} \in Sub(k)
      BY <1>s
    <3> HIDE DEF Sub
    <3>5. \A s \in Sub(k + 1) : F(f, s) = F(g, s)
      BY <3>3, <3>4
    <3>6. g = [s \in Sub(k + 1) |-> F(g, s)]
      <4> HIDE DEF F
      <4> QED
        BY <3>5
    <3> HIDE DEF g, F
    <3> QED
      BY <3>6
  <2>3. n \in K
    <3> HIDE DEF K
    <3>1. Nat \subseteq K
      BY <2>1, <2>2, InductionOnNat
    <3> QED
      BY <1>n, <3>1
  <2>4. Sub(n) = SUBSET D
    BY <1>c
  <2> HIDE DEF Sub, F
  <2> QED
    BY <2>3, <2>4
<1>2. iter = [s \in SUBSET D |-> F(iter, s)]
  <2> HIDE DEF F
  <2> QED
    BY <1>1
<1> HIDE DEF iter
<1>3. EmptyPlan \in G /\ iter[{}] = EmptyPlan
  <2>1. EmptyPlan \in G
    BY DEF EmptyPlan, SoundPlans
  <2>2. iter[{}] = EmptyPlan
    BY <1>2
  <2> QED
    BY <2>1, <2>2
<1>4. \A s \in SUBSET D : iter[s] \in G
  <2> DEFINE K == {k \in Nat : \A s \in Sub(k) : iter[s] \in G}
  <2>1. 0 \in K
    <3>1. \A s \in Sub(0) : s = {}
      BY <1>c, FS_EmptySet
    <3> HIDE DEF Sub, G
    <3> QED
      BY <1>3, <3>1
  <2>2. ASSUME NEW k \in Nat, k \in K
        PROVE  k + 1 \in K
    <3> HIDE DEF G
    <3>1. ASSUME NEW s \in Sub(k + 1), s # {}
          PROVE  iter[s] \in G
      <4> DEFINE i == Max(s)
                 rest == s \ {i}
      <4>1. rest \in Sub(k) /\ i \in D
        BY <1>m, <1>s, <3>1
      <4>2. iter[rest] \in G
        BY <2>2, <4>1
      <4>3. iter[s] = Assign(has, iter[rest], sq[i][1], sq[i][2])
        BY <1>2, <3>1
      <4> HIDE DEF rest, i, Sub
      <4>4. sq[i][1] \in B /\ sq[i][2] \in Receivers
        BY <1>n, <4>1
      <4> QED
        BY <4>2, <4>3, <4>4, AssignSound DEF G
    <3>2. \A s \in Sub(k + 1) : iter[s] \in G
      <4> HIDE DEF Sub
      <4> QED
        BY <1>3, <3>1
    <3> HIDE DEF Sub
    <3> QED
      BY <3>2
  <2>3. n \in K
    <3> HIDE DEF K
    <3>1. Nat \subseteq K
      BY <2>1, <2>2, InductionOnNat
    <3> QED
      BY <1>n, <3>1
  <2>4. Sub(n) = SUBSET D
    BY <1>c
  <2> QED
    BY <2>3, <2>4
<1> QED
  BY <1>0, <1>4

\* Whatever was reported missing, a source is asked only for what it is believed to
\* hold, and the proxy unicasts only blocks of the section.
LEMMA PeerPlanSound ==
    ASSUME NEW missing, NEW has, DOMAIN missing \subseteq Nat, IsFiniteSet(DOMAIN missing)
    PROVE  PeerPlan(missing, has) \in SoundPlans(DOMAIN missing, has)
<1> DEFINE B == DOMAIN missing
           sq == ScatteredSeq(missing)
           p == FoldLeft(LAMBDA plan, x : Assign(has, plan, x[1], x[2]), EmptyPlan, sq)
<1>1. sq \in Seq(Scattered(missing))
  BY ScatteredInOrder
<1>2. Scattered(missing) \subseteq B \X Receivers
  BY DEF Scattered, Multicast
<1>3. sq \in Seq(B \X Receivers)
  <2> HIDE DEF B, sq
  <2> QED
    BY <1>1, <1>2, SeqMonotonic
<1> HIDE DEF sq
<1>4. p \in SoundPlans(B, has)
  BY <1>3, FoldSound
<1>5. PeerPlan(missing, has) = DropSmall(p)
  BY DEF PeerPlan, sq
<1> HIDE DEF p
<1> QED
  BY <1>4, <1>5, DropSmallSound

LEMMA BaselinePlanSound ==
    ASSUME NEW missing, NEW has
    PROVE  BaselinePlan(missing) \in SoundPlans(DOMAIN missing, has)
<1> DEFINE fallback == [t \in Receivers |-> {b \in DOMAIN missing : <<b, t>> \in Scattered(missing)}]
<1>1. BaselinePlan(missing) = [peer |-> EmptyPlan.peer, load |-> EmptyPlan.load,
                               fallback |-> fallback]
  <2>1. BaselinePlan(missing) = [EmptyPlan EXCEPT !.fallback = fallback]
    BY DEF BaselinePlan
  <2>2. EmptyPlan = [peer |-> EmptyPlan.peer, load |-> EmptyPlan.load,
                     fallback |-> EmptyPlan.fallback]
    BY DEF EmptyPlan
  <2> HIDE DEF fallback
  <2> QED
    BY <2>1, <2>2
<1>2. fallback \in [Receivers -> SUBSET DOMAIN missing]
  OBVIOUS
<1> HIDE DEF fallback
<1> QED
  BY <1>1, <1>2 DEF SoundPlans, EmptyPlan

------------------------------------------------------------------------------
(* The inductive invariant *)

\* This part needs only that have and status are functions; Shape below says of what.
HaveShape(h) == \E V : h \in [Receivers -> [AllBlocks -> V]]
StatusShape(st) == \E V : st \in [Receivers -> V]

\* Nobody but a receiver that has stored the file says RECEIVER_COMPLETE.
Honest(queue, r, S) ==
    \E F : /\ queue \in Seq(F)
           /\ \A f \in F : f.type = "RECEIVER_COMPLETE" => r \in S

ProxyQueues(tp, S) ==
    /\ \E D : tp \in [Receivers -> D]
    /\ \A r \in Receivers : Honest(tp[r], r, S)

\* A stored file is right, and stays right.
StoredIsGood(h, S) == \A r \in S : \A b \in AllBlocks : h[r][b] = "good"

Knowledge ==
    /\ HaveShape(have)
    /\ ProxyQueues(toProxy, stored)
    /\ StoredIsGood(have, stored)
    /\ stored \subseteq Receivers
    /\ completed \subseteq stored

\* Where the proxy is, and whom its verdict is still about: nobody is abandoned
\* before the backfill, a task is about a receiver that is neither completed nor
\* abandoned, and a completed receiver never has a FAILED status.
Verdicts ==
    /\ pc \in {"section", "collect"} => abandoned = {}
    /\ \E D : task \in [Receivers -> D]
    /\ \A r \in Receivers :
          task[r] # "done" => pc = "backfill" /\ r \notin completed \cup abandoned
    /\ StatusShape(status)
    /\ pc = "collect" => \A r \in completed : status[r].code # "Failed"

Inv == Knowledge /\ Verdicts

------------------------------------------------------------------------------
(* Lemmas about queues, blocks and statuses *)

\* More stored files make no queue dishonest.
LEMMA HonestMonotonic ==
    ASSUME NEW queue, NEW r, NEW S, NEW T, S \subseteq T, Honest(queue, r, S)
    PROVE  Honest(queue, r, T)
  BY DEF Honest

\* A frame that may be sent keeps the queue honest.
LEMMA HonestAppend ==
    ASSUME NEW queue, NEW r, NEW S, Honest(queue, r, S),
           NEW G, NEW frames \in Seq(G),
           \A f \in G : f.type = "RECEIVER_COMPLETE" => r \in S
    PROVE  Honest(queue \o frames, r, S)
<1>1. PICK F : /\ queue \in Seq(F)
               /\ \A f \in F : f.type = "RECEIVER_COMPLETE" => r \in S
  BY DEF Honest
<1>2. queue \in Seq(F \cup G) /\ frames \in Seq(F \cup G)
  BY <1>1, SeqMonotonic
<1>3. queue \o frames \in Seq(F \cup G)
  BY <1>2, ConcatProperties
<1> QED
  BY <1>1, <1>3 DEF Honest

\* What is read from an honest queue is honest, and so is the rest.
LEMMA HonestRead ==
    ASSUME NEW queue, NEW r, NEW S, Honest(queue, r, S), Pending(queue)
    PROVE  /\ Head(queue).type = "RECEIVER_COMPLETE" => r \in S
           /\ Honest(Tail(queue), r, S)
<1>1. PICK F : /\ queue \in Seq(F)
               /\ \A f \in F : f.type = "RECEIVER_COMPLETE" => r \in S
  BY DEF Honest
<1>2. Head(queue) \in F /\ Tail(queue) \in Seq(F)
  BY <1>1, HeadTailProperties DEF Pending
<1> QED
  BY <1>1, <1>2 DEF Honest

\* A queue changes only for its own receiver.
LEMMA QueueUpdate ==
    ASSUME NEW S, NEW tp, ProxyQueues(tp, S), NEW r \in Receivers,
           NEW queue, Honest(queue, r, S)
    PROVE  ProxyQueues([tp EXCEPT ![r] = queue], S)
<1>1. PICK D : tp \in [Receivers -> D]
  BY DEF ProxyQueues
<1>2. [tp EXCEPT ![r] = queue] \in [Receivers -> D \cup {queue}]
  BY <1>1
<1>3. \A q \in Receivers : [tp EXCEPT ![r] = queue][q] = IF q = r THEN queue ELSE tp[q]
  BY <1>1
<1> QED
  BY <1>2, <1>3 DEF ProxyQueues

LEMMA QueuesMonotonic ==
    ASSUME NEW S, NEW T, S \subseteq T, NEW tp, ProxyQueues(tp, S)
    PROVE  ProxyQueues(tp, T)
  BY HonestMonotonic DEF ProxyQueues

\* Writing a missing block changes no stored file.
LEMMA WriteMissing ==
    ASSUME NEW h, HaveShape(h), NEW S, S \subseteq Receivers, StoredIsGood(h, S),
           NEW r \in Receivers, NEW b, h[r][b] = "none", NEW v
    PROVE  /\ HaveShape([h EXCEPT ![r][b] = v])
           /\ StoredIsGood([h EXCEPT ![r][b] = v], S)
<1> DEFINE g == [h EXCEPT ![r][b] = v]
<1>1. PICK V : h \in [Receivers -> [AllBlocks -> V]]
  BY DEF HaveShape
<1>2. g \in [Receivers -> [AllBlocks -> V \cup {v}]]
  BY <1>1
<1>3. ASSUME NEW q \in S, NEW c \in AllBlocks
      PROVE  g[q][c] = "good"
  <2>1. h[q][c] = "good" /\ q \in Receivers
    BY DEF StoredIsGood
  <2>2. ~(q = r /\ c = b)
    BY <2>1
  <2>3. g[q][c] = h[q][c]
    BY <1>1, <2>1, <2>2
  <2> QED
    BY <2>1, <2>3
<1> QED
  BY <1>2, <1>3 DEF HaveShape, StoredIsGood

\* The frames a receiver sends one at a time.
LEMMA OneFrame ==
    ASSUME NEW f
    PROVE  <<f>> \in Seq({f})
  OBVIOUS

LEMMA TwoFrames ==
    ASSUME NEW f, NEW g
    PROVE  <<f, g>> \in Seq({f, g})
  OBVIOUS

\* A disjunction of answers: whatever is sent, it says RECEIVER_COMPLETE only of a
\* receiver in S.
LEMMA AnswerKeepsQueues ==
    ASSUME NEW S, ProxyQueues(toProxy, S), NEW r \in Receivers,
           NEW frames, Answer(r, frames),
           NEW G, frames \in Seq(G),
           \A f \in G : f.type = "RECEIVER_COMPLETE" => r \in S
    PROVE  ProxyQueues(toProxy', S)
<1>1. Honest(toProxy[r], r, S)
  BY DEF ProxyQueues
<1>2. Honest(toProxy[r] \o frames, r, S)
  BY <1>1, HonestAppend
<1>3. toProxy' = [toProxy EXCEPT ![r] = toProxy[r] \o frames]
  BY DEF Answer
<1> QED
  BY <1>2, <1>3, QueueUpdate

\* What the proxy reads, it reads from an honest queue.
LEMMA ReadKeepsQueues ==
    ASSUME NEW S, ProxyQueues(toProxy, S), NEW r \in Receivers, Pending(toProxy[r]),
           toProxy' = [toProxy EXCEPT ![r] = Tail(@)]
    PROVE  /\ ProxyQueues(toProxy', S)
           /\ Head(toProxy[r]).type = "RECEIVER_COMPLETE" => r \in S
<1>1. Honest(toProxy[r], r, S)
  BY DEF ProxyQueues
<1>2. /\ Honest(Tail(toProxy[r]), r, S)
      /\ Head(toProxy[r]).type = "RECEIVER_COMPLETE" => r \in S
  BY <1>1, HonestRead
<1>3. ProxyQueues([toProxy EXCEPT ![r] = Tail(toProxy[r])], S)
  BY <1>2, QueueUpdate
<1> QED
  BY <1>2, <1>3

\* Only a receiver whose blocks are all right stores the file.
LEMMA FinalizeStoresGood ==
    ASSUME NEW r \in Receivers, Finalize(r), UNCHANGED have,
           stored \subseteq Receivers, StoredIsGood(have, stored)
    PROVE  /\ stored \subseteq stored' /\ stored' \subseteq Receivers
           /\ StoredIsGood(have', stored')
           /\ AllReceived(r) /\ ShaMatches(r) => r \in stored'
<1>1. CASE AllReceived(r) /\ ShaMatches(r)
  <2>1. stored' = stored \cup {r}
    BY <1>1 DEF Finalize
  <2>2. \A b \in AllBlocks : have[r][b] = "good"
    BY <1>1 DEF ShaMatches
  <2> QED
    BY <2>1, <2>2 DEF StoredIsGood
<1>2. CASE ~(AllReceived(r) /\ ShaMatches(r))
  <2>1. stored' = stored
    BY <1>2 DEF Finalize
  <2> QED
    BY <1>2, <2>1 DEF StoredIsGood
<1> QED
  BY <1>1, <1>2

------------------------------------------------------------------------------
(* Knowledge: the proxy's picture of who has the file *)

LEMMA KnowledgeInit == Init => Knowledge
<1> SUFFICES ASSUME Init PROVE Knowledge
  OBVIOUS
<1>1. HaveShape(have)
  <2>1. have \in [Receivers -> [AllBlocks -> Content]]
    BY SectionRepairAssumption DEF Init
  <2> QED
    BY <2>1 DEF HaveShape
<1>2. ProxyQueues(toProxy, stored)
  <2>1. toProxy \in [Receivers -> {<<>>}] /\ \A r \in Receivers : toProxy[r] = <<>>
    BY DEF Init, NoFrames
  <2>2. \A r \in Receivers : Honest(<<>>, r, stored)
    <3> DEFINE F == {Bare("RECEIVER_READY")}
    <3>1. <<>> \in Seq(F)
      BY EmptySeq
    <3>2. \A f \in F : f.type # "RECEIVER_COMPLETE"
      BY DEF Bare
    <3> HIDE DEF F
    <3> QED
      BY <3>1, <3>2 DEF Honest
  <2> QED
    BY <2>1, <2>2 DEF ProxyQueues
<1> QED
  BY <1>1, <1>2 DEF Init, Knowledge, StoredIsGood

LEMMA KnowledgeKept ==
    ASSUME Knowledge, UNCHANGED <<have, toProxy, stored, completed>>
    PROVE  Knowledge'
<1>1. have' = have /\ toProxy' = toProxy /\ stored' = stored /\ completed' = completed
  OBVIOUS
<1> QED
  BY <1>1 DEF Knowledge, HaveShape, ProxyQueues, StoredIsGood, Honest

\* The proxy reads a frame of r, and adds r to the completed receivers only if the
\* frame says so.
LEMMA KnowledgeRead ==
    ASSUME Knowledge, NEW r \in Receivers, Pending(toProxy[r]),
           toProxy' = [toProxy EXCEPT ![r] = Tail(@)],
           UNCHANGED <<have, stored>>,
           \/ completed' = completed
           \/ /\ Head(toProxy[r]).type = "RECEIVER_COMPLETE"
              /\ completed' = completed \cup {r}
    PROVE  Knowledge'
<1>1. /\ ProxyQueues(toProxy', stored)
      /\ Head(toProxy[r]).type = "RECEIVER_COMPLETE" => r \in stored
  BY ReadKeepsQueues DEF Knowledge
<1>2. have' = have /\ stored' = stored /\ completed' \subseteq stored
  BY <1>1 DEF Knowledge
<1> QED
  BY <1>1, <1>2 DEF Knowledge, HaveShape, StoredIsGood

\* A block is written, or nothing.
LEMMA KnowledgeWrite ==
    ASSUME Knowledge, NEW r \in Receivers, NEW b, NEW v,
           have' = IF Wants(r, b) THEN [have EXCEPT ![r][b] = v] ELSE have,
           UNCHANGED <<toProxy, stored, completed>>
    PROVE  Knowledge'
<1>1. HaveShape(have') /\ StoredIsGood(have', stored)
  BY WriteMissing DEF Knowledge, Wants
<1> QED
  BY <1>1 DEF Knowledge, ProxyQueues, Honest

\* The end of a drain, or of a backfill: a file may be stored, and then answered.
LEMMA KnowledgeFinalize ==
    ASSUME Knowledge, NEW r \in Receivers, Finalize(r),
           NEW frames, Answer(r, frames), NEW G, frames \in Seq(G),
           \A f \in G : f.type = "RECEIVER_COMPLETE" => AllReceived(r) /\ ShaMatches(r),
           UNCHANGED <<have, completed>>
    PROVE  Knowledge'
<1>1. /\ stored \subseteq stored' /\ stored' \subseteq Receivers
      /\ StoredIsGood(have', stored')
      /\ AllReceived(r) /\ ShaMatches(r) => r \in stored'
  BY FinalizeStoresGood DEF Knowledge
<1>2. ProxyQueues(toProxy, stored')
  BY <1>1, QueuesMonotonic DEF Knowledge
<1>3. ProxyQueues(toProxy', stored')
  BY <1>1, <1>2, AnswerKeepsQueues
<1>4. HaveShape(have') /\ completed' \subseteq stored'
  BY <1>1 DEF Knowledge, HaveShape
<1> QED
  BY <1>1, <1>3, <1>4 DEF Knowledge

\* A receiver says something else.
LEMMA KnowledgeAnswer ==
    ASSUME Knowledge, NEW r \in Receivers, NEW f, Answer(r, <<f>>),
           f.type # "RECEIVER_COMPLETE", UNCHANGED <<have, stored, completed>>
    PROVE  Knowledge'
<1> DEFINE frames == <<f>>
           G == {f}
<1>1. frames \in Seq(G) /\ \A g \in G : g.type = "RECEIVER_COMPLETE" => r \in stored
  BY OneFrame
<1>2. ProxyQueues(toProxy, stored) /\ Answer(r, frames)
  BY DEF Knowledge
<1> HIDE DEF frames, G
<1>3. ProxyQueues(toProxy', stored)
  BY <1>1, <1>2, AnswerKeepsQueues
<1> QED
  BY <1>3 DEF Knowledge, HaveShape, StoredIsGood

LEMMA KnowledgeDrainEnds ==
    ASSUME Knowledge, NEW r \in Receivers, RcvDrainEnds(r)
    PROVE  Knowledge'
<1> DEFINE s == active[r]
           k == drainRound[r]
           missing == Blocks(s) \ Received(r)
           report(code) == SectionStatus(s, k, code, {})
           complete == Bare("RECEIVER_COMPLETE")
<1>u. UNCHANGED <<have, completed>>
  BY DEF RcvDrainEnds, proxyVars
<1>1. CASE missing # {}
  <2>1. /\ Answer(r, <<SectionStatus(s, k, "Missing", missing)>>)
        /\ UNCHANGED stored
    BY <1>1 DEF RcvDrainEnds
  <2>2. SectionStatus(s, k, "Missing", missing).type # "RECEIVER_COMPLETE"
    BY DEF SectionStatus
  <2> QED
    BY <1>u, <2>1, <2>2, KnowledgeAnswer
<1>2. CASE missing = {}
  <2>0. /\ Finalize(r)
        /\ Answer(r, CASE ~AllReceived(r) -> <<report("Complete")>>
                       [] ShaMatches(r)   -> <<report("Complete"), complete>>
                       [] OTHER           -> <<report("Failed")>>)
    BY <1>2 DEF RcvDrainEnds
  <2>r. \A code : report(code).type = "SECTION_STATUS"
    BY DEF SectionStatus
  <2>1. CASE ~AllReceived(r)
    <3>0. ~ShaMatches(r)
      BY <2>1 DEF AllReceived, ShaMatches, Received
    <3>1. Answer(r, <<report("Complete")>>)
      BY <2>0, <2>1, <3>0
    <3>2. <<report("Complete")>> \in Seq({report("Complete")})
      BY OneFrame
    <3> QED
      BY <1>u, <2>0, <2>r, <3>1, <3>2, KnowledgeFinalize
  <2>2. CASE AllReceived(r) /\ ShaMatches(r)
    <3>1. Answer(r, <<report("Complete"), complete>>)
      BY <2>0, <2>2
    <3>2. <<report("Complete"), complete>> \in Seq({report("Complete"), complete})
      BY TwoFrames
    <3> QED
      BY <1>u, <2>0, <2>2, <3>1, <3>2, KnowledgeFinalize
  <2>3. CASE AllReceived(r) /\ ~ShaMatches(r)
    <3>1. Answer(r, <<report("Failed")>>)
      BY <2>0, <2>3
    <3>2. <<report("Failed")>> \in Seq({report("Failed")})
      BY OneFrame
    <3> QED
      BY <1>u, <2>0, <2>r, <3>1, <3>2, KnowledgeFinalize
  <2> QED
    BY <2>1, <2>2, <2>3
<1> QED
  BY <1>1, <1>2

LEMMA KnowledgeBackfillEnd ==
    ASSUME Knowledge, NEW r \in Receivers, RcvBackfillEnd(r), UNCHANGED <<have, completed>>
    PROVE  Knowledge'
<1>1. CASE phase[r] # "active"
  <2>1. UNCHANGED <<stored, toProxy>>
    BY <1>1 DEF RcvBackfillEnd
  <2> QED
    BY <2>1, KnowledgeKept
<1>2. CASE phase[r] = "active"
  <2>0. Finalize(r)
    BY <1>2 DEF RcvBackfillEnd
  <2>1. CASE AllReceived(r) /\ ShaMatches(r)
    <3>1. Answer(r, <<Bare("RECEIVER_COMPLETE")>>)
      BY <1>2, <2>1 DEF RcvBackfillEnd
    <3>2. <<Bare("RECEIVER_COMPLETE")>> \in Seq({Bare("RECEIVER_COMPLETE")})
      BY OneFrame
    <3> QED
      BY <2>0, <2>1, <3>1, <3>2, KnowledgeFinalize
  <2>2. CASE ~(AllReceived(r) /\ ShaMatches(r))
    <3> DEFINE failed == SectionStatus(IF active[r] = None THEN 0 ELSE active[r],
                             IF lastReported[r] = None THEN 0 ELSE lastReported[r],
                             "Failed", {})
    <3>1. Answer(r, <<failed>>)
      BY <1>2, <2>2 DEF RcvBackfillEnd
    <3>2. failed.type = "SECTION_STATUS"
      BY DEF SectionStatus
    <3>3. <<failed>> \in Seq({failed})
      BY OneFrame
    <3> QED
      BY <2>0, <3>1, <3>2, <3>3, KnowledgeFinalize
  <2> QED
    BY <2>1, <2>2
<1> QED
  BY <1>1, <1>2

LEMMA KnowledgeReset ==
    ASSUME Knowledge, NEW r \in Receivers, RcvReset(r), UNCHANGED <<have, stored, completed>>
    PROVE  Knowledge'
<1>1. Answer(r, <<Bare("RECEIVER_READY")>>)
  BY DEF RcvReset
<1>2. Bare("RECEIVER_READY").type # "RECEIVER_COMPLETE"
  BY DEF Bare
<1> QED
  BY <1>1, <1>2, KnowledgeAnswer

LEMMA KnowledgeControl ==
    ASSUME Knowledge, NEW r \in Receivers, RcvControl(r)
    PROVE  Knowledge'
<1> DEFINE f == Head(toRcv[r])
<1>u. UNCHANGED completed
  BY DEF RcvControl, proxyVars
<1>1. CASE f.type = "SECTION_END" /\ UNCHANGED <<toProxy, udp, phase, have, stored, losses>>
  BY <1>u, <1>1, KnowledgeKept
<1>2. CASE f.type = "PEER_REPAIR_TASK" /\ UNCHANGED <<toProxy, rcvVars>>
  BY <1>u, <1>2, KnowledgeKept DEF rcvVars
<1>3. CASE /\ f.type = "BACKFILL_DATA" /\ RcvBackfillData(r, f)
           /\ UNCHANGED <<toProxy, stored>>
  BY <1>u, <1>3, KnowledgeWrite DEF RcvBackfillData
<1>4. CASE f.type = "BACKFILL_END" /\ RcvBackfillEnd(r) /\ UNCHANGED have
  BY <1>u, <1>4, KnowledgeBackfillEnd
<1>5. CASE /\ f.type \in {"COMPLETE_ACK", "TRANSFER_FAILED"}
           /\ RcvReset(r) \/ UNCHANGED toProxy
           /\ UNCHANGED <<have, stored>>
  BY <1>u, <1>5, KnowledgeReset, KnowledgeKept
<1> QED
  BY <1>1, <1>2, <1>3, <1>4, <1>5 DEF RcvControl

LEMMA KnowledgeStep ==
    ASSUME Knowledge, [Next]_vars
    PROVE  Knowledge'
<1> USE DEF proxyVars, rcvVars, netVars
<1>1. CASE SendSection \/ CollectMismatch \/ CloseSection \/ RepairRound \/ RoundsExhausted
           \/ SectionsEnd \/ BackfillEnds \/ BarrierOpens \/ BarrierTimeout
  <2>1. UNCHANGED <<have, toProxy, stored, completed>>
    BY <1>1 DEF SendSection, CollectMismatch, CloseSection, RepairRound, RoundsExhausted,
                SectionsEnd, BackfillEnds, BarrierOpens, BarrierTimeout
  <2> QED
    BY <2>1, KnowledgeKept
<1>2. ASSUME NEW r \in Receivers, HandleControlFrame(r)
      PROVE  Knowledge'
  BY <1>2, KnowledgeRead DEF HandleControlFrame, Confirms
<1>3. ASSUME NEW r \in Receivers, ReadReady(r)
      PROVE  Knowledge'
  BY <1>3, KnowledgeRead DEF ReadReady
<1>4. ASSUME NEW r \in Receivers, BackfillStart(r) \/ BackfillTimeout(r)
      PROVE  Knowledge'
  BY <1>4, KnowledgeKept DEF BackfillStart, BackfillTimeout
<1>5. ASSUME NEW r \in Receivers, BackfillFrame(r)
      PROVE  Knowledge'
  <2>1. /\ Pending(toProxy[r]) /\ toProxy' = [toProxy EXCEPT ![r] = Tail(@)]
        /\ UNCHANGED <<have, stored>>
    BY <1>5 DEF BackfillFrame
  <2>2. \/ completed' = completed
        \/ /\ Head(toProxy[r]).type = "RECEIVER_COMPLETE"
           /\ completed' = completed \cup {r}
    BY <1>5 DEF BackfillFrame
  <2> QED
    BY <2>1, <2>2, KnowledgeRead
<1>6. ASSUME NEW r \in Receivers, RcvData(r)
      PROVE  Knowledge'
  <2>1. PICK d \in udp[r] :
           have' = IF Wants(r, d[1]) THEN [have EXCEPT ![r][d[1]] = d[2]] ELSE have
    BY <1>6 DEF RcvData
  <2>2. UNCHANGED <<toProxy, stored, completed>>
    BY <1>6 DEF RcvData
  <2> QED
    BY <2>1, <2>2, KnowledgeWrite
<1>7. CASE UNCHANGED vars
  BY <1>7, KnowledgeKept DEF vars
<1> QED
  BY <1>1, <1>2, <1>3, <1>4, <1>5, <1>6, <1>7, KnowledgeDrainEnds, KnowledgeControl
  DEF Next, ProxyStep, BackfillStep, ReceiverStep, Finished

------------------------------------------------------------------------------
(* Verdicts: whom the proxy may still confirm or give up *)

LEMMA VerdictsInit == Init => Verdicts
<1> SUFFICES ASSUME Init PROVE Verdicts
  OBVIOUS
<1>1. task \in [Receivers -> {"done"}] /\ \A r \in Receivers : task[r] = "done"
  BY DEF Init
<1>2. StatusShape(status)
  <2>1. status \in [Receivers -> {NoStatus}]
    BY DEF Init, Unreported
  <2> QED
    BY <2>1 DEF StatusShape
<1> QED
  BY <1>1, <1>2 DEF Init, Verdicts

LEMMA VerdictsKept ==
    ASSUME Verdicts, UNCHANGED <<pc, abandoned, task, completed, status>>
    PROVE  Verdicts'
<1>1. /\ pc' = pc /\ abandoned' = abandoned /\ task' = task
      /\ completed' = completed /\ status' = status
  OBVIOUS
<1> QED
  BY <1>1 DEF Verdicts, StatusShape

\* The proxy moves on: outside of the backfill every task is done.
LEMMA VerdictsMove ==
    ASSUME Verdicts, UNCHANGED <<abandoned, task, completed>>,
           \A r \in Receivers : task[r] = "done",
           pc' \in {"section", "collect"} => pc \in {"section", "collect"},
           pc' = "collect" => \A r \in Receivers : status'[r].code # "Failed",
           StatusShape(status'), completed \subseteq Receivers
    PROVE  Verdicts'
<1>1. (\E D : task' \in [Receivers -> D]) /\ \A r \in Receivers : task'[r] = "done"
  BY DEF Verdicts
<1>2. pc' \in {"section", "collect"} => abandoned' = {}
  BY DEF Verdicts
<1>3. completed' \subseteq Receivers
  OBVIOUS
<1> QED
  BY <1>1, <1>2, <1>3 DEF Verdicts

\* The backfill begins: one task for every isolated receiver left to serve.
LEMMA VerdictsBackfill ==
    ASSUME Verdicts, NEW left, left \cap (completed \cup abandoned) = {},
           pc' = "backfill",
           task' = [r \in Receivers |-> IF r \in left THEN "todo" ELSE "done"],
           UNCHANGED <<abandoned, completed, status>>
    PROVE  Verdicts'
<1>1. /\ task' \in [Receivers -> {"todo", "done"}]
      /\ \A r \in Receivers : task'[r] # "done" => r \in left
  OBVIOUS
<1>2. StatusShape(status')
  BY DEF Verdicts, StatusShape
<1> QED
  BY <1>1, <1>2 DEF Verdicts

\* A task goes on, or ends with its receiver completed, abandoned or failed.
LEMMA VerdictsTask ==
    ASSUME Verdicts, pc = "backfill", UNCHANGED pc, NEW r \in Receivers, NEW t,
           task[r] # "done", task' = [task EXCEPT ![r] = t], StatusShape(status'),
           \/ UNCHANGED <<completed, abandoned>>
           \/ t = "done" /\ completed' \cup abandoned' \subseteq completed \cup abandoned \cup {r}
    PROVE  Verdicts'
<1>1. PICK D : task \in [Receivers -> D]
  BY DEF Verdicts
<1>2. task' \in [Receivers -> D \cup {t}]
  BY <1>1
<1>3. \A q \in Receivers : task'[q] = IF q = r THEN t ELSE task[q]
  BY <1>1
<1>4. ASSUME NEW q \in Receivers, task'[q] # "done"
      PROVE  q \notin completed' \cup abandoned'
  BY <1>3, <1>4 DEF Verdicts
<1> QED
  BY <1>2, <1>4 DEF Verdicts

\* A status is noted only of a receiver that is not completed; a receiver is
\* confirmed only after its Complete status.
LEMMA VerdictsFrame ==
    ASSUME Inv, NEW r \in Receivers, HandleControlFrame(r)
    PROVE  Verdicts'
<1> DEFINE f == Head(toProxy[r])
<1>0. /\ pc = "collect" /\ pc' = "collect" /\ r \in Watched
      /\ UNCHANGED <<abandoned, task>>
  BY DEF HandleControlFrame
<1>1. PICK V : status \in [Receivers -> V]
  BY DEF Inv, Verdicts, StatusShape
<1>2. completed \subseteq Receivers
  BY DEF Inv, Knowledge
<1>3. CASE Accepts(f)
  <2> DEFINE st == [code |-> f.code, section |-> f.section, round |-> f.round,
                    missing |-> f.missing]
  <2>1. status' = [status EXCEPT ![r] = st] /\ completed' = completed
    BY <1>3 DEF HandleControlFrame, Accepts, Confirms
  <2>2. status' \in [Receivers -> V \cup {st}]
    BY <1>1, <2>1
  <2>3. \A q \in completed : status'[q] = status[q]
    BY <1>0, <1>1, <1>2, <2>1 DEF Watched
  <2> QED
    BY <1>0, <2>1, <2>2, <2>3 DEF Inv, Verdicts, StatusShape
<1>4. CASE ~Accepts(f)
  <2>1. status' = status
    BY <1>4 DEF HandleControlFrame
  <2>2. CASE Confirms(r, f)
    <3>1. completed' = completed \cup {r} /\ status[r].code = "Complete"
      BY <2>2 DEF HandleControlFrame, Confirms
    <3>2. r \in Receivers /\ task[r] = "done"
      BY <1>0 DEF Inv, Verdicts
    <3>3. \A q \in Receivers : task[q] = "done"
      BY <1>0 DEF Inv, Verdicts
    <3>4. abandoned' = abandoned /\ task' = task
      BY <1>0
    <3> QED
      BY <1>0, <2>1, <3>1, <3>3, <3>4 DEF Inv, Verdicts, StatusShape
  <2>3. CASE ~Confirms(r, f)
    <3>1. completed' = completed
      BY <2>3 DEF HandleControlFrame
    <3> QED
      BY <1>0, <2>1, <3>1, VerdictsKept DEF Inv
  <2> QED
    BY <2>2, <2>3
<1> QED
  BY <1>3, <1>4

LEMMA VerdictsStep ==
    ASSUME Inv, [Next]_vars
    PROVE  Verdicts'
<1> USE DEF proxyVars, rcvVars, netVars
<1>a. completed \subseteq Receivers
  BY DEF Inv, Knowledge
<1>b. Verdicts /\ StatusShape(status)
  BY DEF Inv, Verdicts
<1>c. pc # "backfill" => \A r \in Receivers : task[r] = "done"
  BY <1>b DEF Verdicts
<1>d. status' = status => StatusShape(status')
  BY <1>b
<1>n. StatusShape(Unreported) /\ \A r \in Receivers : Unreported[r].code # "Failed"
  BY DEF StatusShape, Unreported, NoStatus
<1>1. CASE SendSection \/ RepairRound
  <2>1. /\ pc \in {"section", "collect"} /\ pc' = "collect" /\ status' = Unreported
        /\ UNCHANGED <<abandoned, task, completed>>
    BY <1>1 DEF SendSection, RepairRound, CollectionEnds
  <2> QED
    BY <1>a, <1>b, <1>c, <1>n, <2>1, VerdictsMove
<1>2. CASE CollectMismatch \/ CloseSection
  <2>1. /\ pc = "collect" /\ pc' \in {"ready", "section"} /\ status' = status
        /\ UNCHANGED <<abandoned, task, completed>>
    BY <1>2 DEF CollectMismatch, CloseSection, CollectionEnds
  <2> QED
    BY <1>a, <1>b, <1>c, <1>d, <2>1, VerdictsMove
<1>3. CASE BackfillEnds \/ BarrierOpens \/ BarrierTimeout
  <2>1. /\ pc \in {"backfill", "ready"} /\ pc' \in {"ready", "done", "threw"}
        /\ status' = status /\ UNCHANGED <<abandoned, task, completed>>
    BY <1>3 DEF BackfillEnds, BarrierOpens, BarrierTimeout
  <2>2. \A r \in Receivers : task[r] = "done"
    BY <1>3, <1>c DEF BackfillEnds, BarrierOpens, BarrierTimeout
  <2> QED
    BY <1>a, <1>b, <1>d, <2>1, <2>2, VerdictsMove
<1>4. CASE RoundsExhausted
  <2> DEFINE left == isolated' \ (completed \cup abandoned)
  <2>1. /\ pc' = "backfill" /\ UNCHANGED <<abandoned, completed, status>>
        /\ task' = [r \in Receivers |-> IF r \in left THEN "todo" ELSE "done"]
    BY <1>4 DEF RoundsExhausted
  <2>2. left \cap (completed \cup abandoned) = {}
    OBVIOUS
  <2> HIDE DEF left
  <2> QED
    BY <1>b, <2>1, <2>2, VerdictsBackfill
<1>5. CASE SectionsEnd
  <2> DEFINE left == isolated \ (completed \cup abandoned)
  <2>1. /\ pc' = "backfill" /\ UNCHANGED <<abandoned, completed, status>>
        /\ task' = [r \in Receivers |-> IF r \in left THEN "todo" ELSE "done"]
    BY <1>5 DEF SectionsEnd
  <2>2. left \cap (completed \cup abandoned) = {}
    OBVIOUS
  <2> HIDE DEF left
  <2> QED
    BY <1>b, <2>1, <2>2, VerdictsBackfill
<1>6. ASSUME NEW r \in Receivers, ReadReady(r)
      PROVE  Verdicts'
  BY <1>6, <1>b, VerdictsKept DEF ReadReady
<1>7. ASSUME NEW r \in Receivers, BackfillStart(r)
      PROVE  Verdicts'
  <2>1. /\ pc = "backfill" /\ pc' = pc /\ task[r] # "done"
        /\ task' = [task EXCEPT ![r] = "waiting"]
        /\ UNCHANGED <<completed, abandoned, status>>
    BY <1>7 DEF BackfillStart
  <2> QED
    BY <1>b, <1>d, <2>1, VerdictsTask
<1>8. ASSUME NEW r \in Receivers, BackfillTimeout(r)
      PROVE  Verdicts'
  <2>1. /\ pc' = pc /\ task[r] # "done" /\ task' = [task EXCEPT ![r] = "done"]
        /\ abandoned' = abandoned \cup {r} /\ UNCHANGED <<completed, status>>
    BY <1>8 DEF BackfillTimeout
  <2>2. pc = "backfill"
    BY <1>b, <2>1 DEF Verdicts
  <2> QED
    BY <1>b, <1>d, <2>1, <2>2, VerdictsTask
<1>9. ASSUME NEW r \in Receivers, BackfillFrame(r)
      PROVE  Verdicts'
  <2> DEFINE f == Head(toProxy[r])
             st == [code |-> f.code, section |-> f.section, round |-> f.round,
                    missing |-> f.missing]
  <2>1. pc' = pc /\ task[r] # "done" /\ UNCHANGED abandoned
    BY <1>9 DEF BackfillFrame
  <2>2. pc = "backfill"
    BY <1>b, <2>1 DEF Verdicts
  <2>3. CASE f.type = "RECEIVER_COMPLETE"
    <3>1. /\ completed' = completed \cup {r} /\ task' = [task EXCEPT ![r] = "done"]
          /\ status' = status
      BY <1>9, <2>3 DEF BackfillFrame
    <3> QED
      BY <1>b, <1>d, <2>1, <2>2, <3>1, VerdictsTask
  <2>4. CASE f.type = "SECTION_STATUS" /\ f.code = "Failed"
    <3>1. /\ completed' = completed /\ task' = [task EXCEPT ![r] = "done"]
          /\ status' = [status EXCEPT ![r] = st]
      BY <1>9, <2>4 DEF BackfillFrame
    <3>2. PICK V : status \in [Receivers -> V]
      BY <1>b DEF StatusShape
    <3>3. status' \in [Receivers -> V \cup {st}]
      BY <3>1, <3>2
    <3>4. StatusShape(status')
      BY <3>3 DEF StatusShape
    <3> QED
      BY <1>b, <2>1, <2>2, <3>1, <3>4, VerdictsTask
  <2>5. CASE f.type # "RECEIVER_COMPLETE" /\ ~(f.type = "SECTION_STATUS" /\ f.code = "Failed")
    <3>1. UNCHANGED <<completed, task, status>>
      BY <1>9, <2>5 DEF BackfillFrame
    <3> QED
      BY <1>b, <2>1, <3>1, VerdictsKept
  <2> QED
    BY <2>3, <2>4, <2>5
<1>10. ASSUME NEW r \in Receivers, ReceiverStep(r)
       PROVE  Verdicts'
  <2>1. UNCHANGED <<pc, abandoned, task, completed, status>>
    BY <1>10 DEF ReceiverStep, RcvData, RcvDrainEnds, RcvControl
  <2> QED
    BY <1>b, <2>1, VerdictsKept
<1>11. CASE UNCHANGED vars
  BY <1>11, <1>b, VerdictsKept DEF vars
<1> QED
  BY <1>1, <1>2, <1>3, <1>4, <1>5, <1>6, <1>7, <1>8, <1>9, <1>10, <1>11, VerdictsFrame
  DEF Next, ProxyStep, BackfillStep, Finished

\* In every reachable state what the proxy knows is true, and its verdict is still
\* about the receivers it has neither confirmed nor given up.
THEOREM Invariance == Spec => []Inv
<1>1. Init => Inv
  BY KnowledgeInit, VerdictsInit DEF Inv
<1>2. Inv /\ [Next]_vars => Inv'
  BY KnowledgeStep, VerdictsStep DEF Inv
<1> QED
  BY <1>1, <1>2, PTL DEF Spec

------------------------------------------------------------------------------
(* Safety *)

\* ConfirmedIsStored of SectionRepair: a receiver the proxy counts as completed
\* (handle_control_frame, backfill_one_receiver) has renamed the file into place
\* and all its bytes are right, for every plan, loss and deadline.
THEOREM ConfirmedFilesAreRight == Spec => []ConfirmedIsStored
<1>1. Inv => ConfirmedIsStored
  BY DEF Inv, Knowledge, StoredIsGood, ConfirmedIsStored
<1> QED
  BY <1>1, Invariance, PTL

------------------------------------------------------------------------------
(* The rest of the inductive invariant: shapes, grounded reports, stages *)

Over(r) == r \in completed \/ pc \in {"ready", "done", "threw"}

\* What each receiver's event loop may still be told, and may still say: a peer task
\* is about blocks it holds, BACKFILL_END comes only when there is a section, and
\* COMPLETE_ACK only to a receiver that stored the file.
OrdersFor(r) ==
    {f \in Orders :
        /\ f.type = "PEER_REPAIR_TASK" => f.blocks \subseteq Received(r)
        /\ f.type = "BACKFILL_END" => SectionCount > 0
        /\ f.type = "COMPLETE_ACK" => r \in stored}

\* A report is grounded when the blocks it does not miss are there.
Grounded(r, report) ==
    /\ report.code = "Missing" => Blocks(report.section) \ report.missing \subseteq Received(r)
    /\ report.code = "Complete" => Blocks(report.section) \subseteq Received(r)

FramesFrom(r) == {f \in Frames : f.type = "SECTION_STATUS" => Grounded(r, f)}

Reports == [code : Codes \cup {"NO_REPORT"}, section : Sections \cup {None},
            round : (0 .. MaxRepairRounds) \cup {None}, missing : SUBSET AllBlocks]

ProxyShape ==
    /\ pc \in {"section", "collect", "backfill", "ready", "done", "threw"}
    /\ section \in 0 .. SectionCount /\ round \in 0 .. MaxRepairRounds
    /\ pc = "collect" => section \in Sections
    /\ result \in {"Success", "Sha256Mismatch", "Failed"}
    /\ completed \subseteq Receivers /\ isolated \subseteq Receivers
    /\ abandoned \subseteq Receivers /\ ready \subseteq Receivers
    /\ status \in [Receivers -> Reports]
    /\ backfill \in [Receivers -> SUBSET AllBlocks]
    /\ task \in [Receivers -> {"todo", "waiting", "done"}]
    /\ \A r \in Receivers : task[r] # "done" => SectionCount > 0
    /\ isolated # {} => SectionCount > 0
    /\ losses \in 0 .. MaxLosses /\ timeouts \in 0 .. MaxTimeouts

ReceiverShape ==
    /\ phase \in [Receivers -> {"active", "awaiting", "shafailed", "idle"}]
    /\ have \in [Receivers -> [AllBlocks -> Content]]
    /\ udp \in [Receivers -> SUBSET (AllBlocks \X {"good", "bad"})]
    /\ active \in [Receivers -> Sections \cup {None}]
    /\ lastEnd \in [Receivers -> (0 .. MaxRepairRounds) \cup {None}]
    /\ lastReported \in [Receivers -> (0 .. MaxRepairRounds) \cup {None}]
    /\ draining \in [Receivers -> BOOLEAN]
    /\ drainRound \in [Receivers -> 0 .. MaxRepairRounds]
    /\ stored \subseteq Receivers
    /\ \A r \in Receivers : draining[r] => active[r] \in Sections

OrderShape ==
    /\ toRcv \in [Receivers -> Seq(Orders)]
    /\ \A r \in Receivers : toRcv[r] \in Seq(OrdersFor(r))

FrameShape ==
    /\ toProxy \in [Receivers -> Seq(Frames)]
    /\ \A r \in Receivers : toProxy[r] \in Seq(FramesFrom(r))

\* The statuses of a collection are those of its section, and grounded.
StatusGrounded ==
    pc = "collect" =>
        \A r \in Receivers : status[r].code \in {"Missing", "Complete"} =>
            status[r].section = section /\ Grounded(r, status[r])

Free(queue, types) == \A i \in 1 .. Len(queue) : queue[i].type \notin types

\* The last frame of the queue is the only one of these types.
Closed(queue, types) ==
    /\ Len(queue) > 0 /\ queue[Len(queue)].type \in types
    /\ \A i \in 1 .. Len(queue) - 1 : queue[i].type \notin types

Ends == {"COMPLETE_ACK", "TRANSFER_FAILED"}
Said == {"RECEIVER_READY"}

\* A receiver the proxy is not done with.
Running(r) ==
    /\ Free(toRcv[r], Ends) /\ Free(toProxy[r], Said)
    /\ phase[r] # "idle"

\* The last frame of the transfer is on its way to the receiver ...
Told(r) ==
    /\ r \notin ready /\ Closed(toRcv[r], Ends) /\ Free(toProxy[r], Said)
    /\ phase[r] # "idle"

\* ... the receiver has dropped the transfer and said so ...
Dropped(r) ==
    /\ r \notin ready /\ toRcv[r] = <<>> /\ Closed(toProxy[r], Said)
    /\ phase[r] = "idle" /\ ~draining[r]

\* ... and the proxy has read it.
Read(r) ==
    /\ r \in ready /\ toRcv[r] = <<>> /\ toProxy[r] = <<>>
    /\ phase[r] = "idle" /\ ~draining[r]

Stage(r) == IF Over(r) THEN Told(r) \/ Dropped(r) \/ Read(r) ELSE Running(r)

Passage ==
    /\ ~(pc \in {"ready", "done", "threw"}) => ready = {}
    /\ pc = "done" => Receivers \subseteq abandoned \cup ready
    /\ \A r \in Receivers : draining[r] => phase[r] # "idle"
    /\ \A r \in stored : phase[r] \in {"awaiting", "idle"}
    /\ \A r \in Receivers \ abandoned : Stage(r)

\* A queue after frames were added that are none of these types.
LEMMA FreeConcat ==
    ASSUME NEW F, NEW q \in Seq(F), NEW G, NEW p \in Seq(G), NEW T,
           Free(q, T), \A g \in G : g.type \notin T
    PROVE  Free(q \o p, T)
<1>1. q \in Seq(F \cup G) /\ p \in Seq(F \cup G)
  BY SeqMonotonic
<1>2. /\ Len(q \o p) = Len(q) + Len(p) /\ Len(q) \in Nat /\ Len(p) \in Nat
      /\ \A i \in 1 .. Len(q) + Len(p) :
            (q \o p)[i] = IF i <= Len(q) THEN q[i] ELSE p[i - Len(q)]
  BY <1>1, ConcatProperties, LenProperties
<1>3. \A i \in 1 .. Len(p) : p[i] \in G
  BY ElementOfSeq
<1>4. \A i \in 1 .. Len(q) + Len(p) : i <= Len(q) => i \in 1 .. Len(q)
  BY <1>2
<1>5. \A i \in 1 .. Len(q) + Len(p) : ~(i <= Len(q)) => i - Len(q) \in 1 .. Len(p)
  BY <1>2
<1> QED
  BY <1>2, <1>3, <1>4, <1>5 DEF Free

\* The last frame of the transfer joins a queue that has none.
LEMMA CloseAppend ==
    ASSUME NEW F, NEW q \in Seq(F), NEW f, NEW T, Free(q, T), f.type \in T
    PROVE  Closed(Append(q, f), T)
<1>1. q \in Seq(F \cup {f}) /\ f \in F \cup {f}
  BY SeqMonotonic
<1>2. /\ Len(Append(q, f)) = Len(q) + 1 /\ Len(q) \in Nat
      /\ \A i \in 1 .. Len(q) : Append(q, f)[i] = q[i]
      /\ Append(q, f)[Len(q) + 1] = f
  BY <1>1, AppendProperties, LenProperties
<1>3. Len(q) + 1 - 1 = Len(q) /\ Len(q) + 1 > 0
  BY <1>2
<1> HIDE <1>1
<1> QED
  BY <1>2, <1>3 DEF Free, Closed

\* The head of a queue that has none of these types is of none.
LEMMA FreeRead ==
    ASSUME NEW F, NEW q \in Seq(F), q # <<>>, NEW T, Free(q, T)
    PROVE  Head(q).type \notin T /\ Free(Tail(q), T)
<1>1. /\ Len(q) \in Nat /\ Len(q) > 0 /\ Len(Tail(q)) = Len(q) - 1 /\ Head(q) = q[1]
      /\ \A i \in 1 .. Len(Tail(q)) : Tail(q)[i] = q[i + 1]
  BY HeadTailProperties, EmptySeq, LenProperties
<1>2. \A i \in 1 .. Len(Tail(q)) : i + 1 \in 1 .. Len(q)
  BY <1>1
<1>3. 1 \in 1 .. Len(q)
  BY <1>1
<1> QED
  BY <1>1, <1>2, <1>3 DEF Free

\* The last frame is read only when it is the only one left.
LEMMA ClosedRead ==
    ASSUME NEW F, NEW q \in Seq(F), NEW T, Closed(q, T)
    PROVE  /\ q # <<>>
           /\ Head(q).type \in T => Tail(q) = <<>>
           /\ Head(q).type \notin T => Closed(Tail(q), T)
<1>0. q # <<>>
  BY EmptySeq DEF Closed
<1>1. /\ Len(q) \in Nat /\ Len(q) > 0 /\ Len(Tail(q)) = Len(q) - 1 /\ Head(q) = q[1]
      /\ Tail(q) \in Seq(F)
      /\ \A i \in 1 .. Len(Tail(q)) : Tail(q)[i] = q[i + 1]
  BY <1>0, HeadTailProperties, EmptySeq, LenProperties
<1>2. CASE Len(q) = 1
  <2>1. Len(Tail(q)) = 0
    BY <1>1, <1>2
  <2>2. Tail(q) = <<>>
    BY <1>1, <2>1, EmptySeq
  <2> QED
    BY <1>0, <1>1, <1>2, <2>2 DEF Closed
<1>3. CASE Len(q) > 1
  <2>1. 1 \in 1 .. Len(q) - 1
    BY <1>1, <1>3
  <2>2. Head(q).type \notin T
    BY <1>1, <2>1 DEF Closed
  <2>3. \A i \in 1 .. Len(Tail(q)) - 1 : i + 1 \in 1 .. Len(q) - 1 /\ i \in 1 .. Len(Tail(q))
    BY <1>1, <1>3
  <2>4. \A i \in 1 .. Len(Tail(q)) - 1 : Tail(q)[i].type \notin T
    BY <1>1, <2>3 DEF Closed
  <2>5. Len(Tail(q)) \in 1 .. Len(Tail(q)) /\ Len(Tail(q)) + 1 = Len(q)
    BY <1>1, <1>3
  <2>6. Tail(q)[Len(Tail(q))].type \in T
    BY <1>1, <2>5 DEF Closed
  <2>7. Len(Tail(q)) > 0
    BY <1>1, <1>3
  <2> QED
    BY <1>0, <2>2, <2>4, <2>6, <2>7 DEF Closed
<1> QED
  BY <1>1, <1>2, <1>3

\* An empty queue has none.
LEMMA EmptyIsFree ==
    ASSUME NEW T
    PROVE  Free(<<>>, T)
  BY EmptySeq DEF Free

------------------------------------------------------------------------------
(* Blocks, and what a receiver holds *)

\* Every section lies in the file, and sections are finite sets of numbers.
LEMMA SectionsInFile ==
    /\ SectionCount \in Nat
    /\ \A s \in Nat : /\ Blocks(s) \subseteq AllBlocks
                      /\ Blocks(s) \subseteq Nat /\ IsFiniteSet(Blocks(s))
    /\ AllBlocks \subseteq Nat /\ IsFiniteSet(AllBlocks)
<1>0. /\ TotalBlocks \in Nat /\ SectionLimit \in Nat /\ SectionLimit > 0
      /\ Word \in Nat /\ Word > 0
  BY SectionRepairAssumption, WordAssumption
<1>1. SectionCount \in Nat
  <2>1. CASE TotalBlocks = 0
    BY <2>1 DEF SectionCount, SectionCountForBlocks
  <2>2. CASE TotalBlocks # 0
    <3> DEFINE n == TotalBlocks + SectionLimit - 1
               u == (n % Word)
    <3>1. n \in Nat
      BY <1>0
    <3> HIDE DEF n
    <3>2. u \in Nat
      BY <1>0, <3>1
    <3>3. SectionCount = (u \div SectionLimit)
      BY <2>2 DEF SectionCount, SectionCountForBlocks, U32, n
    <3> HIDE DEF u
    <3> QED
      BY <1>0, <3>2, <3>3
  <2> QED
    BY <2>1, <2>2
<1>2. ASSUME NEW s \in Nat
      PROVE  Blocks(s) \subseteq AllBlocks /\ Blocks(s) \subseteq Nat /\ IsFiniteSet(Blocks(s))
  <2> DEFINE n == s * SectionLimit
             first == (n % Word)
             left == TotalBlocks - first
             count == IF SectionLimit < left THEN SectionLimit ELSE left
  <2>1. n \in Nat
    BY <1>0
  <2> HIDE DEF n
  <2>2. first \in Nat
    BY <1>0, <2>1
  <2>3. Blocks(s) = first .. first + count - 1
    BY DEF Blocks, SectionBlocks, SectionBlockCount, SectionFirstBlock, U32, n
  <2> HIDE DEF first
  <2>4. count \in Int /\ first + count - 1 <= TotalBlocks - 1 /\ first + count - 1 \in Int
    BY <1>0, <2>2
  <2> HIDE DEF count
  <2>5. IsFiniteSet(first .. first + count - 1)
    BY <2>2, <2>4, FS_Interval
  <2>6. first .. first + count - 1 \subseteq 0 .. TotalBlocks - 1
    BY <1>0, <2>2, <2>4
  <2> QED
    BY <1>0, <2>3, <2>5, <2>6 DEF AllBlocks
<1>3. AllBlocks \subseteq Nat /\ IsFiniteSet(AllBlocks)
  BY <1>0, FS_Interval DEF AllBlocks
<1> QED
  BY <1>1, <1>2, <1>3

\* What a receiver has received and stored only grows, and with it what it may be told.
Growing ==
    /\ stored \subseteq stored'
    /\ \A r \in Receivers : Received(r) \subseteq Received(r)'

\* What was true to say stays true.
LEMMA GrowingOrders ==
    ASSUME Growing, NEW r \in Receivers
    PROVE  /\ OrdersFor(r) \subseteq OrdersFor(r)'
           /\ FramesFrom(r) \subseteq FramesFrom(r)'
           /\ \A report : Grounded(r, report) => Grounded(r, report)'
<1>1. \A report : Grounded(r, report) => Grounded(r, report)'
  BY DEF Growing, Grounded
<1>2. OrdersFor(r) \subseteq OrdersFor(r)'
  BY DEF Growing, OrdersFor
<1>3. FramesFrom(r) \subseteq FramesFrom(r)'
  BY <1>1 DEF FramesFrom
<1> QED
  BY <1>1, <1>2, <1>3

\* A step that writes no block and stores no file.
LEMMA SameIsGrowing ==
    ASSUME UNCHANGED <<have, stored>>
    PROVE  Growing
  BY DEF Growing, Received

\* Queues that do not change.
LEMMA OrdersKept ==
    ASSUME OrderShape, Growing, UNCHANGED toRcv
    PROVE  OrderShape'
<1>1. \A r \in Receivers : toRcv'[r] \in Seq(OrdersFor(r)')
  BY GrowingOrders, SeqMonotonic DEF OrderShape
<1> QED
  BY <1>1 DEF OrderShape

LEMMA FramesKept ==
    ASSUME FrameShape, Growing, UNCHANGED toProxy
    PROVE  FrameShape'
<1>1. \A r \in Receivers : toProxy'[r] \in Seq(FramesFrom(r)')
  BY GrowingOrders, SeqMonotonic DEF FrameShape
<1> QED
  BY <1>1 DEF FrameShape

\* The proxy reads a frame of one receiver.
LEMMA FrameRead ==
    ASSUME FrameShape, Growing, NEW r \in Receivers, Pending(toProxy[r]),
           toProxy' = [toProxy EXCEPT ![r] = Tail(@)]
    PROVE  /\ FrameShape' /\ Head(toProxy[r]) \in FramesFrom(r)
<1>1. Head(toProxy[r]) \in FramesFrom(r) /\ Tail(toProxy[r]) \in Seq(FramesFrom(r))
  BY HeadTailProperties DEF FrameShape, Pending
<1>2. FramesFrom(r) \subseteq Frames
  BY DEF FramesFrom
<1>3. Tail(toProxy[r]) \in Seq(Frames)
  BY <1>1, <1>2, SeqMonotonic
<1>4. toProxy' \in [Receivers -> Seq(Frames)]
  BY <1>3 DEF FrameShape
<1>5. \A q \in Receivers : toProxy'[q] \in Seq(FramesFrom(q))
  BY <1>1 DEF FrameShape
<1>6. \A q \in Receivers : toProxy'[q] \in Seq(FramesFrom(q)')
  BY <1>5, GrowingOrders, SeqMonotonic
<1> QED
  BY <1>1, <1>4, <1>6 DEF FrameShape

\* A receiver says something.
LEMMA FrameAnswer ==
    ASSUME FrameShape, Growing, NEW r \in Receivers, NEW frames \in Seq(FramesFrom(r)'),
           Answer(r, frames)
    PROVE  FrameShape'
<1>1. toProxy' = [toProxy EXCEPT ![r] = toProxy[r] \o frames]
  BY DEF Answer
<1>2. \A q \in Receivers : toProxy[q] \in Seq(FramesFrom(q)')
  BY GrowingOrders, SeqMonotonic DEF FrameShape
<1>3. toProxy[r] \o frames \in Seq(FramesFrom(r)')
  BY <1>2, ConcatProperties
<1>4. \A q \in Receivers : toProxy'[q] \in Seq(FramesFrom(q)')
  BY <1>1, <1>2, <1>3 DEF FrameShape
<1>5. FramesFrom(r)' \subseteq Frames
  BY DEF FramesFrom, Frames
<1>6. toProxy[r] \o frames \in Seq(Frames)
  BY <1>3, <1>5, SeqMonotonic
<1>7. toProxy' \in [Receivers -> Seq(Frames)]
  BY <1>1, <1>6 DEF FrameShape
<1> QED
  BY <1>4, <1>7 DEF FrameShape

\* A receiver reads an order.
LEMMA OrderRead ==
    ASSUME OrderShape, Growing, NEW r \in Receivers, Pending(toRcv[r]),
           toRcv' = [toRcv EXCEPT ![r] = Tail(@)]
    PROVE  /\ OrderShape' /\ Head(toRcv[r]) \in OrdersFor(r)
<1>1. Head(toRcv[r]) \in OrdersFor(r) /\ Tail(toRcv[r]) \in Seq(OrdersFor(r))
  BY HeadTailProperties DEF OrderShape, Pending
<1>2. OrdersFor(r) \subseteq Orders
  BY DEF OrdersFor
<1>3. Tail(toRcv[r]) \in Seq(Orders)
  BY <1>1, <1>2, SeqMonotonic
<1>4. toRcv' \in [Receivers -> Seq(Orders)]
  BY <1>3 DEF OrderShape
<1>5. \A q \in Receivers : toRcv'[q] \in Seq(OrdersFor(q))
  BY <1>1 DEF OrderShape
<1>6. \A q \in Receivers : toRcv'[q] \in Seq(OrdersFor(q)')
  BY <1>5, GrowingOrders, SeqMonotonic
<1> QED
  BY <1>1, <1>4, <1>6 DEF OrderShape

\* The proxy gives orders: `more' is what every receiver is told, often nothing.
LEMMA OrdersGiven ==
    ASSUME OrderShape, Growing, NEW more, \A r \in Receivers : more[r] \in Seq(OrdersFor(r)),
           toRcv' = [r \in Receivers |-> toRcv[r] \o more[r]]
    PROVE  OrderShape'
<1>1. \A r \in Receivers : toRcv[r] \o more[r] \in Seq(OrdersFor(r))
  BY ConcatProperties DEF OrderShape
<1>2. \A r \in Receivers : OrdersFor(r) \subseteq Orders
  BY DEF OrdersFor
<1>3. \A r \in Receivers : toRcv[r] \o more[r] \in Seq(Orders)
  BY <1>1, <1>2, SeqMonotonic
<1>4. \A r \in Receivers : toRcv'[r] \in Seq(OrdersFor(r)')
  BY <1>1, GrowingOrders, SeqMonotonic
<1>5. toRcv' \in [Receivers -> Seq(Orders)]
  BY <1>3
<1> QED
  BY <1>4, <1>5 DEF OrderShape

------------------------------------------------------------------------------
(* What the receivers keep *)

Datagrams == Receivers \X AllBlocks \X {"good", "bad"}

\* The network loses finitely many datagrams, never more than the bound.
LEMMA DeliverShape ==
    ASSUME ReceiverShape, losses \in 0 .. MaxLosses,
           NEW sent \in SUBSET Datagrams, Deliver(sent)
    PROVE  /\ losses' \in 0 .. MaxLosses
           /\ udp' \in [Receivers -> SUBSET (AllBlocks \X {"good", "bad"})]
<1>1. IsFiniteSet(Datagrams)
  <2> DEFINE pairs == (Receivers \X AllBlocks) \X {"good", "bad"}
             triple == [p \in pairs |-> <<p[1][1], p[1][2], p[2]>>]
  <2>1. IsFiniteSet(Receivers) /\ IsFiniteSet(AllBlocks)
    BY RepairPlanAssumption, SectionsInFile, FS_Interval DEF Receivers
  <2>2. IsFiniteSet({"good", "bad"})
    <3> DEFINE S == {"good"}
    <3>1. IsFiniteSet(S)
      BY FS_Singleton
    <3>2. {"good", "bad"} = S \cup {"bad"}
      OBVIOUS
    <3> HIDE DEF S
    <3> QED
      BY <3>1, <3>2, FS_AddElement
  <2>3. IsFiniteSet(Receivers \X AllBlocks)
    BY <2>1, FS_Product
  <2>4. IsFiniteSet(pairs)
    BY <2>2, <2>3, FS_Product
  <2>5. triple \in [pairs -> Datagrams]
    BY DEF Datagrams
  <2>6. \A d \in Datagrams : \E p \in pairs : triple[p] = d
    <3> TAKE d \in Datagrams
    <3>1. PICK r \in Receivers, b \in AllBlocks, c \in {"good", "bad"} : d = <<r, b, c>>
      BY DEF Datagrams
    <3>2. <<<<r, b>>, c>> \in pairs /\ triple[<<<<r, b>>, c>>] = d
      BY <3>1
    <3> QED
      BY <3>2
  <2> HIDE DEF pairs, triple
  <2>7. triple \in Surjection(pairs, Datagrams)
    BY <2>5, <2>6 DEF Surjection
  <2> QED
    BY <2>4, <2>7, FS_Surjection
<1>2. PICK lost \in SUBSET {d \in sent : Wants(d[1], d[2])} :
         /\ Cardinality(lost) <= losses
         /\ losses' = losses - Cardinality(lost)
         /\ udp' = [r \in Receivers |-> udp[r] \cup
                      {<<d[2], d[3]>> : d \in {e \in sent \ lost :
                                                 e[1] = r /\ Wants(e[1], e[2])}}]
  BY DEF Deliver
<1>3. Cardinality(lost) \in Nat
  <2>1. lost \in SUBSET Datagrams
    OBVIOUS
  <2> QED
    BY <1>1, <2>1, FS_Subset, FS_CardinalityType
<1>4. losses' \in 0 .. MaxLosses
  BY <1>2, <1>3, SectionRepairAssumption
<1>5. \A d \in sent : <<d[2], d[3]>> \in AllBlocks \X {"good", "bad"}
  BY DEF Datagrams
<1>6. \A r \in Receivers : udp[r] \in SUBSET (AllBlocks \X {"good", "bad"})
  BY DEF ReceiverShape
<1> HIDE DEF Datagrams
<1>7. \A r \in Receivers : {<<d[2], d[3]>> : d \in {e \in sent \ lost :
                              e[1] = r /\ Wants(e[1], e[2])}} \in SUBSET (AllBlocks \X {"good", "bad"})
  BY <1>5
<1> QED
  BY <1>2, <1>4, <1>6, <1>7

\* A step of the proxy leaves the receivers alone.
LEMMA ReceiverShapeKept ==
    ASSUME ReceiverShape, UNCHANGED rcvVars,
           udp' \in [Receivers -> SUBSET (AllBlocks \X {"good", "bad"})]
    PROVE  ReceiverShape'
<1>1. /\ phase' = phase /\ have' = have /\ active' = active /\ lastEnd' = lastEnd
      /\ lastReported' = lastReported /\ draining' = draining /\ drainRound' = drainRound
      /\ stored' = stored
  BY DEF rcvVars
<1> QED
  BY <1>1 DEF ReceiverShape

\* A block is written only where none was.
LEMMA WriteShape ==
    ASSUME ReceiverShape, NEW r \in Receivers, NEW b \in AllBlocks, NEW v \in {"good", "bad"},
           have' = IF Wants(r, b) THEN [have EXCEPT ![r][b] = v] ELSE have,
           UNCHANGED stored
    PROVE  /\ have' \in [Receivers -> [AllBlocks -> Content]]
           /\ Growing
<1>1. have \in [Receivers -> [AllBlocks -> Content]]
  BY DEF ReceiverShape
<1>2. have' \in [Receivers -> [AllBlocks -> Content]]
  BY <1>1 DEF Content
<1>3. \A q \in Receivers, c \in AllBlocks : have[q][c] # "none" => have'[q][c] # "none"
  BY <1>1
<1>4. \A q \in Receivers : Received(q) \subseteq Received(q)'
  BY <1>3 DEF Received
<1> QED
  BY <1>2, <1>4 DEF Growing

\* The end of a drain or of a backfill: a receiver may store its file.
LEMMA FinalizeShape ==
    ASSUME ReceiverShape, NEW r \in Receivers, Finalize(r), UNCHANGED have
    PROVE  /\ phase' \in [Receivers -> {"active", "awaiting", "shafailed", "idle"}]
           /\ stored' \subseteq Receivers /\ Growing
           /\ \A q \in Receivers : q # r => phase'[q] = phase[q]
           /\ AllReceived(r) /\ ShaMatches(r) => phase'[r] = "awaiting" /\ stored' = stored \cup {r}
           /\ AllReceived(r) /\ ~ShaMatches(r) => phase'[r] = "shafailed" /\ stored' = stored
           /\ ~AllReceived(r) => phase'[r] = phase[r] /\ stored' = stored
<1> DEFINE p == CASE ~AllReceived(r) -> phase[r]
                  [] ShaMatches(r)   -> "awaiting"
                  [] OTHER           -> "shafailed"
<1>1. phase \in [Receivers -> {"active", "awaiting", "shafailed", "idle"}]
  BY DEF ReceiverShape
<1>2. phase' = [phase EXCEPT ![r] = p]
  BY DEF Finalize
<1>3. /\ AllReceived(r) /\ ShaMatches(r) => p = "awaiting"
      /\ AllReceived(r) /\ ~ShaMatches(r) => p = "shafailed"
      /\ ~AllReceived(r) => p = phase[r]
  <2>1. CASE ~AllReceived(r)
    <3>1. ~ShaMatches(r)
      BY <2>1 DEF AllReceived, ShaMatches, Received
    <3> QED
      BY <2>1, <3>1
  <2>2. CASE AllReceived(r) /\ ShaMatches(r)
    BY <2>2
  <2>3. CASE AllReceived(r) /\ ~ShaMatches(r)
    BY <2>3
  <2> QED
    BY <2>1, <2>2, <2>3
<1> HIDE DEF p
<1>4. p \in {"active", "awaiting", "shafailed", "idle"}
  BY <1>1, <1>3
<1>5. stored' = IF AllReceived(r) /\ ShaMatches(r) THEN stored \cup {r} ELSE stored
  BY DEF Finalize
<1>6. stored \subseteq Receivers
  BY DEF ReceiverShape
<1>7. stored \subseteq stored' /\ stored' \subseteq Receivers
  BY <1>5, <1>6
<1>8. Growing
  BY <1>7 DEF Growing, Received
<1>9. /\ phase' \in [Receivers -> {"active", "awaiting", "shafailed", "idle"}]
      /\ \A q \in Receivers : q # r => phase'[q] = phase[q]
      /\ phase'[r] = p
  BY <1>1, <1>2, <1>4
<1> QED
  BY <1>3, <1>5, <1>7, <1>8, <1>9

\* The drain is over: a report, and the file stored when it was the last block.
LEMMA DrainEndsShape ==
    ASSUME ReceiverShape, OrderShape, FrameShape, NEW r \in Receivers, RcvDrainEnds(r)
    PROVE  ReceiverShape' /\ OrderShape' /\ FrameShape' /\ Growing
<1> DEFINE s == active[r]
           k == drainRound[r]
           missing == Blocks(s) \ Received(r)
           report(code, m) == SectionStatus(s, k, code, m)
<1>0. /\ draining[r] /\ draining' = [draining EXCEPT ![r] = FALSE]
      /\ lastReported' = [lastReported EXCEPT ![r] = k]
      /\ UNCHANGED <<toRcv, udp, have, active, lastEnd, drainRound>>
  BY DEF RcvDrainEnds
<1>1. s \in Sections /\ s \in Nat /\ k \in 0 .. MaxRepairRounds
  BY <1>0, SectionsInFile DEF ReceiverShape, Sections
<1>2. missing \in SUBSET AllBlocks
  BY <1>1, SectionsInFile
<1>3. \A code \in Codes, m \in SUBSET AllBlocks :
         /\ report(code, m) \in Frames
         /\ report(code, m).code = code /\ report(code, m).section = s
         /\ report(code, m).missing = m
  BY <1>1 DEF SectionStatus, Frames
<1>4. /\ phase' \in [Receivers -> {"active", "awaiting", "shafailed", "idle"}]
      /\ stored' \subseteq Receivers /\ Growing
  <2>1. CASE missing # {}
    <3>1. UNCHANGED <<phase, stored>>
      BY <2>1 DEF RcvDrainEnds
    <3> QED
      BY <1>0, <3>1, SameIsGrowing DEF ReceiverShape
  <2>2. CASE missing = {}
    <3>1. Finalize(r)
      BY <2>2 DEF RcvDrainEnds
    <3> QED
      BY <1>0, <3>1, FinalizeShape
  <2> QED
    BY <2>1, <2>2
<1>5. ReceiverShape'
  <2>1. draining' \in [Receivers -> BOOLEAN]
    BY <1>0 DEF ReceiverShape
  <2>2. lastReported' \in [Receivers -> (0 .. MaxRepairRounds) \cup {None}]
    BY <1>0, <1>1 DEF ReceiverShape
  <2>3. \A q \in Receivers : draining'[q] => active'[q] \in Sections
    BY <1>0 DEF ReceiverShape
  <2> QED
    BY <1>0, <1>4, <2>1, <2>2, <2>3 DEF ReceiverShape
<1>6. OrderShape'
  BY <1>0, <1>4, OrdersKept
<1>7. Received(r)' = Received(r)
  BY <1>0 DEF Received
<1>8. FrameShape'
  <2>c. {"Missing", "Complete", "Failed"} = Codes
    BY DEF Codes
  <2>1. CASE missing # {}
    <3> DEFINE f == report("Missing", missing)
    <3>1. Answer(r, <<f>>)
      BY <2>1 DEF RcvDrainEnds
    <3>2. f \in Frames /\ f.code = "Missing" /\ f.section = s /\ f.missing = missing
      BY <1>2, <1>3, <2>c
    <3> HIDE DEF f
    <3>3. Blocks(f.section) \ f.missing \subseteq Received(r)
      BY <3>2
    <3>4. f \in FramesFrom(r)'
      BY <1>7, <3>2, <3>3 DEF FramesFrom, Grounded
    <3>5. <<f>> \in Seq(FramesFrom(r)')
      BY <3>4
    <3> QED
      BY <1>4, <3>1, <3>5, FrameAnswer
  <2>2. CASE missing = {}
    <3> DEFINE f == report("Complete", {})
               g == report("Failed", {})
               h == Bare("RECEIVER_COMPLETE")
    <3>1. Answer(r, CASE ~AllReceived(r) -> <<f>>
                      [] ShaMatches(r)   -> <<f, h>>
                      [] OTHER           -> <<g>>)
      BY <2>2 DEF RcvDrainEnds
    <3>2. /\ f \in Frames /\ f.code = "Complete" /\ f.section = s
          /\ g \in Frames /\ g.code = "Failed"
      BY <1>3, <2>c
    <3>h. h \in Frames /\ h.type # "SECTION_STATUS"
      BY DEF Bare, Frames
    <3> HIDE DEF f, g, h
    <3>3. Blocks(f.section) \subseteq Received(r)
      BY <2>2, <3>2
    <3>4. f \in FramesFrom(r)' /\ g \in FramesFrom(r)' /\ h \in FramesFrom(r)'
      BY <1>7, <3>2, <3>3, <3>h DEF FramesFrom, Grounded
    <3>5. /\ <<f>> \in Seq(FramesFrom(r)') /\ <<g>> \in Seq(FramesFrom(r)')
          /\ <<f, h>> \in Seq(FramesFrom(r)')
      BY <3>4
    <3>6. \E frames \in {<<f>>, <<f, h>>, <<g>>} : Answer(r, frames)
      <4>1. CASE ~AllReceived(r)
        <5>1. ~ShaMatches(r)
          BY <4>1 DEF AllReceived, ShaMatches, Received
        <5> QED
          BY <3>1, <4>1, <5>1
      <4>2. CASE AllReceived(r) /\ ShaMatches(r)
        BY <3>1, <4>2
      <4>3. CASE AllReceived(r) /\ ~ShaMatches(r)
        BY <3>1, <4>3
      <4> QED
        BY <4>1, <4>2, <4>3
    <3>7. PICK frames \in {<<f>>, <<f, h>>, <<g>>} : Answer(r, frames)
      BY <3>6
    <3>8. frames \in Seq(FramesFrom(r)')
      BY <3>5, <3>7
    <3> QED
      BY <1>4, <3>7, <3>8, FrameAnswer
  <2> QED
    BY <2>1, <2>2
<1> QED
  BY <1>4, <1>5, <1>6, <1>8

\* The fields of the frames.
LEMMA OrderFields ==
    ASSUME NEW f \in Orders
    PROVE  /\ f.type \in {"SECTION_END", "PEER_REPAIR_TASK", "BACKFILL_DATA", "BACKFILL_END",
                          "COMPLETE_ACK", "TRANSFER_FAILED"}
           /\ f.type = "SECTION_END" => f.section \in Sections /\ f.round \in 0 .. MaxRepairRounds
           /\ f.type = "PEER_REPAIR_TASK" => f.target \in Receivers /\ f.blocks \in SUBSET AllBlocks
           /\ f.type = "BACKFILL_DATA" => f.block \in AllBlocks
  BY DEF Orders

LEMMA FrameFields ==
    ASSUME NEW f \in Frames
    PROVE  /\ f.type \in {"SECTION_STATUS", "RECEIVER_COMPLETE", "RECEIVER_READY"}
           /\ f.type = "SECTION_STATUS" =>
                 /\ f.section \in Sections /\ f.round \in 0 .. MaxRepairRounds
                 /\ f.code \in Codes /\ f.missing \in SUBSET AllBlocks
  BY DEF Frames

\* BACKFILL_END: the receiver finalises or reports FAILED.
LEMMA BackfillEndShape ==
    ASSUME ReceiverShape, FrameShape, NEW r \in Receivers, SectionCount > 0, RcvBackfillEnd(r),
           UNCHANGED <<udp, have, active, lastEnd, draining, drainRound>>
    PROVE  ReceiverShape' /\ FrameShape' /\ Growing
<1>1. CASE phase[r] # "active"
  <2>1. UNCHANGED <<phase, stored, lastReported, toProxy>>
    BY <1>1 DEF RcvBackfillEnd
  <2>2. Growing
    BY <2>1, SameIsGrowing
  <2>3. ReceiverShape'
    BY <2>1, ReceiverShapeKept DEF rcvVars, ReceiverShape
  <2> QED
    BY <2>1, <2>2, <2>3, FramesKept
<1>2. CASE phase[r] = "active"
  <2> DEFINE good == AllReceived(r) /\ ShaMatches(r)
             h == Bare("RECEIVER_COMPLETE")
             s == IF active[r] = None THEN 0 ELSE active[r]
             k == IF lastReported[r] = None THEN 0 ELSE lastReported[r]
             f == SectionStatus(s, k, "Failed", {})
  <2>1. Finalize(r)
    BY <1>2 DEF RcvBackfillEnd
  <2>2. /\ phase' \in [Receivers -> {"active", "awaiting", "shafailed", "idle"}]
        /\ stored' \subseteq Receivers /\ Growing
    BY <2>1, FinalizeShape
  <2>3. s \in Sections /\ k \in 0 .. MaxRepairRounds
    <3>1. 0 \in Sections /\ 0 \in 0 .. MaxRepairRounds
      BY SectionsInFile, SectionRepairAssumption DEF Sections
    <3>2. active[r] \in Sections \cup {None} /\ lastReported[r] \in (0 .. MaxRepairRounds) \cup {None}
      BY DEF ReceiverShape
    <3> QED
      BY <3>1, <3>2
  <2>4. f \in Frames /\ f.code = "Failed" /\ h \in Frames /\ h.type = "RECEIVER_COMPLETE"
    <3> HIDE DEF s, k
    <3> QED
      BY <2>3 DEF SectionStatus, Frames, Codes, Bare
  <2>5. CASE good
    <3>1. Answer(r, <<h>>) /\ UNCHANGED lastReported
      BY <1>2, <2>5 DEF RcvBackfillEnd
    <3> HIDE DEF h
    <3>2. <<h>> \in Seq(FramesFrom(r)')
      BY <2>4 DEF FramesFrom
    <3>3. FrameShape'
      BY <2>2, <3>1, <3>2, FrameAnswer
    <3>4. ReceiverShape'
      BY <2>2, <3>1 DEF ReceiverShape
    <3> QED
      BY <2>2, <3>3, <3>4
  <2>6. CASE ~good
    <3>1. Answer(r, <<f>>)
      BY <1>2, <2>6 DEF RcvBackfillEnd
    <3>2. lastReported' = [lastReported EXCEPT ![r] = IF @ = None THEN 0 ELSE @]
      BY <1>2, <2>6 DEF RcvBackfillEnd
    <3> HIDE DEF f
    <3>3. <<f>> \in Seq(FramesFrom(r)')
      BY <2>4 DEF FramesFrom, Grounded
    <3>4. FrameShape'
      BY <2>2, <3>1, <3>3, FrameAnswer
    <3>5. lastReported' \in [Receivers -> (0 .. MaxRepairRounds) \cup {None}]
      BY <3>2, SectionRepairAssumption DEF ReceiverShape
    <3>6. ReceiverShape'
      BY <2>2, <3>5 DEF ReceiverShape
    <3> QED
      BY <2>2, <3>4, <3>6
  <2> QED
    BY <2>5, <2>6
<1> QED
  BY <1>1, <1>2

\* COMPLETE_ACK and TRANSFER_FAILED: the receiver drops the transfer.
LEMMA ResetShape ==
    ASSUME ReceiverShape, FrameShape, NEW r \in Receivers,
           RcvReset(r) \/ UNCHANGED <<phase, draining, toProxy>>,
           UNCHANGED <<udp, have, active, lastEnd, lastReported, drainRound, stored>>
    PROVE  ReceiverShape' /\ FrameShape' /\ Growing
<1>1. Growing
  BY SameIsGrowing
<1>2. CASE RcvReset(r)
  <2> DEFINE h == Bare("RECEIVER_READY")
  <2>1. /\ phase' = [phase EXCEPT ![r] = "idle"] /\ draining' = [draining EXCEPT ![r] = FALSE]
        /\ Answer(r, <<h>>)
    BY <1>2 DEF RcvReset
  <2>2. h \in Frames /\ h.type = "RECEIVER_READY"
    BY DEF Bare, Frames
  <2> HIDE DEF h
  <2>3. <<h>> \in Seq(FramesFrom(r)')
    BY <2>2 DEF FramesFrom
  <2>4. FrameShape'
    BY <1>1, <2>1, <2>3, FrameAnswer
  <2>5. phase' \in [Receivers -> {"active", "awaiting", "shafailed", "idle"}]
    BY <2>1 DEF ReceiverShape
  <2>6. draining' \in [Receivers -> BOOLEAN]
    BY <2>1 DEF ReceiverShape
  <2>7. \A q \in Receivers : draining'[q] => draining[q]
    BY <2>1 DEF ReceiverShape
  <2>8. ReceiverShape'
    BY <2>5, <2>6, <2>7 DEF ReceiverShape
  <2> QED
    BY <1>1, <2>4, <2>8
<1>3. CASE UNCHANGED <<phase, draining, toProxy>>
  <2>1. ReceiverShape'
    BY <1>3 DEF ReceiverShape
  <2> QED
    BY <1>1, <1>3, <2>1, FramesKept
<1> QED
  BY <1>2, <1>3

\* A receiver reads one order.
LEMMA ControlShape ==
    ASSUME ReceiverShape, OrderShape, FrameShape, losses \in 0 .. MaxLosses,
           NEW r \in Receivers, RcvControl(r)
    PROVE  /\ ReceiverShape' /\ OrderShape' /\ FrameShape' /\ Growing
           /\ losses' \in 0 .. MaxLosses
<1> DEFINE f == Head(toRcv[r])
<1>0. Pending(toRcv[r]) /\ toRcv' = [toRcv EXCEPT ![r] = Tail(@)]
  BY DEF RcvControl
<1>1. f \in OrdersFor(r)
  <2>1. toRcv[r] \in Seq(OrdersFor(r))
    BY DEF OrderShape
  <2> QED
    BY <1>0, <2>1, HeadTailProperties DEF Pending
<1>2. f \in Orders /\ (f.type = "BACKFILL_END" => SectionCount > 0)
  BY <1>1 DEF OrdersFor
<1> SUFFICES ReceiverShape' /\ FrameShape' /\ Growing /\ losses' \in 0 .. MaxLosses
  BY <1>0, OrderRead
<1>3. CASE f.type = "SECTION_END"
  <2>1. /\ RcvSectionEnd(r, f)
        /\ UNCHANGED <<toProxy, udp, phase, have, stored, losses>>
    BY <1>3 DEF RcvControl
  <2>2. Growing
    BY <2>1, SameIsGrowing
  <2>3. f.section \in Sections /\ f.round \in 0 .. MaxRepairRounds
    BY <1>2, <1>3, OrderFields
  <2>4. ReceiverShape'
    <3>1. CASE StartsDrain(r, f.section, f.round)
      <4>1. /\ active' = [active EXCEPT ![r] = f.section]
            /\ lastEnd' = [lastEnd EXCEPT ![r] = f.round]
            /\ lastReported' = [lastReported EXCEPT ![r] =
                                   IF f.section = active[r] THEN @ ELSE None]
            /\ draining' = [draining EXCEPT ![r] = TRUE]
            /\ drainRound' = [drainRound EXCEPT ![r] = f.round]
        BY <2>1, <3>1 DEF RcvSectionEnd
      <4>2. active' \in [Receivers -> Sections \cup {None}]
        BY <2>3, <4>1 DEF ReceiverShape
      <4>3. lastEnd' \in [Receivers -> (0 .. MaxRepairRounds) \cup {None}]
        BY <2>3, <4>1 DEF ReceiverShape
      <4>4. lastReported' \in [Receivers -> (0 .. MaxRepairRounds) \cup {None}]
        BY <2>3, <4>1 DEF ReceiverShape
      <4>5. draining' \in [Receivers -> BOOLEAN]
        BY <4>1 DEF ReceiverShape
      <4>6. drainRound' \in [Receivers -> 0 .. MaxRepairRounds]
        BY <2>3, <4>1 DEF ReceiverShape
      <4>7. \A q \in Receivers : draining'[q] => active'[q] \in Sections
        BY <2>3, <4>1 DEF ReceiverShape
      <4> QED
        BY <2>1, <4>2, <4>3, <4>4, <4>5, <4>6, <4>7 DEF ReceiverShape
    <3>2. CASE ~StartsDrain(r, f.section, f.round)
      <4>1. UNCHANGED <<active, lastEnd, lastReported, draining, drainRound>>
        BY <2>1, <3>2 DEF RcvSectionEnd
      <4> QED
        BY <2>1, <4>1 DEF ReceiverShape
    <3> QED
      BY <3>1, <3>2
  <2> QED
    BY <2>1, <2>2, <2>4, FramesKept
<1>4. CASE f.type = "PEER_REPAIR_TASK"
  <2>1. RcvPeerTask(r, f) /\ UNCHANGED <<toProxy, rcvVars>>
    BY <1>4 DEF RcvControl
  <2>2. Growing
    BY <2>1, SameIsGrowing DEF rcvVars
  <2> DEFINE held == {c \in f.blocks : phase[r] = "active" /\ have[r][c] # "none"}
             sent == {<<f.target, b, have[r][b]>> : b \in held}
  <2>3. f.target \in Receivers /\ f.blocks \in SUBSET AllBlocks
    BY <1>2, <1>4, OrderFields
  <2>4. \A b \in held : b \in AllBlocks /\ have[r][b] \in {"good", "bad"}
    BY <2>3 DEF ReceiverShape, Content
  <2>5. sent \in SUBSET Datagrams
    <3> HIDE DEF held
    <3> QED
      BY <2>3, <2>4 DEF Datagrams
  <2>6. Deliver(sent)
    BY <2>1 DEF RcvPeerTask
  <2> HIDE DEF sent
  <2>7. /\ losses' \in 0 .. MaxLosses
        /\ udp' \in [Receivers -> SUBSET (AllBlocks \X {"good", "bad"})]
    BY <2>5, <2>6, DeliverShape
  <2> QED
    BY <2>1, <2>2, <2>7, ReceiverShapeKept, FramesKept
<1>5. CASE f.type = "BACKFILL_DATA"
  <2>1. /\ RcvBackfillData(r, f)
        /\ UNCHANGED <<toProxy, udp, phase, active, lastEnd, lastReported, draining,
                       drainRound, stored, losses>>
    BY <1>5 DEF RcvControl
  <2>2. f.block \in AllBlocks
    BY <1>2, <1>5, OrderFields
  <2>3. have' \in [Receivers -> [AllBlocks -> Content]] /\ Growing
    BY <2>1, <2>2, WriteShape DEF RcvBackfillData
  <2>4. ReceiverShape'
    BY <2>1, <2>3 DEF ReceiverShape
  <2> QED
    BY <2>1, <2>3, <2>4, FramesKept
<1>6. CASE f.type = "BACKFILL_END"
  <2>1. /\ RcvBackfillEnd(r)
        /\ UNCHANGED <<udp, have, active, lastEnd, draining, drainRound, losses>>
    BY <1>6 DEF RcvControl
  <2> QED
    BY <1>2, <1>6, <2>1, BackfillEndShape
<1>7. CASE f.type \in {"COMPLETE_ACK", "TRANSFER_FAILED"}
  <2>1. /\ RcvReset(r) \/ UNCHANGED <<phase, draining, toProxy>>
        /\ UNCHANGED <<udp, have, active, lastEnd, lastReported, drainRound, stored, losses>>
    BY <1>7 DEF RcvControl
  <2> QED
    BY <2>1, ResetShape
<1> QED
  BY <1>2, <1>3, <1>4, <1>5, <1>6, <1>7, OrderFields

\* What the event loop of one receiver does.
LEMMA ReceiverStepShape ==
    ASSUME ReceiverShape, OrderShape, FrameShape, losses \in 0 .. MaxLosses,
           NEW r \in Receivers, ReceiverStep(r)
    PROVE  /\ ReceiverShape' /\ OrderShape' /\ FrameShape' /\ Growing
           /\ losses' \in 0 .. MaxLosses
<1>1. CASE RcvData(r)
  <2>1. PICK d \in udp[r] :
           /\ udp' = [udp EXCEPT ![r] = @ \ {d}]
           /\ have' = IF Wants(r, d[1]) THEN [have EXCEPT ![r][d[1]] = d[2]] ELSE have
           /\ UNCHANGED <<proxyVars, toRcv, toProxy, phase, active, lastEnd, lastReported,
                          draining, drainRound, stored, losses, timeouts>>
    BY <1>1 DEF RcvData
  <2>2. d[1] \in AllBlocks /\ d[2] \in {"good", "bad"}
    BY <2>1 DEF ReceiverShape
  <2>3. have' \in [Receivers -> [AllBlocks -> Content]] /\ Growing
    BY <2>1, <2>2, WriteShape
  <2>4. udp' \in [Receivers -> SUBSET (AllBlocks \X {"good", "bad"})]
    BY <2>1 DEF ReceiverShape
  <2>5. ReceiverShape'
    BY <2>1, <2>3, <2>4 DEF ReceiverShape
  <2> QED
    BY <2>1, <2>3, <2>5, OrdersKept, FramesKept
<1>2. CASE RcvDrainEnds(r)
  <2>1. losses' = losses
    BY <1>2 DEF RcvDrainEnds
  <2> QED
    BY <1>2, <2>1, DrainEndsShape
<1> QED
  BY <1>1, <1>2, ControlShape DEF ReceiverStep

------------------------------------------------------------------------------
(* What the proxy sends *)

PeerTaskOrders(r) == {f \in OrdersFor(r) : f.type = "PEER_REPAIR_TASK"}

\* A plan made from the statuses of a collection: a source is asked only for blocks it
\* really holds, a receiver out of the main group is asked for nothing, and the proxy
\* sends only blocks of the section.
LEMMA PlanIsGrounded ==
    ASSUME ProxyShape, StatusGrounded, pc = "collect"
    PROVE  /\ \A r \in Receivers : HasBlock[r] \subseteq Received(r)
           /\ \A r \in Receivers : Plan.fallback[r] \subseteq AllBlocks
           /\ \A r \in Receivers : PeerTasks(Plan)[r] \in Seq(PeerTaskOrders(r))
           /\ \A r \in Receivers \ (Watched \ Slow) : PeerTasks(Plan)[r] = <<>>
           /\ Multicast(MissingAt) \subseteq AllBlocks
<1> DEFINE B == Blocks(section)
           plan == Plan
<1>0. section \in Sections /\ section \in Nat
  BY SectionsInFile DEF ProxyShape, Sections
<1>1. B \subseteq AllBlocks /\ B \subseteq Nat /\ IsFiniteSet(B)
  BY <1>0, SectionsInFile
<1>2. DOMAIN MissingAt = B
  BY DEF MissingAt
<1>3. plan \in SoundPlans(B, HasBlock)
  <2>1. CASE PeerMode
    <3>1. PeerPlan(MissingAt, HasBlock) \in SoundPlans(DOMAIN MissingAt, HasBlock)
      BY <1>1, <1>2, PeerPlanSound
    <3> QED
      BY <1>2, <2>1, <3>1 DEF Plan
  <2>2. CASE ~PeerMode
    <3>1. BaselinePlan(MissingAt) \in SoundPlans(DOMAIN MissingAt, HasBlock)
      BY BaselinePlanSound
    <3> QED
      BY <1>2, <2>2, <3>1 DEF Plan
  <2> QED
    BY <2>1, <2>2
<1> HIDE DEF plan
<1>4. \A r \in Receivers : HasBlock[r] \subseteq Received(r)
  <2> SUFFICES ASSUME NEW r \in Receivers, NEW b \in HasBlock[r]
               PROVE  b \in Received(r)
    OBVIOUS
  <2>1. r \in Watched \ Slow /\ status[r].code \in {"Complete", "Missing"}
    BY DEF HasBlock
  <2>2. status[r].section = section /\ Grounded(r, status[r])
    BY <2>1 DEF StatusGrounded
  <2>3. CASE status[r].code = "Complete"
    <3>1. b \in B
      BY <2>1, <2>3 DEF HasBlock
    <3> QED
      BY <2>2, <2>3, <3>1 DEF Grounded
  <2>4. CASE status[r].code = "Missing"
    <3>1. b \in B \ status[r].missing
      BY <2>1, <2>4 DEF HasBlock
    <3> QED
      BY <2>2, <2>4, <3>1 DEF Grounded
  <2> QED
    BY <2>1, <2>3, <2>4
<1>5. \A r \in Receivers \ (Watched \ Slow) : HasBlock[r] = {}
  BY DEF HasBlock
<1>6. \A r, t \in Receivers : /\ plan.peer[r][t] \subseteq HasBlock[r]
                              /\ plan.peer[r][t] \subseteq B
                              /\ plan.fallback[t] \subseteq B
  BY <1>3 DEF SoundPlans
<1>7. ASSUME NEW r \in Receivers
      PROVE  /\ PeerTasks(plan)[r] \in Seq(PeerTaskOrders(r))
             /\ HasBlock[r] = {} => PeerTasks(plan)[r] = <<>>
  <2> DEFINE tasks == TasksFrom(plan, r)
             frame(k) == [type |-> "PEER_REPAIR_TASK", section |-> section,
                          target |-> k.target, blocks |-> k.blocks]
             q == PeerTasks(plan)[r]
             n == Len(tasks)
  <2>1. \A t \in Receivers : plan.peer[r][t] \subseteq Nat /\ IsFiniteSet(plan.peer[r][t])
    BY <1>1, <1>6, FS_Subset
  <2>2. tasks \in Seq(Tasks(plan, r))
    BY <2>1, TasksInOrder
  <2>3. q = [i \in 1 .. n |-> frame(tasks[i])]
    BY DEF PeerTasks
  <2> HIDE DEF tasks, q
  <2>4. n \in Nat /\ \A i \in 1 .. n : tasks[i] \in Tasks(plan, r)
    BY <2>2, LenProperties, ElementOfSeq
  <2>5. \A k \in Tasks(plan, r) : k.target \in Receivers /\ k.blocks # {}
                                  /\ k.blocks \subseteq plan.peer[r][k.target]
    BY TasksOfPlan
  <2>6. \A k \in Tasks(plan, r) : frame(k) \in PeerTaskOrders(r)
    <3> TAKE k \in Tasks(plan, r)
    <3>1. k.target \in Receivers /\ k.blocks \subseteq HasBlock[r] /\ k.blocks \subseteq B
      BY <1>6, <2>5
    <3>2. k.blocks \subseteq Received(r) /\ k.blocks \in SUBSET AllBlocks
      BY <1>1, <1>4, <3>1
    <3>3. frame(k) \in Orders
      BY <1>0, <3>1, <3>2 DEF Orders
    <3> QED
      BY <3>2, <3>3 DEF PeerTaskOrders, OrdersFor
  <2> HIDE DEF n, frame
  <2>7. q \in [1 .. n -> PeerTaskOrders(r)]
    BY <2>3, <2>4, <2>6
  <2>8. q \in Seq(PeerTaskOrders(r))
    BY <2>4, <2>7, FunctionIsSeq
  <2>9. ASSUME HasBlock[r] = {}
        PROVE  q = <<>>
    <3>1. Tasks(plan, r) = {}
      BY <1>6, <2>5, <2>9
    <3>2. n = 0
      BY <2>4, <3>1
    <3>3. 1 .. n = {}
      BY <3>2
    <3>4. Len(q) = 0
      BY <2>4, <2>7, <3>2
    <3> QED
      BY <2>8, <3>4, EmptySeq
  <2> QED
    BY <2>8, <2>9 DEF q
<1>8. Multicast(MissingAt) \subseteq B
  BY <1>2 DEF Multicast
<1> QED
  BY <1>1, <1>4, <1>5, <1>6, <1>7, <1>8 DEF plan

\* One SECTION_END to the receivers in `to', after what comes before it.
LEMMA EndRoundGiven ==
    ASSUME OrderShape, Growing, NEW s \in Sections, NEW k \in 0 .. MaxRepairRounds, NEW to,
           NEW first, \A r \in Receivers : first[r] \in Seq(PeerTaskOrders(r)),
           SendEndRound(to, s, k, first)
    PROVE  /\ OrderShape'
           /\ \A r \in Receivers : Free(toRcv[r], Ends) => Free(toRcv'[r], Ends)
           /\ \A r \in Receivers \ to : first[r] = <<>> => toRcv'[r] = toRcv[r]
<1> DEFINE f == [type |-> "SECTION_END", section |-> s, round |-> k]
           last(r) == IF r \in to THEN <<f>> ELSE <<>>
           more == [r \in Receivers |-> first[r] \o last(r)]
           O(r) == {g \in OrdersFor(r) : g.type \notin Ends}
<1>1. \A r \in Receivers : f \in O(r)
  BY DEF OrdersFor, Orders, Ends
<1> HIDE DEF f
<1>2. \A r \in Receivers : last(r) \in Seq(O(r))
  <2> HIDE DEF O
  <2>1. \A r \in Receivers : <<f>> \in Seq(O(r))
    BY <1>1
  <2>2. \A r \in Receivers : <<>> \in Seq(O(r))
    BY EmptySeq
  <2> QED
    BY <2>1, <2>2
<1>3. \A r \in Receivers : first[r] \in Seq(O(r))
  <2>1. \A r \in Receivers : PeerTaskOrders(r) \subseteq O(r)
    BY DEF PeerTaskOrders, Ends
  <2> HIDE DEF O
  <2> QED
    BY <2>1, SeqMonotonic
<1>4. \A r \in Receivers : toRcv'[r] = toRcv[r] \o first[r] \o last(r)
  BY DEF SendEndRound, f
<1>d. toRcv' = [r \in Receivers |-> toRcv[r] \o first[r] \o last(r)]
  BY DEF SendEndRound, f
<1> HIDE DEF last
<1>5. \A r \in Receivers : more[r] \in Seq(O(r))
  <2> HIDE DEF O
  <2> QED
    BY <1>2, <1>3, ConcatProperties
<1>6. \A r \in Receivers : toRcv[r] \o first[r] \o last(r) = toRcv[r] \o more[r]
  <2> TAKE r \in Receivers
  <2>0. O(r) \subseteq OrdersFor(r)
    OBVIOUS
  <2> HIDE DEF O
  <2>1. /\ toRcv[r] \in Seq(OrdersFor(r)) /\ first[r] \in Seq(OrdersFor(r))
        /\ last(r) \in Seq(OrdersFor(r))
    BY <1>2, <1>3, <2>0, SeqMonotonic DEF OrderShape
  <2> DEFINE x == toRcv[r]
             y == first[r]
             z == last(r)
             S == OrdersFor(r)
  <2>2. x \in Seq(S) /\ y \in Seq(S) /\ z \in Seq(S)
    BY <2>1
  <2> HIDE DEF x, y, z, S
  <2>3. (x \o y) \o z = x \o (y \o z)
    BY <2>2, ConcatAssociative
  <2> QED
    BY <2>3 DEF x, y, z
<1>7. toRcv' = [r \in Receivers |-> toRcv[r] \o more[r]]
  BY <1>d, <1>6
<1>8. OrderShape'
  <2>1. \A r \in Receivers : O(r) \subseteq OrdersFor(r)
    OBVIOUS
  <2> HIDE DEF O, more
  <2>2. \A r \in Receivers : more[r] \in Seq(OrdersFor(r))
    BY <1>5, <2>1, SeqMonotonic
  <2> QED
    BY <1>7, <2>2, OrdersGiven
<1>9. ASSUME NEW r \in Receivers, Free(toRcv[r], Ends)
      PROVE  Free(toRcv'[r], Ends)
  <2>1. \A g \in O(r) : g.type \notin Ends
    OBVIOUS
  <2>2. toRcv'[r] = toRcv[r] \o more[r]
    BY <1>7
  <2> HIDE DEF O, more
  <2>3. toRcv[r] \in Seq(OrdersFor(r)) /\ more[r] \in Seq(O(r))
    BY <1>5 DEF OrderShape
  <2> QED
    BY <1>9, <2>1, <2>2, <2>3, FreeConcat
<1>10. ASSUME NEW r \in Receivers \ to, first[r] = <<>>
       PROVE  toRcv'[r] = toRcv[r]
  <2>1. last(r) = <<>>
    BY DEF last
  <2>2. toRcv[r] \in Seq(OrdersFor(r))
    BY DEF OrderShape
  <2>3. toRcv[r] \o <<>> = toRcv[r]
    BY <2>2, ConcatEmptySeq
  <2> QED
    BY <1>4, <1>10, <2>1, <2>3
<1> QED
  BY <1>8, <1>9, <1>10

\* What a backfill task sends.
LEMMA BackfillGiven ==
    ASSUME NEW r \in Receivers, NEW blocks \in SUBSET AllBlocks, SectionCount > 0
    PROVE  BackfillFrames(blocks) \in Seq({f \in OrdersFor(r) : f.type \notin Ends})
<1> DEFINE O == {f \in OrdersFor(r) : f.type \notin Ends}
           ordered == InOrder(blocks, <)
           n == Len(ordered)
           data == [i \in 1 .. n |-> [type |-> "BACKFILL_DATA", block |-> ordered[i]]]
           end == Bare("BACKFILL_END")
<1>1. ordered \in Seq(blocks)
  <2>1. blocks \in SUBSET Nat /\ IsFiniteSet(blocks)
    BY SectionsInFile, FS_Subset
  <2> QED
    BY <2>1, NumbersInOrder
<1>2. BackfillFrames(blocks) = data \o <<end>>
  BY DEF BackfillFrames
<1>3. end \in O
  BY DEF Bare, OrdersFor, Orders, Ends
<1>4. \A b \in AllBlocks : [type |-> "BACKFILL_DATA", block |-> b] \in O
  BY DEF OrdersFor, Orders, Ends
<1> HIDE DEF ordered, O, end
<1>5. n \in Nat /\ \A i \in 1 .. n : ordered[i] \in AllBlocks
  BY <1>1, LenProperties, ElementOfSeq
<1> HIDE DEF n
<1>6. data \in [1 .. n -> O]
  BY <1>4, <1>5
<1>7. data \in Seq(O)
  BY <1>5, <1>6, FunctionIsSeq
<1> HIDE DEF data
<1>8. <<end>> \in Seq(O)
  BY <1>3
<1> QED
  BY <1>2, <1>7, <1>8, ConcatProperties DEF O

------------------------------------------------------------------------------
(* How the steps keep the shapes *)

Shape == ProxyShape /\ ReceiverShape /\ OrderShape /\ FrameShape /\ StatusGrounded

\* reset_round_state leaves every receiver without a report.
LEMMA NoStatusIsReport == NoStatus \in Reports /\ NoStatus.code = "NO_REPORT"
  BY SectionsInFile, SectionRepairAssumption DEF NoStatus, Reports, Codes

\* The statuses of a collection stay grounded when nothing is forgotten.
LEMMA StatusKept ==
    ASSUME StatusGrounded, Growing, UNCHANGED status, pc' = "collect" => pc = "collect" /\ section' = section
    PROVE  StatusGrounded'
  BY GrowingOrders DEF StatusGrounded

\* A receiver step: the proxy's picture is the same, the blocks have grown.
LEMMA ReceiverKeepsShape ==
    ASSUME Shape, NEW r \in Receivers, ReceiverStep(r)
    PROVE  Shape' /\ Growing
<1>1. /\ ReceiverShape' /\ OrderShape' /\ FrameShape' /\ Growing
      /\ losses' \in 0 .. MaxLosses
  BY ReceiverStepShape DEF Shape, ProxyShape
<1>2. UNCHANGED <<proxyVars, timeouts>>
  BY DEF ReceiverStep, RcvData, RcvDrainEnds, RcvControl
<1>3. /\ pc' = pc /\ section' = section /\ round' = round /\ result' = result
      /\ completed' = completed /\ isolated' = isolated /\ abandoned' = abandoned
      /\ ready' = ready /\ status' = status /\ backfill' = backfill /\ task' = task
      /\ timeouts' = timeouts
  BY <1>2 DEF proxyVars
<1>4. ProxyShape'
  BY <1>1, <1>3 DEF Shape, ProxyShape
<1>5. StatusGrounded'
  BY <1>1, <1>3, StatusKept DEF Shape
<1> QED
  BY <1>1, <1>4, <1>5 DEF Shape

\* A section is sent.
LEMMA SendSectionShape ==
    ASSUME Shape, SendSection
    PROVE  /\ Shape'
           /\ \A r \in Receivers : Free(toRcv[r], Ends) => Free(toRcv'[r], Ends)
           /\ \A r \in Receivers \ Watched : toRcv'[r] = toRcv[r]
<1> USE DEF Shape
<1> DEFINE sent == {<<r, b, "good">> : r \in Receivers, b \in Blocks(section)}
<1>0. section \in Sections /\ section \in Nat
  BY SectionsInFile DEF SendSection, ProxyShape, Sections
<1>1. sent \in SUBSET Datagrams
  BY <1>0, SectionsInFile DEF Datagrams
<1>2. Deliver(sent)
  BY DEF SendSection
<1> HIDE DEF sent
<1>3. /\ losses' \in 0 .. MaxLosses
      /\ udp' \in [Receivers -> SUBSET (AllBlocks \X {"good", "bad"})]
  BY <1>1, <1>2, DeliverShape DEF ProxyShape
<1>4. UNCHANGED rcvVars /\ UNCHANGED <<have, stored>> /\ UNCHANGED toProxy
  BY DEF SendSection, rcvVars
<1>5. Growing
  BY <1>4, SameIsGrowing
<1>6. SendEndRound(Watched, section, 0, NoFrames)
  BY DEF SendSection
<1>7. 0 \in 0 .. MaxRepairRounds
  BY SectionRepairAssumption
<1>8. \A r \in Receivers : NoFrames[r] \in Seq(PeerTaskOrders(r)) /\ NoFrames[r] = <<>>
  BY EmptySeq DEF NoFrames
<1>9. /\ OrderShape'
      /\ \A r \in Receivers : Free(toRcv[r], Ends) => Free(toRcv'[r], Ends)
      /\ \A r \in Receivers \ Watched : toRcv'[r] = toRcv[r]
  BY <1>0, <1>5, <1>6, <1>7, <1>8, EndRoundGiven
<1>10. /\ pc' = "collect" /\ round' = 0 /\ status' = Unreported
       /\ UNCHANGED <<section, result, completed, isolated, abandoned, ready, backfill, task,
                      timeouts>>
  BY DEF SendSection
<1>11. status' \in [Receivers -> Reports] /\ \A r \in Receivers : status'[r].code = "NO_REPORT"
  BY <1>10, NoStatusIsReport DEF Unreported
<1>12. ProxyShape'
  BY <1>0, <1>3, <1>7, <1>10, <1>11 DEF ProxyShape
<1>13. StatusGrounded'
  BY <1>11 DEF StatusGrounded
<1> QED
  BY <1>3, <1>4, <1>5, <1>9, <1>12, <1>13, ReceiverShapeKept, FramesKept

\* isolate_slow_receivers, at the end of a collection.
LEMMA IsolateShape ==
    ASSUME Shape, pc = "collect", Isolate
    PROVE  /\ isolated' \subseteq Receivers /\ backfill' \in [Receivers -> SUBSET AllBlocks]
           /\ SectionCount > 0
<1> USE DEF Shape
<1>1. Slow \subseteq Receivers
  BY DEF Slow, Watched
<1>2. \A r \in Receivers : status[r].missing \in SUBSET AllBlocks
  BY DEF ProxyShape, Reports
<1>3. BackfillAfterIsolation \in [Receivers -> SUBSET AllBlocks]
  BY <1>2 DEF BackfillAfterIsolation, ProxyShape
<1>4. SectionCount > 0
  BY SectionsInFile DEF ProxyShape, Sections
<1> QED
  BY <1>1, <1>3, <1>4 DEF Isolate, ProxyShape

\* A repair round is sent.
LEMMA RepairRoundShape ==
    ASSUME Shape, RepairRound
    PROVE  /\ Shape'
           /\ \A r \in Receivers : Free(toRcv[r], Ends) => Free(toRcv'[r], Ends)
           /\ \A r \in Receivers \ Watched : toRcv'[r] = toRcv[r]
<1> USE DEF Shape
<1> DEFINE plan == Plan
           sent == {<<r, b, "good">> : r \in Receivers, b \in Multicast(MissingAt)}
                   \cup UNION {{<<r, b, "good">> : b \in plan.fallback[r]} : r \in Receivers}
<1>p. pc = "collect" /\ Isolate
  BY DEF RepairRound, CollectionEnds
<1>0. section \in Sections
  BY <1>p DEF ProxyShape
<1>g. /\ \A r \in Receivers : plan.fallback[r] \subseteq AllBlocks
      /\ \A r \in Receivers : PeerTasks(plan)[r] \in Seq(PeerTaskOrders(r))
      /\ \A r \in Receivers \ (Watched \ Slow) : PeerTasks(plan)[r] = <<>>
      /\ Multicast(MissingAt) \subseteq AllBlocks
  BY <1>p, PlanIsGrounded
<1>2. Deliver(sent)
  BY DEF RepairRound
<1>6. SendEndRound(Watched \ Slow, section, round + 1, PeerTasks(plan))
  BY DEF RepairRound
<1> HIDE DEF plan
<1>1. sent \in SUBSET Datagrams
  BY <1>g DEF Datagrams
<1> HIDE DEF sent
<1>3. /\ losses' \in 0 .. MaxLosses
      /\ udp' \in [Receivers -> SUBSET (AllBlocks \X {"good", "bad"})]
  BY <1>1, <1>2, DeliverShape DEF ProxyShape
<1>4. UNCHANGED rcvVars /\ UNCHANGED <<have, stored>> /\ UNCHANGED toProxy
  BY DEF RepairRound, rcvVars
<1>5. Growing
  BY <1>4, SameIsGrowing
<1>7. round + 1 \in 0 .. MaxRepairRounds
  BY SectionRepairAssumption DEF RepairRound, MoreRounds, ProxyShape
<1>9. /\ OrderShape'
      /\ \A r \in Receivers : Free(toRcv[r], Ends) => Free(toRcv'[r], Ends)
      /\ \A r \in Receivers \ (Watched \ Slow) : PeerTasks(plan)[r] = <<>> => toRcv'[r] = toRcv[r]
  <2> DEFINE first == PeerTasks(plan)
             to == Watched \ Slow
             k == round + 1
  <2>1. k \in 0 .. MaxRepairRounds /\ (\A r \in Receivers : first[r] \in Seq(PeerTaskOrders(r)))
        /\ SendEndRound(to, section, k, first)
    BY <1>6, <1>7, <1>g
  <2> HIDE DEF first, to, k
  <2>2. /\ OrderShape'
        /\ \A r \in Receivers : Free(toRcv[r], Ends) => Free(toRcv'[r], Ends)
        /\ \A r \in Receivers \ to : first[r] = <<>> => toRcv'[r] = toRcv[r]
    BY <1>0, <1>5, <2>1, EndRoundGiven
  <2> QED
    BY <2>2 DEF first, to
<1>10. /\ pc' = "collect" /\ round' = round + 1 /\ status' = Unreported
       /\ UNCHANGED <<section, result, completed, abandoned, ready, task>>
       /\ timeouts' \in 0 .. MaxTimeouts
  BY SectionRepairAssumption DEF RepairRound, CollectionEnds, DeadlinePasses, ProxyShape
<1>11. status' \in [Receivers -> Reports] /\ \A r \in Receivers : status'[r].code = "NO_REPORT"
  BY <1>10, NoStatusIsReport DEF Unreported
<1>i. isolated' \subseteq Receivers /\ backfill' \in [Receivers -> SUBSET AllBlocks]
      /\ SectionCount > 0
  BY <1>p, IsolateShape
<1>12. ProxyShape'
  BY <1>0, <1>3, <1>7, <1>10, <1>11, <1>i DEF ProxyShape
<1>13. StatusGrounded'
  BY <1>11 DEF StatusGrounded
<1> QED
  BY <1>3, <1>4, <1>5, <1>9, <1>g, <1>12, <1>13, ReceiverShapeKept, FramesKept

\* The last frame of the transfer is sent to the receivers in `to'.
LEMMA LastOrder ==
    ASSUME OrderShape, Growing, NEW to, NEW f, f.type \in Ends,
           \A r \in Receivers : r \in to => f \in OrdersFor(r),
           toRcv' = [r \in Receivers |-> IF r \in to THEN Append(toRcv[r], f) ELSE toRcv[r]]
    PROVE  /\ OrderShape'
           /\ \A r \in Receivers : r \in to /\ Free(toRcv[r], Ends) => Closed(toRcv'[r], Ends)
<1>1. \A r \in Receivers : OrdersFor(r) \subseteq Orders
  BY DEF OrdersFor
<1>2. \A r \in Receivers : toRcv'[r] \in Seq(OrdersFor(r))
  BY AppendProperties DEF OrderShape
<1>3. \A r \in Receivers : toRcv'[r] \in Seq(OrdersFor(r)')
  BY <1>2, GrowingOrders, SeqMonotonic
<1>4. \A r \in Receivers : toRcv'[r] \in Seq(Orders)
  BY <1>1, <1>2, SeqMonotonic
<1>5. OrderShape'
  BY <1>3, <1>4 DEF OrderShape
<1>6. ASSUME NEW r \in Receivers, r \in to, Free(toRcv[r], Ends)
      PROVE  Closed(toRcv'[r], Ends)
  <2>1. toRcv[r] \in Seq(OrdersFor(r)) /\ toRcv'[r] = Append(toRcv[r], f)
    BY <1>6 DEF OrderShape
  <2> QED
    BY <1>6, <2>1, CloseAppend
<1> QED
  BY <1>5, <1>6

\* TRANSFER_FAILED may be sent to anybody, COMPLETE_ACK to who stored the file.
LEMMA FailedOrder ==
    ASSUME NEW r
    PROVE  Bare("TRANSFER_FAILED") \in OrdersFor(r) /\ Bare("TRANSFER_FAILED").type \in Ends
  BY DEF Bare, OrdersFor, Orders, Ends

LEMMA AckOrder ==
    ASSUME NEW r \in stored
    PROVE  Bare("COMPLETE_ACK") \in OrdersFor(r) /\ Bare("COMPLETE_ACK").type \in Ends
  BY DEF Bare, OrdersFor, Orders, Ends

\* TRANSFER_FAILED to everybody but the receivers in `out'.
LEMMA FailureTold ==
    ASSUME OrderShape, Growing, NEW out,
           toRcv' = [r \in Receivers |-> IF r \in out THEN toRcv[r]
                                         ELSE Append(toRcv[r], Bare("TRANSFER_FAILED"))]
    PROVE  /\ OrderShape'
           /\ \A r \in Receivers : r \notin out /\ Free(toRcv[r], Ends) => Closed(toRcv'[r], Ends)
           /\ \A r \in Receivers : r \in out => toRcv'[r] = toRcv[r]
<1> DEFINE f == Bare("TRANSFER_FAILED")
           to == Receivers \ out
<1>1. /\ f.type \in Ends
      /\ \A r \in Receivers : r \in to => f \in OrdersFor(r)
  BY FailedOrder
<1>2. \A r \in Receivers : r \in to <=> r \notin out
  OBVIOUS
<1> HIDE DEF f
<1>3. toRcv' = [r \in Receivers |-> IF r \in to THEN Append(toRcv[r], f) ELSE toRcv[r]]
  BY DEF f
<1> HIDE DEF to
<1>4. /\ OrderShape'
      /\ \A r \in Receivers : r \in to /\ Free(toRcv[r], Ends) => Closed(toRcv'[r], Ends)
  BY <1>1, <1>3, LastOrder
<1>5. \A r \in Receivers : r \notin to => toRcv'[r] = toRcv[r]
  BY <1>3
<1> QED
  BY <1>2, <1>4, <1>5

\* COMPLETE_ACK to one receiver.
LEMMA ReceiverAcked ==
    ASSUME OrderShape, Growing, NEW r \in Receivers, r \in stored,
           toRcv' = [toRcv EXCEPT ![r] = Append(@, Bare("COMPLETE_ACK"))]
    PROVE  /\ OrderShape'
           /\ Free(toRcv[r], Ends) => Closed(toRcv'[r], Ends)
           /\ \A q \in Receivers : q # r => toRcv'[q] = toRcv[q]
<1> DEFINE f == Bare("COMPLETE_ACK")
           to == {r}
<1>1. /\ f.type \in Ends
      /\ \A q \in Receivers : q \in to => f \in OrdersFor(q)
  BY AckOrder
<1>2. \A q : q \in to <=> q = r
  OBVIOUS
<1>d. toRcv' = [toRcv EXCEPT ![r] = Append(@, f)]
  OBVIOUS
<1> HIDE DEF f, to
<1>3. toRcv' = [q \in Receivers |-> IF q \in to THEN Append(toRcv[q], f) ELSE toRcv[q]]
  BY <1>2, <1>d DEF OrderShape
<1>4. /\ OrderShape'
      /\ \A q \in Receivers : q \in to /\ Free(toRcv[q], Ends) => Closed(toRcv'[q], Ends)
  BY <1>1, <1>3, LastOrder
<1>5. \A q \in Receivers : q \notin to => toRcv'[q] = toRcv[q]
  BY <1>3
<1> QED
  BY <1>2, <1>4, <1>5

\* A section ends, or the section loop: nobody is told.
LEMMA CloseSectionShape ==
    ASSUME Shape, CloseSection
    PROVE  Shape'
<1> USE DEF Shape
<1>1. pc = "collect" /\ Isolate /\ timeouts' \in 0 .. MaxTimeouts
  BY SectionRepairAssumption DEF CloseSection, CollectionEnds, DeadlinePasses, ProxyShape
<1>2. /\ pc' = "section" /\ section' = section + 1
      /\ UNCHANGED <<round, result, completed, abandoned, ready, status, task, toRcv, toProxy,
                     udp, losses>>
      /\ UNCHANGED rcvVars /\ UNCHANGED <<have, stored>>
  BY DEF CloseSection, netVars, rcvVars
<1>3. isolated' \subseteq Receivers /\ backfill' \in [Receivers -> SUBSET AllBlocks]
      /\ SectionCount > 0
  BY <1>1, IsolateShape
<1>4. section + 1 \in 0 .. SectionCount
  BY <1>1, SectionsInFile DEF ProxyShape, Sections
<1>5. ProxyShape'
  BY <1>1, <1>2, <1>3, <1>4 DEF ProxyShape
<1>6. Growing
  BY <1>2, SameIsGrowing
<1>7. ReceiverShape'
  BY <1>2, ReceiverShapeKept DEF ReceiverShape
<1>8. StatusGrounded'
  BY <1>2 DEF StatusGrounded
<1> QED
  BY <1>2, <1>5, <1>6, <1>7, <1>8, OrdersKept, FramesKept

\* The tasks of the backfill are made.
LEMMA TasksMade ==
    ASSUME Shape, pc' = "backfill", isolated' \subseteq Receivers,
           isolated' # {} => SectionCount > 0,
           backfill' \in [Receivers -> SUBSET AllBlocks], NEW out,
           task' = [r \in Receivers |-> IF r \in isolated' \ out THEN "todo" ELSE "done"],
           result' \in {"Success", "Sha256Mismatch", "Failed"}, timeouts' \in 0 .. MaxTimeouts,
           UNCHANGED <<section, round, completed, abandoned, ready, status, toRcv, toProxy, udp,
                       losses>>, UNCHANGED rcvVars
    PROVE  Shape'
<1> USE DEF Shape
<1>1. UNCHANGED <<have, stored>>
  BY DEF rcvVars
<1>2. Growing
  BY <1>1, SameIsGrowing
<1>3. task' \in [Receivers -> {"todo", "waiting", "done"}]
      /\ \A r \in Receivers : task'[r] # "done" => SectionCount > 0
  OBVIOUS
<1>4. ProxyShape'
  BY <1>3 DEF ProxyShape
<1>5. ReceiverShape'
  BY ReceiverShapeKept DEF ReceiverShape
<1>6. StatusGrounded'
  BY DEF StatusGrounded
<1> QED
  BY <1>2, <1>4, <1>5, <1>6, OrdersKept, FramesKept

\* The section loop is over, or the rounds of a section are.
LEMMA SectionsEndShape ==
    ASSUME Shape, SectionsEnd
    PROVE  Shape'
<1>1. /\ pc' = "backfill"
      /\ task' = [r \in Receivers |-> IF r \in isolated \ (completed \cup abandoned)
                                      THEN "todo" ELSE "done"]
      /\ UNCHANGED <<section, round, result, completed, isolated, abandoned, ready, status,
                     backfill, toRcv, toProxy, udp, losses, timeouts>>
      /\ UNCHANGED rcvVars
  BY DEF SectionsEnd, netVars
<1>2. /\ isolated' \subseteq Receivers /\ (isolated' # {} => SectionCount > 0)
      /\ backfill' \in [Receivers -> SUBSET AllBlocks] /\ timeouts' \in 0 .. MaxTimeouts
      /\ result' \in {"Success", "Sha256Mismatch", "Failed"}
  BY <1>1 DEF Shape, ProxyShape
<1>3. task' = [r \in Receivers |-> IF r \in isolated' \ (completed \cup abandoned)
                                   THEN "todo" ELSE "done"]
  BY <1>1
<1> QED
  BY <1>1, <1>2, <1>3, TasksMade

LEMMA RoundsExhaustedShape ==
    ASSUME Shape, RoundsExhausted
    PROVE  Shape'
<1>1. /\ pc' = "backfill" /\ result' = "Failed"
      /\ task' = [r \in Receivers |-> IF r \in isolated' \ (completed \cup abandoned)
                                      THEN "todo" ELSE "done"]
      /\ UNCHANGED <<section, round, completed, abandoned, ready, status, toRcv, toProxy, udp,
                     losses>>
      /\ UNCHANGED rcvVars
  BY DEF RoundsExhausted, netVars
<1>2. pc = "collect" /\ Isolate /\ timeouts' \in 0 .. MaxTimeouts
  BY SectionRepairAssumption DEF Shape, RoundsExhausted, CollectionEnds, DeadlinePasses, ProxyShape
<1>3. isolated' \subseteq Receivers /\ backfill' \in [Receivers -> SUBSET AllBlocks]
      /\ SectionCount > 0
  BY <1>2, IsolateShape
<1> QED
  BY <1>1, <1>2, <1>3, TasksMade

\* The proxy alone moves: the receivers and the orders are as they were.
LEMMA MoveShape ==
    ASSUME Shape, ProxyShape', StatusGrounded',
           UNCHANGED <<toRcv, toProxy, udp>>, UNCHANGED rcvVars
    PROVE  Shape'
<1> USE DEF Shape
<1>1. UNCHANGED <<have, stored>>
  BY DEF rcvVars
<1>2. Growing
  BY <1>1, SameIsGrowing
<1>3. ReceiverShape'
  BY ReceiverShapeKept DEF ReceiverShape
<1> QED
  BY <1>2, <1>3, OrdersKept, FramesKept

\* The barrier opens, or throws.
LEMMA BarrierShape ==
    ASSUME Shape, BarrierOpens \/ BarrierTimeout
    PROVE  Shape'
<1>1. /\ pc' \in {"done", "threw"}
      /\ UNCHANGED <<section, round, result, completed, isolated, abandoned, ready, status,
                     backfill, task, toRcv, toProxy, udp, losses>>
      /\ UNCHANGED rcvVars
  BY DEF BarrierOpens, BarrierTimeout, netVars
<1>2. timeouts' \in 0 .. MaxTimeouts
  BY SectionRepairAssumption DEF BarrierOpens, BarrierTimeout, Shape, ProxyShape
<1>3. ProxyShape'
  BY <1>1, <1>2 DEF Shape, ProxyShape
<1>4. StatusGrounded'
  BY <1>1 DEF StatusGrounded
<1> QED
  BY <1>1, <1>3, <1>4, MoveShape

\* A receiver is given up.
LEMMA BackfillTimeoutShape ==
    ASSUME Shape, NEW r \in Receivers, BackfillTimeout(r)
    PROVE  Shape'
<1>1. /\ abandoned' = abandoned \cup {r} /\ task' = [task EXCEPT ![r] = "done"]
      /\ UNCHANGED <<pc, section, round, result, completed, isolated, ready, status,
                     backfill, toRcv, toProxy, udp, losses>>
      /\ UNCHANGED rcvVars /\ UNCHANGED <<have, stored>>
  BY DEF BackfillTimeout, netVars, rcvVars
<1>2. timeouts' \in 0 .. MaxTimeouts
  BY SectionRepairAssumption DEF BackfillTimeout, Shape, ProxyShape
<1>3. ProxyShape'
  BY <1>1, <1>2 DEF Shape, ProxyShape
<1>4. Growing
  BY <1>1, SameIsGrowing
<1>5. StatusGrounded'
  BY <1>1, <1>4, StatusKept DEF Shape
<1> QED
  BY <1>1, <1>3, <1>5, MoveShape

\* The orders change, the receivers do not.
LEMMA TellShape ==
    ASSUME Shape, ProxyShape', StatusGrounded', OrderShape', FrameShape',
           UNCHANGED udp, UNCHANGED rcvVars
    PROVE  Shape'
<1>1. ReceiverShape'
  BY ReceiverShapeKept DEF Shape, ReceiverShape
<1> QED
  BY <1>1 DEF Shape

\* The two verdicts: a FAILED status in a collection, and the end of the backfill.
LEMMA MismatchShape ==
    ASSUME Shape, CollectMismatch
    PROVE  /\ Shape'
           /\ \A r \in Receivers \ (completed \cup abandoned) :
                 Free(toRcv[r], Ends) => Closed(toRcv'[r], Ends)
           /\ \A r \in completed \cup abandoned : toRcv'[r] = toRcv[r]
<1>1. /\ result' = "Sha256Mismatch" /\ pc' = "ready" /\ ready' = {}
      /\ toRcv' = [r \in Receivers |->
                      IF r \in completed \cup abandoned THEN toRcv[r]
                      ELSE Append(toRcv[r], Bare("TRANSFER_FAILED"))]
      /\ UNCHANGED <<section, round, completed, isolated, abandoned, status, backfill, task,
                     toProxy, udp, losses>>
      /\ UNCHANGED rcvVars /\ UNCHANGED <<have, stored>>
  BY DEF CollectMismatch, rcvVars
<1>2. timeouts' \in 0 .. MaxTimeouts
  BY SectionRepairAssumption DEF CollectMismatch, CollectionEnds, DeadlinePasses, Shape, ProxyShape
<1>3. ProxyShape'
  BY <1>1, <1>2 DEF Shape, ProxyShape
<1>4. Growing
  BY <1>1, SameIsGrowing
<1>5. StatusGrounded'
  BY <1>1 DEF StatusGrounded
<1>6. FrameShape'
  BY <1>1, <1>4, FramesKept DEF Shape
<1> DEFINE out == completed \cup abandoned
<1>7. toRcv' = [r \in Receivers |-> IF r \in out THEN toRcv[r]
                                    ELSE Append(toRcv[r], Bare("TRANSFER_FAILED"))]
  BY <1>1
<1>8. out \subseteq Receivers
  BY DEF Shape, ProxyShape
<1> HIDE DEF out
<1>9. /\ OrderShape'
      /\ \A r \in Receivers : r \notin out /\ Free(toRcv[r], Ends) => Closed(toRcv'[r], Ends)
      /\ \A r \in Receivers : r \in out => toRcv'[r] = toRcv[r]
  BY <1>4, <1>7, FailureTold DEF Shape
<1>10. Shape'
  BY <1>1, <1>3, <1>5, <1>6, <1>9, TellShape
<1> QED
  BY <1>8, <1>9, <1>10 DEF out

\* Verdict is one of the three results of an attempt.
LEMMA VerdictIsResult == Verdict \in {"Success", "Sha256Mismatch", "Failed"}
  BY DEF Verdict

LEMMA BackfillEndsShape ==
    ASSUME Shape, BackfillEnds
    PROVE  /\ Shape'
           /\ \A r \in Receivers \ (completed \cup abandoned) :
                 Free(toRcv[r], Ends) => Closed(toRcv'[r], Ends)
           /\ \A r \in completed \cup abandoned : toRcv'[r] = toRcv[r]
<1>1. /\ result' = Verdict /\ pc' = "ready" /\ ready' = {}
      /\ toRcv' = [r \in Receivers |->
                      IF Verdict = "Success" \/ r \in completed \cup abandoned THEN toRcv[r]
                      ELSE Append(toRcv[r], Bare("TRANSFER_FAILED"))]
      /\ UNCHANGED <<section, round, completed, isolated, abandoned, status, backfill, task,
                     toProxy, udp, losses, timeouts>>
      /\ UNCHANGED rcvVars /\ UNCHANGED <<have, stored>>
  BY DEF BackfillEnds, rcvVars
<1>3. ProxyShape'
  BY <1>1, VerdictIsResult DEF Shape, ProxyShape
<1>4. Growing
  BY <1>1, SameIsGrowing
<1>5. StatusGrounded'
  BY <1>1 DEF StatusGrounded
<1>6. FrameShape'
  BY <1>1, <1>4, FramesKept DEF Shape
<1> DEFINE out == completed \cup abandoned
<1>8. out \subseteq Receivers
  BY DEF Shape, ProxyShape
<1>v. Verdict = "Success" => \A r \in Receivers : r \in out
  BY DEF Verdict, AllCompleted
<1>7. toRcv' = [r \in Receivers |-> IF r \in out THEN toRcv[r]
                                    ELSE Append(toRcv[r], Bare("TRANSFER_FAILED"))]
  <2>1. \A r \in Receivers : (Verdict = "Success" \/ r \in out) <=> r \in out
    BY <1>v
  <2> QED
    BY <1>1, <2>1
<1> HIDE DEF out
<1>9. /\ OrderShape'
      /\ \A r \in Receivers : r \notin out /\ Free(toRcv[r], Ends) => Closed(toRcv'[r], Ends)
      /\ \A r \in Receivers : r \in out => toRcv'[r] = toRcv[r]
  BY <1>4, <1>7, FailureTold DEF Shape
<1>10. Shape'
  BY <1>1, <1>3, <1>5, <1>6, <1>9, TellShape
<1> QED
  BY <1>8, <1>9, <1>10 DEF out

\* The barrier reads a frame.
LEMMA ReadReadyShape ==
    ASSUME Shape, NEW r \in Receivers, ReadReady(r)
    PROVE  Shape'
<1>1. /\ pc = "ready" /\ Pending(toProxy[r])
      /\ toProxy' = [toProxy EXCEPT ![r] = Tail(@)]
      /\ ready' = IF Head(toProxy[r]).type = "RECEIVER_READY" THEN ready \cup {r} ELSE ready
      /\ UNCHANGED <<pc, section, round, result, completed, isolated, abandoned, status,
                     backfill, task, toRcv, udp, losses, timeouts>>
      /\ UNCHANGED rcvVars /\ UNCHANGED <<have, stored>>
  BY DEF ReadReady, rcvVars
<1>2. Growing
  BY <1>1, SameIsGrowing
<1>3. FrameShape'
  BY <1>1, <1>2, FrameRead DEF Shape
<1>4. OrderShape'
  BY <1>1, <1>2, OrdersKept DEF Shape
<1>5. ProxyShape'
  BY <1>1 DEF Shape, ProxyShape
<1>6. StatusGrounded'
  BY <1>1 DEF StatusGrounded
<1> QED
  BY <1>1, <1>3, <1>4, <1>5, <1>6, TellShape

\* A backfill task sends its frames.
LEMMA BackfillStartShape ==
    ASSUME Shape, NEW r \in Receivers, BackfillStart(r)
    PROVE  /\ Shape'
           /\ Free(toRcv[r], Ends) => Free(toRcv'[r], Ends)
           /\ \A q \in Receivers : q # r => toRcv'[q] = toRcv[q]
<1> DEFINE given == BackfillFrames(backfill[r])
           O == {f \in OrdersFor(r) : f.type \notin Ends}
           more == [q \in Receivers |-> IF q = r THEN given ELSE <<>>]
<1>1. /\ pc = "backfill" /\ task[r] = "todo" /\ task' = [task EXCEPT ![r] = "waiting"]
      /\ toRcv' = [toRcv EXCEPT ![r] = @ \o given]
      /\ UNCHANGED <<pc, section, round, result, completed, isolated, abandoned, ready,
                     status, backfill, toProxy, udp, losses, timeouts>>
      /\ UNCHANGED rcvVars /\ UNCHANGED <<have, stored>>
  BY DEF BackfillStart, rcvVars
<1>2. SectionCount > 0 /\ backfill[r] \in SUBSET AllBlocks
  BY <1>1 DEF Shape, ProxyShape
<1>3. given \in Seq(O)
  BY <1>2, BackfillGiven
<1>4. O \subseteq OrdersFor(r) /\ \A f \in O : f.type \notin Ends
  OBVIOUS
<1> HIDE DEF given, O
<1>5. given \in Seq(OrdersFor(r))
  BY <1>3, <1>4, SeqMonotonic
<1>6. \A q \in Receivers : more[q] \in Seq(OrdersFor(q))
  BY <1>5, EmptySeq
<1>7. toRcv' = [q \in Receivers |-> toRcv[q] \o more[q]]
  <2>1. \A q \in Receivers : toRcv[q] \in Seq(OrdersFor(q)) /\ toRcv[q] \o <<>> = toRcv[q]
    BY ConcatEmptySeq DEF Shape, OrderShape
  <2>2. \A q \in Receivers : toRcv'[q] = toRcv[q] \o more[q]
    BY <1>1, <2>1 DEF Shape, OrderShape
  <2>3. toRcv' = [q \in Receivers |-> toRcv'[q]]
    BY <1>1 DEF Shape, OrderShape
  <2> HIDE DEF more
  <2> QED
    BY <2>2, <2>3
<1> HIDE DEF more
<1>8. Growing
  BY <1>1, SameIsGrowing
<1>9. OrderShape'
  BY <1>6, <1>7, <1>8, OrdersGiven DEF Shape
<1>10. FrameShape'
  BY <1>1, <1>8, FramesKept DEF Shape
<1>11. ProxyShape'
  BY <1>1, <1>2 DEF Shape, ProxyShape
<1>12. StatusGrounded'
  BY <1>1 DEF StatusGrounded
<1>13. Shape'
  BY <1>1, <1>9, <1>10, <1>11, <1>12, TellShape
<1>14. ASSUME Free(toRcv[r], Ends)
       PROVE  Free(toRcv'[r], Ends)
  <2>1. toRcv'[r] = toRcv[r] \o given /\ toRcv[r] \in Seq(OrdersFor(r))
    BY <1>1 DEF Shape, OrderShape
  <2> QED
    BY <1>3, <1>4, <1>14, <2>1, FreeConcat
<1>15. \A q \in Receivers : q # r => toRcv'[q] = toRcv[q]
  BY <1>1 DEF Shape, OrderShape
<1> QED
  BY <1>13, <1>14, <1>15

\* A frame the proxy takes for the status of a receiver.
StatusOf(f) == [code |-> f.code, section |-> f.section, round |-> f.round, missing |-> f.missing]

\* It is grounded when the frame was.
LEMMA StatusOfFrame ==
    ASSUME NEW r \in Receivers, NEW f \in FramesFrom(r), f.type = "SECTION_STATUS"
    PROVE  /\ StatusOf(f) \in Reports /\ StatusOf(f).section = f.section
           /\ Grounded(r, StatusOf(f))
<1>1. f \in Frames /\ Grounded(r, f)
  BY DEF FramesFrom
<1>2. /\ f.section \in Sections /\ f.round \in 0 .. MaxRepairRounds
      /\ f.code \in Codes /\ f.missing \in SUBSET AllBlocks
  BY <1>1, FrameFields
<1>3. StatusOf(f) \in Reports
  BY <1>2 DEF StatusOf, Reports
<1>4. Grounded(r, StatusOf(f))
  BY <1>1 DEF StatusOf, Grounded
<1> QED
  BY <1>3, <1>4 DEF StatusOf

\* What a frame leaves in the queue it is read from.
LEMMA SaidRead ==
    ASSUME FrameShape, NEW r \in Receivers, Pending(toProxy[r]),
           toProxy' = [toProxy EXCEPT ![r] = Tail(@)]
    PROVE  /\ \A q \in Receivers : q # r => toProxy'[q] = toProxy[q]
           /\ Free(toProxy[r], Said) => Free(toProxy'[r], Said)
<1>1. toProxy[r] \in Seq(FramesFrom(r)) /\ toProxy[r] # <<>> /\ toProxy'[r] = Tail(toProxy[r])
  BY DEF FrameShape, Pending
<1>2. Free(toProxy[r], Said) => Free(toProxy'[r], Said)
  BY <1>1, FreeRead
<1> QED
  BY <1>2 DEF FrameShape

\* The collection reads a frame: a status is taken for what it is, and a receiver that
\* completes is told so.
LEMMA HandleControlFrameShape ==
    ASSUME Shape, Knowledge, NEW r \in Receivers, HandleControlFrame(r)
    PROVE  /\ Shape'
           /\ Free(toProxy[r], Said) => Free(toProxy'[r], Said)
           /\ \A q \in Receivers : q # r => toProxy'[q] = toProxy[q] /\ toRcv'[q] = toRcv[q]
           /\ \/ completed' = completed /\ toRcv' = toRcv
              \/ /\ completed' = completed \cup {r}
                 /\ Free(toRcv[r], Ends) => Closed(toRcv'[r], Ends)
<1> DEFINE f == Head(toProxy[r])
<1>1. /\ pc = "collect" /\ Pending(toProxy[r])
      /\ toProxy' = [toProxy EXCEPT ![r] = Tail(@)]
      /\ status' = IF Accepts(f) THEN [status EXCEPT ![r] = StatusOf(f)] ELSE status
      /\ UNCHANGED <<pc, section, round, result, isolated, abandoned, ready, backfill, task,
                     udp, losses, timeouts>>
      /\ UNCHANGED rcvVars /\ UNCHANGED <<have, stored>>
  BY DEF HandleControlFrame, rcvVars, StatusOf
<1>2. \/ Confirms(r, f) /\ completed' = completed \cup {r}
                        /\ toRcv' = [toRcv EXCEPT ![r] = Append(@, Bare("COMPLETE_ACK"))]
      \/ completed' = completed /\ toRcv' = toRcv
  BY DEF HandleControlFrame
<1>3. Growing
  BY <1>1, SameIsGrowing
<1>4. FrameShape' /\ f \in FramesFrom(r)
  BY <1>1, <1>3, FrameRead DEF Shape
<1>5. f.type = "RECEIVER_COMPLETE" => r \in stored
  BY <1>1, ReadKeepsQueues DEF Knowledge
<1> HIDE DEF f
<1>6. status' \in [Receivers -> Reports]
  <2>1. CASE Accepts(f)
    <3>1. StatusOf(f) \in Reports
      BY <1>4, <2>1, StatusOfFrame DEF Accepts
    <3> QED
      BY <1>1, <2>1, <3>1 DEF Shape, ProxyShape
  <2>2. CASE ~Accepts(f)
    BY <1>1, <2>2 DEF Shape, ProxyShape
  <2> QED
    BY <2>1, <2>2
<1>7. ProxyShape'
  <2>1. completed' \subseteq Receivers
    BY <1>2 DEF Shape, ProxyShape
  <2> QED
    BY <1>1, <1>6, <2>1 DEF Shape, ProxyShape
<1>8. StatusGrounded'
  <2> SUFFICES ASSUME NEW q \in Receivers, status'[q].code \in {"Missing", "Complete"}
               PROVE  status'[q].section = section /\ Grounded(q, status'[q])
    BY <1>1, <1>3, GrowingOrders DEF StatusGrounded
  <2>1. CASE Accepts(f) /\ q = r
    <3>1. status'[q] = StatusOf(f)
      BY <1>1, <2>1 DEF Shape, ProxyShape
    <3>2. StatusOf(f).section = f.section /\ Grounded(r, StatusOf(f)) /\ f.section = section
      BY <1>4, <2>1, StatusOfFrame DEF Accepts
    <3> QED
      BY <2>1, <3>1, <3>2
  <2>2. CASE ~(Accepts(f) /\ q = r)
    <3>1. status'[q] = status[q]
      BY <1>1, <2>2 DEF Shape, ProxyShape
    <3> QED
      BY <1>1, <3>1 DEF Shape, StatusGrounded
  <2> QED
    BY <2>1, <2>2
<1>9. /\ OrderShape'
      /\ \A q \in Receivers : q # r => toRcv'[q] = toRcv[q]
      /\ \/ completed' = completed /\ toRcv' = toRcv
         \/ /\ completed' = completed \cup {r}
            /\ Free(toRcv[r], Ends) => Closed(toRcv'[r], Ends)
  <2>1. CASE completed' = completed /\ toRcv' = toRcv
    BY <1>3, <2>1, OrdersKept DEF Shape
  <2>2. CASE Confirms(r, f) /\ completed' = completed \cup {r}
                /\ toRcv' = [toRcv EXCEPT ![r] = Append(@, Bare("COMPLETE_ACK"))]
    <3>1. r \in stored
      BY <1>5, <2>2 DEF Confirms
    <3> QED
      BY <1>3, <2>2, <3>1, ReceiverAcked DEF Shape
  <2> QED
    BY <1>2, <2>1, <2>2
<1>10. Shape'
  BY <1>1, <1>4, <1>7, <1>8, <1>9, TellShape
<1> QED
  BY <1>1, <1>9, <1>10, SaidRead DEF Shape

\* A backfill task reads the answer of its receiver.
LEMMA BackfillFrameShape ==
    ASSUME Shape, Inv, NEW r \in Receivers, BackfillFrame(r)
    PROVE  /\ Shape'
           /\ Free(toProxy[r], Said) => Free(toProxy'[r], Said)
           /\ \A q \in Receivers : q # r => toProxy'[q] = toProxy[q] /\ toRcv'[q] = toRcv[q]
           /\ \/ completed' = completed /\ toRcv' = toRcv
              \/ /\ completed' = completed \cup {r}
                 /\ Free(toRcv[r], Ends) => Closed(toRcv'[r], Ends)
<1> DEFINE f == Head(toProxy[r])
<1>1. /\ task[r] = "waiting" /\ Pending(toProxy[r])
      /\ toProxy' = [toProxy EXCEPT ![r] = Tail(@)]
      /\ UNCHANGED <<pc, section, round, result, abandoned, ready, backfill, udp, losses,
                     timeouts>>
      /\ UNCHANGED rcvVars /\ UNCHANGED <<have, stored>>
  BY DEF BackfillFrame, rcvVars
<1>2. \/ /\ f.type = "RECEIVER_COMPLETE"
         /\ completed' = completed \cup {r} /\ isolated' = isolated \ {r}
         /\ toRcv' = [toRcv EXCEPT ![r] = Append(@, Bare("COMPLETE_ACK"))]
         /\ task' = [task EXCEPT ![r] = "done"] /\ status' = status
      \/ /\ f.type = "SECTION_STATUS"
         /\ status' = [status EXCEPT ![r] = StatusOf(f)]
         /\ task' = [task EXCEPT ![r] = "done"]
         /\ completed' = completed /\ isolated' = isolated /\ toRcv' = toRcv
      \/ UNCHANGED <<completed, isolated, toRcv, task, status>>
  <2>1. CASE f.type = "RECEIVER_COMPLETE"
    BY <2>1 DEF BackfillFrame
  <2>2. CASE f.type # "RECEIVER_COMPLETE" /\ f.type = "SECTION_STATUS" /\ f.code = "Failed"
    BY <2>2 DEF BackfillFrame, StatusOf
  <2>3. CASE f.type # "RECEIVER_COMPLETE" /\ ~(f.type = "SECTION_STATUS" /\ f.code = "Failed")
    BY <2>3 DEF BackfillFrame
  <2> QED
    BY <2>1, <2>2, <2>3
<1>3. Growing
  BY <1>1, SameIsGrowing
<1>4. FrameShape' /\ f \in FramesFrom(r)
  BY <1>1, <1>3, FrameRead DEF Shape
<1>5. f.type = "RECEIVER_COMPLETE" => r \in stored
  BY <1>1, ReadKeepsQueues DEF Inv, Knowledge
<1>p. pc = "backfill"
  BY <1>1 DEF Inv, Verdicts
<1> HIDE DEF f
<1>6. status' \in [Receivers -> Reports]
  <2>1. f.type = "SECTION_STATUS" => StatusOf(f) \in Reports
    BY <1>4, StatusOfFrame
  <2> QED
    BY <1>2, <2>1 DEF Shape, ProxyShape
<1>7. ProxyShape'
  <2>1. completed' \subseteq Receivers /\ isolated' \subseteq isolated
    BY <1>2 DEF Shape, ProxyShape
  <2>2. task' \in [Receivers -> {"todo", "waiting", "done"}]
        /\ \A q \in Receivers : task'[q] # "done" => task[q] # "done"
    BY <1>2 DEF Shape, ProxyShape
  <2> QED
    BY <1>1, <1>6, <2>1, <2>2 DEF Shape, ProxyShape
<1>8. StatusGrounded'
  BY <1>1, <1>p DEF StatusGrounded
<1>9. /\ OrderShape'
      /\ \A q \in Receivers : q # r => toRcv'[q] = toRcv[q]
      /\ \/ completed' = completed /\ toRcv' = toRcv
         \/ /\ completed' = completed \cup {r}
            /\ Free(toRcv[r], Ends) => Closed(toRcv'[r], Ends)
  <2>1. CASE completed' = completed /\ toRcv' = toRcv
    BY <1>3, <2>1, OrdersKept DEF Shape
  <2>2. CASE /\ f.type = "RECEIVER_COMPLETE" /\ completed' = completed \cup {r}
             /\ toRcv' = [toRcv EXCEPT ![r] = Append(@, Bare("COMPLETE_ACK"))]
    <3>1. r \in stored
      BY <1>5, <2>2
    <3> QED
      BY <1>3, <2>2, <3>1, ReceiverAcked DEF Shape
  <2> QED
    BY <1>2, <2>1, <2>2
<1>10. Shape'
  BY <1>1, <1>4, <1>7, <1>8, <1>9, TellShape
<1> QED
  BY <1>1, <1>9, <1>10, SaidRead DEF Shape

------------------------------------------------------------------------------
(* How the steps keep the stages *)

\* Nothing that concerns the receiver has changed.
LEMMA StageKept ==
    ASSUME NEW r \in Receivers, Stage(r), Over(r)' <=> Over(r), r \in ready' <=> r \in ready,
           phase'[r] = phase[r], draining'[r] = draining[r],
           toRcv'[r] = toRcv[r], toProxy'[r] = toProxy[r]
    PROVE  Stage(r)'
<1>1. CASE Over(r)
  <2>1. Told(r) \/ Dropped(r) \/ Read(r)
    BY <1>1 DEF Stage
  <2>2. Told(r)' \/ Dropped(r)' \/ Read(r)'
    BY <2>1 DEF Told, Dropped, Read, Free, Closed
  <2> QED
    BY <1>1, <2>2 DEF Stage
<1>2. CASE ~Over(r)
  <2>1. Running(r)
    BY <1>2 DEF Stage
  <2>2. Running(r)'
    BY <2>1 DEF Running, Free
  <2> QED
    BY <1>2, <2>2 DEF Stage
<1> QED
  BY <1>1, <1>2

\* The proxy goes on with the receivers it is not done with.
LEMMA PassageMove ==
    ASSUME Passage, UNCHANGED <<ready, completed, toProxy>>, abandoned \subseteq abandoned',
           UNCHANGED rcvVars,
           pc' \in {"ready", "done", "threw"} <=> pc \in {"ready", "done", "threw"},
           pc' = "done" => Receivers \subseteq abandoned' \cup ready',
           \A r \in Receivers : Over(r) => toRcv'[r] = toRcv[r],
           \A r \in Receivers : Free(toRcv[r], Ends) => Free(toRcv'[r], Ends)
    PROVE  Passage'
<1>1. phase' = phase /\ draining' = draining /\ stored' = stored
  BY DEF rcvVars
<1>2. \A r \in Receivers : Over(r)' <=> Over(r)
  BY DEF Over
<1>3. ASSUME NEW r \in Receivers \ abandoned'
      PROVE  Stage(r)'
  <2>1. Stage(r)
    BY DEF Passage
  <2>2. CASE Over(r)
    BY <1>1, <1>2, <2>1, <2>2, StageKept
  <2>3. CASE ~Over(r)
    <3>1. Running(r)'
      BY <1>1, <2>1, <2>3 DEF Stage, Running, Free
    <3> QED
      BY <1>2, <2>3, <3>1 DEF Stage
  <2> QED
    BY <2>2, <2>3
<1> QED
  BY <1>1, <1>3 DEF Passage

\* The proxy gives its verdict: whoever has not completed is told TRANSFER_FAILED.
LEMMA PassageVerdict ==
    ASSUME Passage, pc \notin {"ready", "done", "threw"}, pc' = "ready", ready' = {},
           UNCHANGED <<completed, abandoned, toProxy>>, UNCHANGED rcvVars,
           \A r \in Receivers \ (completed \cup abandoned) :
              Free(toRcv[r], Ends) => Closed(toRcv'[r], Ends),
           \A r \in completed \cup abandoned : toRcv'[r] = toRcv[r]
    PROVE  Passage'
<1>1. phase' = phase /\ draining' = draining /\ stored' = stored
  BY DEF rcvVars
<1>2. \A r \in Receivers : Over(r)' /\ (Over(r) <=> r \in completed)
  BY DEF Over
<1>3. ASSUME NEW r \in Receivers \ abandoned'
      PROVE  Stage(r)'
  <2>1. Stage(r) /\ r \notin ready /\ r \notin abandoned
    BY DEF Passage
  <2>2. CASE r \in completed
    BY <1>1, <1>2, <2>1, <2>2, StageKept
  <2>3. CASE r \notin completed
    <3>1. Running(r)
      BY <1>2, <2>1, <2>3 DEF Stage
    <3>2. Closed(toRcv'[r], Ends)
      BY <2>1, <2>3, <3>1 DEF Running
    <3>3. Told(r)'
      BY <1>1, <3>1, <3>2 DEF Running, Told, Free
    <3> QED
      BY <1>2, <3>3 DEF Stage
  <2> QED
    BY <2>2, <2>3
<1> QED
  BY <1>1, <1>3 DEF Passage

\* The proxy has read a frame of r, and may have told it COMPLETE_ACK.
LEMMA PassageConfirm ==
    ASSUME Passage, pc \notin {"ready", "done", "threw"}, NEW r \in Receivers,
           r \notin completed \cup abandoned,
           UNCHANGED <<pc, abandoned, ready>>, UNCHANGED rcvVars,
           Free(toProxy[r], Said) => Free(toProxy'[r], Said),
           \A q \in Receivers : q # r => toProxy'[q] = toProxy[q] /\ toRcv'[q] = toRcv[q],
           \/ completed' = completed /\ toRcv' = toRcv
           \/ /\ completed' = completed \cup {r}
              /\ Free(toRcv[r], Ends) => Closed(toRcv'[r], Ends)
    PROVE  Passage'
<1>1. phase' = phase /\ draining' = draining /\ stored' = stored
  BY DEF rcvVars
<1>2. /\ \A q \in Receivers : q # r => (Over(q)' <=> Over(q))
      /\ ~Over(r) /\ (Over(r)' <=> r \in completed')
  BY DEF Over
<1>3. ASSUME NEW q \in Receivers \ abandoned'
      PROVE  Stage(q)'
  <2>1. Stage(q) /\ q \notin ready
    BY DEF Passage
  <2>2. CASE q # r
    BY <1>1, <1>2, <2>1, <2>2, StageKept
  <2>3. CASE q = r
    <3>1. Running(r)
      BY <1>2, <2>1, <2>3 DEF Stage
    <3>2. Free(toProxy'[r], Said) /\ phase'[r] # "idle" /\ r \notin ready'
      BY <1>1, <2>1, <2>3, <3>1 DEF Running
    <3>3. CASE completed' = completed /\ toRcv' = toRcv
      <4>1. Running(r)' /\ ~Over(r)'
        BY <1>2, <3>1, <3>2, <3>3 DEF Running, Free
      <4> QED
        BY <2>3, <4>1 DEF Stage
    <3>4. CASE /\ completed' = completed \cup {r}
               /\ Free(toRcv[r], Ends) => Closed(toRcv'[r], Ends)
      <4>1. Told(r)' /\ Over(r)'
        BY <1>2, <3>1, <3>2, <3>4 DEF Running, Told
      <4> QED
        BY <2>3, <4>1 DEF Stage
    <3> QED
      BY <3>3, <3>4
  <2> QED
    BY <2>2, <2>3
<1> QED
  BY <1>1, <1>3 DEF Passage

\* The barrier reads what a receiver says.
LEMMA PassageReady ==
    ASSUME Shape, Passage, NEW r \in Receivers, ReadReady(r)
    PROVE  Passage'
<1> DEFINE f == Head(toProxy[r])
<1>1. /\ pc = "ready" /\ r \notin abandoned \cup ready /\ Pending(toProxy[r])
      /\ toProxy' = [toProxy EXCEPT ![r] = Tail(@)]
      /\ ready' = IF f.type = "RECEIVER_READY" THEN ready \cup {r} ELSE ready
      /\ UNCHANGED <<pc, completed, abandoned, toRcv>>
      /\ phase' = phase /\ draining' = draining /\ stored' = stored
  BY DEF ReadReady, Barred, rcvVars
<1>2. \A q \in Receivers : Over(q) /\ Over(q)'
  BY <1>1 DEF Over
<1>3. /\ toProxy[r] \in Seq(FramesFrom(r)) /\ toProxy[r] # <<>> /\ toProxy'[r] = Tail(toProxy[r])
      /\ \A q \in Receivers : q # r => toProxy'[q] = toProxy[q]
  BY <1>1 DEF Shape, FrameShape, Pending
<1>s. f.type \in Said <=> f.type = "RECEIVER_READY"
  BY DEF Said
<1>4. Stage(r)'
  <2>1. Told(r) \/ Dropped(r)
    BY <1>1, <1>2 DEF Passage, Stage, Read
  <2>2. CASE Told(r)
    <3>1. f.type \notin Said /\ Free(toProxy'[r], Said)
      BY <1>3, <2>2, FreeRead DEF Told
    <3>2. Told(r)'
      BY <1>1, <1>s, <2>2, <3>1 DEF Told, Closed
    <3> QED
      BY <1>2, <3>2 DEF Stage
  <2>3. CASE Dropped(r)
    <3>1. /\ f.type \in Said => toProxy'[r] = <<>>
          /\ f.type \notin Said => Closed(toProxy'[r], Said)
      BY <1>3, <2>3, ClosedRead DEF Dropped
    <3>2. Dropped(r)' \/ Read(r)'
      BY <1>1, <1>s, <2>3, <3>1 DEF Dropped, Read
    <3> QED
      BY <1>2, <3>2 DEF Stage
  <2> QED
    BY <2>1, <2>2, <2>3
<1>5. ASSUME NEW q \in Receivers \ abandoned'
      PROVE  Stage(q)'
  <2>1. CASE q = r
    BY <1>4, <2>1
  <2>2. CASE q # r
    <3>1. Stage(q) /\ (q \in ready' <=> q \in ready)
      BY <1>1, <2>2 DEF Passage
    <3> QED
      BY <1>1, <1>2, <1>3, <2>2, <3>1, StageKept
  <2> QED
    BY <2>1, <2>2
<1> QED
  BY <1>1, <1>5 DEF Passage

\* What a receiver answers before it drops the transfer is never RECEIVER_READY.
LEMMA AnswerIsFree ==
    ASSUME FrameShape, NEW r \in Receivers, NEW G, NEW frames \in Seq(G),
           \A g \in G : g.type \notin Said, Answer(r, frames)
    PROVE  /\ \A q \in Receivers : q # r => toProxy'[q] = toProxy[q]
           /\ Free(toProxy[r], Said) => Free(toProxy'[r], Said)
<1>1. toProxy'[r] = toProxy[r] \o frames /\ toProxy[r] \in Seq(FramesFrom(r))
  BY DEF Answer, FrameShape
<1>2. Free(toProxy[r], Said) => Free(toProxy'[r], Said)
  BY <1>1, FreeConcat
<1> QED
  BY <1>2 DEF Answer, FrameShape

\* RECEIVER_READY, the last word of a receiver.
LEMMA AnswerCloses ==
    ASSUME FrameShape, NEW r \in Receivers, Answer(r, <<Bare("RECEIVER_READY")>>)
    PROVE  /\ \A q \in Receivers : q # r => toProxy'[q] = toProxy[q]
           /\ Free(toProxy[r], Said) => Closed(toProxy'[r], Said)
<1> DEFINE f == Bare("RECEIVER_READY")
           S == Frames
<1>1. f \in S /\ f.type \in Said
  BY DEF Bare, Said, Frames
<1>2. toProxy'[r] = toProxy[r] \o <<f>> /\ toProxy[r] \in Seq(S)
  BY DEF Answer, FrameShape
<1> HIDE DEF f, S
<1>3. toProxy'[r] = Append(toProxy[r], f)
  BY <1>1, <1>2, AppendIsConcat
<1>4. Free(toProxy[r], Said) => Closed(toProxy'[r], Said)
  BY <1>1, <1>2, <1>3, CloseAppend
<1> QED
  BY <1>4 DEF Answer, FrameShape

\* Only a receiver without the file can finalise badly.
LEMMA StoredStays ==
    ASSUME ReceiverShape, Knowledge, Passage, NEW r \in Receivers, phase[r] # "idle",
           Finalize(r), UNCHANGED have
    PROVE  /\ phase'[r] # "idle" /\ \A q \in Receivers : q # r => phase'[q] = phase[q]
           /\ \A q \in stored' : phase'[q] \in {"awaiting", "idle"}
<1>1. /\ \A q \in Receivers : q # r => phase'[q] = phase[q]
      /\ AllReceived(r) /\ ShaMatches(r) => phase'[r] = "awaiting" /\ stored' = stored \cup {r}
      /\ AllReceived(r) /\ ~ShaMatches(r) => phase'[r] = "shafailed" /\ stored' = stored
      /\ ~AllReceived(r) => phase'[r] = phase[r] /\ stored' = stored
  BY FinalizeShape
<1>2. r \in stored => ShaMatches(r)
  BY DEF Knowledge, StoredIsGood, ShaMatches
<1>3. \A q \in stored : q \in Receivers /\ phase[q] \in {"awaiting", "idle"}
  BY DEF Passage, Knowledge
<1>4. phase'[r] # "idle"
  BY <1>1
<1>5. ASSUME NEW q \in stored'
      PROVE  phase'[q] \in {"awaiting", "idle"}
  <2>1. CASE q # r
    BY <1>1, <1>3, <1>5, <2>1
  <2>2. CASE q = r
    BY <1>1, <1>2, <1>3, <1>5, <2>2
  <2> QED
    BY <2>1, <2>2
<1> QED
  BY <1>1, <1>4, <1>5

\* The frames of finish_drain_and_report and of BACKFILL_END.
LEMMA DrainEndsSays ==
    ASSUME FrameShape, NEW r \in Receivers, RcvDrainEnds(r)
    PROVE  /\ \A q \in Receivers : q # r => toProxy'[q] = toProxy[q]
           /\ Free(toProxy[r], Said) => Free(toProxy'[r], Said)
<1> DEFINE s == active[r]
           k == drainRound[r]
           missing == Blocks(s) \ Received(r)
           m == SectionStatus(s, k, "Missing", missing)
           f == SectionStatus(s, k, "Complete", {})
           g == SectionStatus(s, k, "Failed", {})
           h == Bare("RECEIVER_COMPLETE")
           G == {m, f, g, h}
<1>1. \A x \in G : x.type \notin Said
  BY DEF SectionStatus, Bare, Said
<1>2. CASE missing # {}
  <2>1. Answer(r, <<m>>)
    BY <1>2 DEF RcvDrainEnds
  <2> HIDE DEF m, f, g, h
  <2>2. <<m>> \in Seq(G)
    OBVIOUS
  <2> HIDE DEF G
  <2> QED
    BY <1>1, <2>1, <2>2, AnswerIsFree
<1>3. CASE missing = {}
  <2>1. Answer(r, CASE ~AllReceived(r) -> <<f>>
                    [] ShaMatches(r)   -> <<f, h>>
                    [] OTHER           -> <<g>>)
    BY <1>3 DEF RcvDrainEnds
  <2> HIDE DEF m, f, g, h
  <2>2. <<f>> \in Seq(G) /\ <<f, h>> \in Seq(G) /\ <<g>> \in Seq(G)
    OBVIOUS
  <2> HIDE DEF G
  <2>3. \E frames \in {<<f>>, <<f, h>>, <<g>>} : Answer(r, frames)
    <3>1. CASE ~AllReceived(r)
      <4>1. ~ShaMatches(r)
        BY <3>1 DEF AllReceived, ShaMatches, Received
      <4> QED
        BY <2>1, <3>1, <4>1
    <3>2. CASE AllReceived(r) /\ ShaMatches(r)
      BY <2>1, <3>2
    <3>3. CASE AllReceived(r) /\ ~ShaMatches(r)
      BY <2>1, <3>3
    <3> QED
      BY <3>1, <3>2, <3>3
  <2>4. PICK frames \in {<<f>>, <<f, h>>, <<g>>} : Answer(r, frames)
    BY <2>3
  <2>5. frames \in Seq(G)
    BY <2>2, <2>4
  <2> QED
    BY <1>1, <2>4, <2>5, AnswerIsFree
<1> QED
  BY <1>2, <1>3

LEMMA BackfillEndSays ==
    ASSUME FrameShape, NEW r \in Receivers, RcvBackfillEnd(r)
    PROVE  /\ \A q \in Receivers : q # r => toProxy'[q] = toProxy[q]
           /\ Free(toProxy[r], Said) => Free(toProxy'[r], Said)
<1> DEFINE f == SectionStatus(IF active[r] = None THEN 0 ELSE active[r],
                              IF lastReported[r] = None THEN 0 ELSE lastReported[r],
                              "Failed", {})
           h == Bare("RECEIVER_COMPLETE")
           G == {f, h}
<1>1. \A x \in G : x.type \notin Said
  BY DEF SectionStatus, Bare, Said
<1>2. toProxy' = toProxy \/ Answer(r, <<h>>) \/ Answer(r, <<f>>)
  BY DEF RcvBackfillEnd
<1> HIDE DEF f, h
<1>3. <<f>> \in Seq(G) /\ <<h>> \in Seq(G)
  OBVIOUS
<1> HIDE DEF G
<1>4. CASE Answer(r, <<h>>)
  BY <1>1, <1>3, <1>4, AnswerIsFree
<1>5. CASE Answer(r, <<f>>)
  BY <1>1, <1>3, <1>5, AnswerIsFree
<1>6. CASE toProxy' = toProxy
  BY <1>6
<1> QED
  BY <1>2, <1>4, <1>5, <1>6

\* A step of one receiver leaves the others where they are.
LEMMA PassageReceiver ==
    ASSUME Passage, NEW r \in Receivers, UNCHANGED <<pc, completed, abandoned, ready>>,
           \A q \in Receivers : q # r => /\ toProxy'[q] = toProxy[q] /\ toRcv'[q] = toRcv[q]
                                         /\ phase'[q] = phase[q] /\ draining'[q] = draining[q],
           draining'[r] => phase'[r] # "idle",
           \A q \in stored' : phase'[q] \in {"awaiting", "idle"},
           r \notin abandoned => Stage(r)'
    PROVE  Passage'
<1>1. \A q \in Receivers : Over(q)' <=> Over(q)
  BY DEF Over
<1>2. ASSUME NEW q \in Receivers \ abandoned'
      PROVE  Stage(q)'
  <2>1. CASE q = r
    BY <2>1
  <2>2. CASE q # r
    <3>1. Stage(q)
      BY DEF Passage
    <3> QED
      BY <1>1, <2>2, <3>1, StageKept
  <2> QED
    BY <2>1, <2>2
<1>3. \A q \in Receivers : draining'[q] => phase'[q] # "idle"
  BY DEF Passage
<1> QED
  BY <1>2, <1>3 DEF Passage

\* A receiver that goes on with the transfer.
LEMMA StageGoesOn ==
    ASSUME NEW r \in Receivers, Running(r) \/ Told(r), Stage(r), Over(r)' <=> Over(r),
           r \in ready' <=> r \in ready, phase'[r] # "idle",
           Free(toProxy[r], Said) => Free(toProxy'[r], Said),
           Free(toRcv[r], Ends) => Free(toRcv'[r], Ends),
           Closed(toRcv[r], Ends) => Closed(toRcv'[r], Ends)
    PROVE  Stage(r)'
<1>1. CASE Over(r)
  <2>1. Told(r)
    <3>1. phase[r] # "idle"
      BY DEF Running, Told
    <3> QED
      BY <1>1, <3>1 DEF Stage, Dropped, Read
  <2>2. Told(r)'
    BY <2>1 DEF Told
  <2> QED
    BY <1>1, <2>2 DEF Stage
<1>2. CASE ~Over(r)
  <2>1. Running(r)
    BY <1>2 DEF Stage
  <2>2. Running(r)'
    BY <2>1 DEF Running
  <2> QED
    BY <1>2, <2>2 DEF Stage
<1> QED
  BY <1>1, <1>2

\* A drain ends only at a receiver that still runs.
LEMMA PassageDrainEnds ==
    ASSUME Shape, Knowledge, Passage, NEW r \in Receivers, RcvDrainEnds(r)
    PROVE  Passage'
<1>1. /\ draining[r] /\ draining' = [draining EXCEPT ![r] = FALSE]
      /\ UNCHANGED <<proxyVars, toRcv, have>>
      /\ UNCHANGED <<phase, stored>> \/ Finalize(r)
  BY DEF RcvDrainEnds
<1>2. pc' = pc /\ completed' = completed /\ abandoned' = abandoned /\ ready' = ready
  BY <1>1 DEF proxyVars
<1>3. phase[r] # "idle"
  BY <1>1 DEF Passage
<1>4. /\ phase'[r] # "idle" /\ \A q \in Receivers : q # r => phase'[q] = phase[q]
      /\ \A q \in stored' : phase'[q] \in {"awaiting", "idle"}
  <2>1. CASE UNCHANGED <<phase, stored>>
    BY <1>3, <2>1 DEF Passage
  <2>2. CASE Finalize(r)
    BY <1>1, <1>3, <2>2, StoredStays DEF Shape
  <2> QED
    BY <1>1, <2>1, <2>2
<1>5. /\ \A q \in Receivers : q # r => toProxy'[q] = toProxy[q]
      /\ Free(toProxy[r], Said) => Free(toProxy'[r], Said)
  BY DrainEndsSays DEF Shape
<1>6. ~draining'[r] /\ \A q \in Receivers : q # r => draining'[q] = draining[q]
  BY <1>1 DEF Shape, ReceiverShape
<1>7. ASSUME r \notin abandoned
      PROVE  Stage(r)'
  <2>1. Stage(r)
    BY <1>7 DEF Passage
  <2>2. Running(r) \/ Told(r)
    BY <1>3, <2>1 DEF Stage, Dropped, Read
  <2>3. Over(r)' <=> Over(r)
    BY <1>2 DEF Over
  <2> QED
    BY <1>1, <1>2, <1>4, <1>5, <2>1, <2>2, <2>3, StageGoesOn
<1> QED
  BY <1>1, <1>2, <1>4, <1>5, <1>6, <1>7, PassageReceiver

\* The last order of the transfer is read: the receiver drops it and says so.
LEMMA StageDropped ==
    ASSUME Shape, NEW r \in Receivers, Told(r), Over(r)', RcvReset(r), toRcv'[r] = <<>>,
           UNCHANGED ready
    PROVE  Stage(r)'
<1>1. phase'[r] = "idle" /\ ~draining'[r]
  BY DEF RcvReset, Shape, ReceiverShape
<1>2. Closed(toProxy'[r], Said)
  BY AnswerCloses DEF RcvReset, Told, Shape
<1> QED
  BY <1>1, <1>2 DEF Stage, Dropped, Told

\* A receiver reads one order.
LEMMA PassageControl ==
    ASSUME Shape, Knowledge, Passage, NEW r \in Receivers, RcvControl(r)
    PROVE  Passage'
<1> DEFINE f == Head(toRcv[r])
<1>1. /\ Pending(toRcv[r]) /\ toRcv' = [toRcv EXCEPT ![r] = Tail(@)]
      /\ UNCHANGED proxyVars
  BY DEF RcvControl
<1>2. pc' = pc /\ completed' = completed /\ abandoned' = abandoned /\ ready' = ready
  BY <1>1 DEF proxyVars
<1>3. /\ toRcv[r] \in Seq(OrdersFor(r)) /\ toRcv[r] # <<>> /\ toRcv'[r] = Tail(toRcv[r])
      /\ \A q \in Receivers : q # r => toRcv'[q] = toRcv[q]
  BY <1>1 DEF Shape, OrderShape, Pending
<1>4. f \in OrdersFor(r)
  BY <1>3, HeadTailProperties
<1>5. f \in Orders /\ (f.type = "COMPLETE_ACK" => r \in stored)
  BY <1>4 DEF OrdersFor
<1>6. Over(r)' <=> Over(r)
  BY <1>2 DEF Over
<1>7. r \notin abandoned => Stage(r) /\ (Running(r) \/ Told(r))
  BY <1>3 DEF Passage, Stage, Dropped, Read
<1>8. Running(r) => Free(toRcv'[r], Ends) /\ f.type \notin Ends
  BY <1>3, FreeRead DEF Running
<1>9. Told(r) => /\ f.type \in Ends => toRcv'[r] = <<>>
                 /\ f.type \notin Ends => Closed(toRcv'[r], Ends)
  BY <1>3, ClosedRead DEF Told
\* An order in the middle of the transfer.
<1>10. ASSUME f.type \notin Ends,
              \A q \in Receivers : q # r => /\ toProxy'[q] = toProxy[q]
                                            /\ phase'[q] = phase[q] /\ draining'[q] = draining[q],
              phase[r] # "idle" => phase'[r] # "idle",
              draining'[r] => phase'[r] # "idle",
              Free(toProxy[r], Said) => Free(toProxy'[r], Said),
              \A q \in stored' : phase'[q] \in {"awaiting", "idle"}
       PROVE  Passage'
  <2>1. ASSUME r \notin abandoned
        PROVE  Stage(r)'
    <3>1. Stage(r) /\ (Running(r) \/ Told(r)) /\ phase'[r] # "idle"
      BY <1>7, <1>10, <2>1 DEF Running, Told
    <3>2. Free(toRcv[r], Ends) => Free(toRcv'[r], Ends)
      BY <1>3, FreeRead
    <3>3. Closed(toRcv[r], Ends) => Closed(toRcv'[r], Ends)
      BY <1>3, <1>10, ClosedRead
    <3> QED
      BY <1>2, <1>6, <1>10, <3>1, <3>2, <3>3, StageGoesOn
  <2> QED
    BY <1>2, <1>3, <1>10, <2>1, PassageReceiver
<1>11. CASE f.type = "SECTION_END"
  <2>1. /\ RcvSectionEnd(r, f)
        /\ UNCHANGED <<toProxy, phase, stored>>
    BY <1>11 DEF RcvControl
  <2>2. /\ \A q \in Receivers : q # r => draining'[q] = draining[q]
        /\ draining'[r] => draining[r] \/ phase[r] = "active"
    BY <2>1 DEF RcvSectionEnd, StartsDrain, Shape, ReceiverShape
  <2>3. f.type \notin Ends
    BY <1>11 DEF Ends
  <2>4. /\ \A q \in stored' : phase'[q] \in {"awaiting", "idle"}
        /\ draining'[r] => phase'[r] # "idle"
    BY <2>1, <2>2 DEF Passage
  <2>5. \A q \in Receivers : q # r => /\ toProxy'[q] = toProxy[q]
                                      /\ phase'[q] = phase[q] /\ draining'[q] = draining[q]
    BY <2>1, <2>2
  <2>6. /\ phase[r] # "idle" => phase'[r] # "idle"
        /\ Free(toProxy[r], Said) => Free(toProxy'[r], Said)
    BY <2>1
  <2> HIDE DEF f
  <2> QED
    BY <1>10, <2>3, <2>4, <2>5, <2>6
<1>12. CASE f.type \in {"PEER_REPAIR_TASK", "BACKFILL_DATA"}
  <2>1. UNCHANGED <<toProxy, phase, draining, stored>>
    BY <1>12 DEF RcvControl, rcvVars
  <2>2. f.type \notin Ends
    BY <1>12 DEF Ends
  <2>3. /\ \A q \in stored' : phase'[q] \in {"awaiting", "idle"}
        /\ draining'[r] => phase'[r] # "idle"
    BY <2>1 DEF Passage
  <2>5. \A q \in Receivers : q # r => /\ toProxy'[q] = toProxy[q]
                                      /\ phase'[q] = phase[q] /\ draining'[q] = draining[q]
    BY <2>1
  <2>6. /\ phase[r] # "idle" => phase'[r] # "idle"
        /\ Free(toProxy[r], Said) => Free(toProxy'[r], Said)
    BY <2>1
  <2> HIDE DEF f
  <2> QED
    BY <1>10, <2>2, <2>3, <2>5, <2>6
<1>13. CASE f.type = "BACKFILL_END"
  <2>1. RcvBackfillEnd(r) /\ UNCHANGED <<have, draining>>
    BY <1>13 DEF RcvControl
  <2>2. f.type \notin Ends
    BY <1>13 DEF Ends
  <2>3. /\ \A q \in Receivers : q # r => toProxy'[q] = toProxy[q]
        /\ Free(toProxy[r], Said) => Free(toProxy'[r], Said)
    BY <2>1, BackfillEndSays DEF Shape
  <2>4. /\ \A q \in Receivers : q # r => phase'[q] = phase[q]
        /\ phase[r] # "idle" => phase'[r] # "idle"
        /\ \A q \in stored' : phase'[q] \in {"awaiting", "idle"}
    <3>1. CASE phase[r] = "active"
      <4>1. Finalize(r)
        BY <2>1, <3>1 DEF RcvBackfillEnd
      <4> QED
        BY <2>1, <3>1, <4>1, StoredStays DEF Shape
    <3>2. CASE phase[r] # "active"
      <4>1. UNCHANGED <<phase, stored>>
        BY <2>1, <3>2 DEF RcvBackfillEnd
      <4> QED
        BY <4>1 DEF Passage
    <3> QED
      BY <3>1, <3>2
  <2>5. draining'[r] => phase'[r] # "idle"
    BY <2>1, <2>4 DEF Passage
  <2>6. \A q \in Receivers : q # r => /\ toProxy'[q] = toProxy[q]
                                      /\ phase'[q] = phase[q] /\ draining'[q] = draining[q]
    BY <2>1, <2>3, <2>4
  <2> HIDE DEF f
  <2> QED
    BY <1>10, <2>2, <2>3, <2>4, <2>5, <2>6
<1>14. CASE f.type \in {"COMPLETE_ACK", "TRANSFER_FAILED"}
  <2>1. /\ RcvReset(r) \/ (f.type = "COMPLETE_ACK" /\ phase[r] # "awaiting"
                           /\ UNCHANGED <<phase, draining, toProxy>>)
        /\ UNCHANGED stored
    BY <1>14 DEF RcvControl
  <2>2. f.type \in Ends
    BY <1>14 DEF Ends
  <2>3. CASE RcvReset(r)
    <3>1. /\ phase'[r] = "idle" /\ ~draining'[r]
          /\ \A q \in Receivers : q # r => phase'[q] = phase[q] /\ draining'[q] = draining[q]
      BY <2>3 DEF RcvReset, Shape, ReceiverShape
    <3>2. \A q \in Receivers : q # r => toProxy'[q] = toProxy[q]
      BY <2>3, AnswerCloses DEF RcvReset, Shape
    <3>3. \A q \in stored' : phase'[q] \in {"awaiting", "idle"}
      BY <2>1, <3>1 DEF Passage, Shape, ReceiverShape
    <3>4. ASSUME r \notin abandoned
          PROVE  Stage(r)'
      <4>1. Told(r) /\ toRcv'[r] = <<>>
        BY <1>7, <1>8, <1>9, <2>2, <3>4
      <4>2. Over(r)'
        BY <1>6, <1>7, <1>8, <2>2, <3>4 DEF Stage
      <4> QED
        BY <1>2, <2>3, <4>1, <4>2, StageDropped
    <3> QED
      BY <1>2, <1>3, <3>1, <3>2, <3>3, <3>4, PassageReceiver
  <2>4. CASE /\ f.type = "COMPLETE_ACK" /\ phase[r] # "awaiting"
             /\ UNCHANGED <<phase, draining, toProxy>>
    <3>1. phase[r] = "idle"
      BY <1>5, <2>4 DEF Passage
    <3>2. r \in abandoned
      BY <1>7, <3>1 DEF Running, Told
    <3>3. /\ draining'[r] => phase'[r] # "idle"
          /\ \A q \in stored' : phase'[q] \in {"awaiting", "idle"}
      BY <2>1, <2>4 DEF Passage
    <3> QED
      BY <1>2, <1>3, <2>4, <3>2, <3>3, PassageReceiver
  <2> QED
    BY <2>1, <2>3, <2>4
<1> QED
  BY <1>5, <1>11, <1>12, <1>13, <1>14, OrderFields

------------------------------------------------------------------------------
(* The invariant of the attempt, and what follows from it *)

\* The attempt starts in the invariant, and no step leaves it.
LEMMA ShapeInit == Init => Shape /\ Passage
<1> SUFFICES ASSUME Init PROVE Shape /\ Passage
  OBVIOUS
<1>0. SectionCount \in Nat
  BY SectionsInFile
<1>1. ProxyShape
  <2>1. status \in [Receivers -> Reports]
    BY NoStatusIsReport DEF Init, Unreported
  <2>2. losses \in 0 .. MaxLosses /\ timeouts \in 0 .. MaxTimeouts /\ round \in 0 .. MaxRepairRounds
    BY SectionRepairAssumption DEF Init
  <2>3. task \in [Receivers -> {"todo", "waiting", "done"}] /\ \A r \in Receivers : task[r] = "done"
    BY DEF Init
  <2>4. backfill \in [Receivers -> SUBSET AllBlocks]
    BY DEF Init
  <2>5. section \in 0 .. SectionCount
    BY <1>0 DEF Init
  <2> QED
    BY <2>1, <2>2, <2>3, <2>4, <2>5 DEF Init, ProxyShape
<1>2. ReceiverShape
  <2>1. have \in [Receivers -> [AllBlocks -> Content]]
    BY SectionRepairAssumption DEF Init
  <2>2. drainRound \in [Receivers -> 0 .. MaxRepairRounds]
    BY SectionRepairAssumption DEF Init
  <2>3. udp \in [Receivers -> SUBSET (AllBlocks \X {"good", "bad"})]
    BY DEF Init
  <2> QED
    BY <2>1, <2>2, <2>3 DEF Init, ReceiverShape
<1>3. toRcv = [r \in Receivers |-> <<>>] /\ toProxy = [r \in Receivers |-> <<>>]
  BY DEF Init, NoFrames
<1>4. OrderShape
  BY <1>3, EmptySeq DEF OrderShape
<1>5. FrameShape
  BY <1>3, EmptySeq DEF FrameShape
<1>6. StatusGrounded
  BY DEF Init, StatusGrounded
<1>7. \A r \in Receivers : Stage(r)
  BY <1>3, EmptyIsFree DEF Init, Stage, Over, Running
<1>8. Passage
  BY <1>7 DEF Init, Passage
<1> QED
  BY <1>1, <1>2, <1>4, <1>5, <1>6, <1>8 DEF Shape

LEMMA ShapeStep == Inv /\ Shape /\ Passage /\ [Next]_vars => Shape' /\ Passage'
<1> SUFFICES ASSUME Inv, Shape, Passage, [Next]_vars
             PROVE  Shape' /\ Passage'
  OBVIOUS
<1>i. Knowledge /\ Verdicts
  BY DEF Inv
<1>t. \A r \in Receivers : Over(r) <=> r \in completed \/ pc \in {"ready", "done", "threw"}
  BY DEF Over
<1>1. CASE SendSection
  <2>1. /\ Shape'
        /\ \A r \in Receivers : Free(toRcv[r], Ends) => Free(toRcv'[r], Ends)
        /\ \A r \in Receivers \ Watched : toRcv'[r] = toRcv[r]
    BY <1>1, SendSectionShape
  <2>2. /\ pc = "section" /\ pc' = "collect"
        /\ UNCHANGED <<ready, completed, abandoned, toProxy>> /\ UNCHANGED rcvVars
    BY <1>1 DEF SendSection
  <2>3. \A r \in Receivers : Over(r) => r \notin Watched
    BY <1>t, <2>2 DEF Watched
  <2> QED
    BY <2>1, <2>2, <2>3, PassageMove
<1>2. CASE RepairRound
  <2>1. /\ Shape'
        /\ \A r \in Receivers : Free(toRcv[r], Ends) => Free(toRcv'[r], Ends)
        /\ \A r \in Receivers \ Watched : toRcv'[r] = toRcv[r]
    BY <1>2, RepairRoundShape
  <2>2. /\ pc = "collect" /\ pc' = "collect"
        /\ UNCHANGED <<ready, completed, abandoned, toProxy>> /\ UNCHANGED rcvVars
    BY <1>2 DEF RepairRound, CollectionEnds
  <2>3. \A r \in Receivers : Over(r) => r \notin Watched
    BY <1>t, <2>2 DEF Watched
  <2> QED
    BY <2>1, <2>2, <2>3, PassageMove
<1>3. CASE CloseSection \/ RoundsExhausted \/ SectionsEnd
  <2>1. Shape'
    BY <1>3, CloseSectionShape, RoundsExhaustedShape, SectionsEndShape
  <2>2. /\ pc \in {"section", "collect"} /\ pc' \in {"section", "backfill"}
        /\ UNCHANGED <<ready, completed, abandoned, toProxy, toRcv>> /\ UNCHANGED rcvVars
    BY <1>3 DEF CloseSection, RoundsExhausted, SectionsEnd, CollectionEnds, netVars
  <2> QED
    BY <2>1, <2>2, PassageMove
<1>4. CASE CollectMismatch
  <2>1. /\ Shape'
        /\ \A r \in Receivers \ (completed \cup abandoned) :
              Free(toRcv[r], Ends) => Closed(toRcv'[r], Ends)
        /\ \A r \in completed \cup abandoned : toRcv'[r] = toRcv[r]
    BY <1>4, MismatchShape
  <2>2. /\ pc = "collect" /\ pc' = "ready" /\ ready' = {}
        /\ UNCHANGED <<completed, abandoned, toProxy>> /\ UNCHANGED rcvVars
    BY <1>4 DEF CollectMismatch, CollectionEnds
  <2> QED
    BY <2>1, <2>2, PassageVerdict
<1>5. CASE BackfillEnds
  <2>1. /\ Shape'
        /\ \A r \in Receivers \ (completed \cup abandoned) :
              Free(toRcv[r], Ends) => Closed(toRcv'[r], Ends)
        /\ \A r \in completed \cup abandoned : toRcv'[r] = toRcv[r]
    BY <1>5, BackfillEndsShape
  <2>2. /\ pc = "backfill" /\ pc' = "ready" /\ ready' = {}
        /\ UNCHANGED <<completed, abandoned, toProxy>> /\ UNCHANGED rcvVars
    BY <1>5 DEF BackfillEnds
  <2> QED
    BY <2>1, <2>2, PassageVerdict
<1>6. CASE BarrierOpens \/ BarrierTimeout
  <2>1. Shape'
    BY <1>6, BarrierShape
  <2>2. /\ pc = "ready" /\ pc' \in {"done", "threw"}
        /\ pc' = "done" => Barred = {}
        /\ UNCHANGED <<ready, completed, abandoned, toProxy, toRcv>> /\ UNCHANGED rcvVars
    BY <1>6 DEF BarrierOpens, BarrierTimeout, netVars
  <2>3. pc' = "done" => Receivers \subseteq abandoned' \cup ready'
    BY <2>2 DEF Barred
  <2> QED
    BY <2>1, <2>2, <2>3, PassageMove
<1>7. ASSUME NEW r \in Receivers, HandleControlFrame(r)
      PROVE  Shape' /\ Passage'
  <2>1. /\ Shape'
        /\ Free(toProxy[r], Said) => Free(toProxy'[r], Said)
        /\ \A q \in Receivers : q # r => toProxy'[q] = toProxy[q] /\ toRcv'[q] = toRcv[q]
        /\ \/ completed' = completed /\ toRcv' = toRcv
           \/ /\ completed' = completed \cup {r}
              /\ Free(toRcv[r], Ends) => Closed(toRcv'[r], Ends)
    BY <1>7, <1>i, HandleControlFrameShape
  <2>2. /\ pc = "collect" /\ r \notin completed \cup abandoned
        /\ UNCHANGED <<pc, abandoned, ready>> /\ UNCHANGED rcvVars
    BY <1>7 DEF HandleControlFrame, Watched
  <2> QED
    BY <2>1, <2>2, PassageConfirm
<1>8. ASSUME NEW r \in Receivers, ReadReady(r)
      PROVE  Shape' /\ Passage'
  BY <1>8, ReadReadyShape, PassageReady
<1>9. ASSUME NEW r \in Receivers, BackfillStart(r)
      PROVE  Shape' /\ Passage'
  <2>1. /\ Shape'
        /\ Free(toRcv[r], Ends) => Free(toRcv'[r], Ends)
        /\ \A q \in Receivers : q # r => toRcv'[q] = toRcv[q]
    BY <1>9, BackfillStartShape
  <2>2. /\ pc = "backfill" /\ task[r] = "todo" /\ pc' = pc
        /\ UNCHANGED <<ready, completed, abandoned, toProxy>> /\ UNCHANGED rcvVars
    BY <1>9 DEF BackfillStart
  <2>3. \A q \in Receivers : Over(q) => q # r
    BY <1>i, <1>t, <2>2 DEF Verdicts
  <2>4. \A q \in Receivers : Free(toRcv[q], Ends) => Free(toRcv'[q], Ends)
    <3> TAKE q \in Receivers
    <3>1. CASE q = r
      BY <2>1, <3>1
    <3>2. CASE q # r
      BY <2>1, <3>2
    <3> QED
      BY <3>1, <3>2
  <2> QED
    BY <2>1, <2>2, <2>3, <2>4, PassageMove
<1>10. ASSUME NEW r \in Receivers, BackfillFrame(r)
       PROVE  Shape' /\ Passage'
  <2>1. /\ Shape'
        /\ Free(toProxy[r], Said) => Free(toProxy'[r], Said)
        /\ \A q \in Receivers : q # r => toProxy'[q] = toProxy[q] /\ toRcv'[q] = toRcv[q]
        /\ \/ completed' = completed /\ toRcv' = toRcv
           \/ /\ completed' = completed \cup {r}
              /\ Free(toRcv[r], Ends) => Closed(toRcv'[r], Ends)
    BY <1>10, BackfillFrameShape
  <2>2. /\ task[r] = "waiting"
        /\ UNCHANGED <<pc, abandoned, ready>> /\ UNCHANGED rcvVars
    BY <1>10 DEF BackfillFrame
  <2>3. pc = "backfill" /\ r \notin completed \cup abandoned
    BY <1>i, <2>2 DEF Verdicts
  <2> QED
    BY <2>1, <2>2, <2>3, PassageConfirm
<1>11. ASSUME NEW r \in Receivers, BackfillTimeout(r)
       PROVE  Shape' /\ Passage'
  <2>1. Shape'
    BY <1>11, BackfillTimeoutShape
  <2>2. /\ task[r] = "waiting" /\ pc' = pc /\ abandoned' = abandoned \cup {r}
        /\ UNCHANGED <<ready, completed, toProxy, toRcv>> /\ UNCHANGED rcvVars
    BY <1>11 DEF BackfillTimeout, netVars
  <2>3. pc = "backfill"
    BY <1>i, <2>2 DEF Verdicts
  <2> QED
    BY <2>1, <2>2, <2>3, PassageMove
<1>12. ASSUME NEW r \in Receivers, ReceiverStep(r)
       PROVE  Shape' /\ Passage'
  <2>1. Shape'
    BY <1>12, ReceiverKeepsShape
  <2>2. CASE RcvData(r)
    <3>1. UNCHANGED <<pc, completed, abandoned, ready, toRcv, toProxy, phase, draining, stored>>
      BY <2>2 DEF RcvData, proxyVars
    <3>2. r \notin abandoned => Stage(r)'
      BY <3>1, StageKept DEF Passage, Over
    <3>3. /\ draining'[r] => phase'[r] # "idle"
          /\ \A q \in stored' : phase'[q] \in {"awaiting", "idle"}
      BY <3>1 DEF Passage
    <3> QED
      BY <2>1, <3>1, <3>2, <3>3, PassageReceiver
  <2> QED
    BY <1>12, <1>i, <2>1, <2>2, PassageDrainEnds, PassageControl DEF ReceiverStep
<1>13. CASE UNCHANGED vars
  <2>1. /\ UNCHANGED <<pc, section, round, result, completed, isolated, abandoned, ready, status,
                       backfill, task, toRcv, toProxy, udp, losses, timeouts>>
        /\ UNCHANGED rcvVars /\ UNCHANGED <<have, stored>>
    BY <1>13 DEF vars, proxyVars, netVars, rcvVars
  <2>2. ProxyShape'
    BY <2>1 DEF Shape, ProxyShape
  <2>3. StatusGrounded'
    BY <2>1, SameIsGrowing, StatusKept DEF Shape
  <2>4. Shape'
    BY <2>1, <2>2, <2>3, MoveShape
  <2>5. Passage'
    BY <2>1, PassageMove DEF Passage
  <2> QED
    BY <2>4, <2>5
<1> QED
  BY <1>1, <1>2, <1>3, <1>4, <1>5, <1>6, <1>7, <1>8, <1>9, <1>10, <1>11, <1>12, <1>13
  DEF Next, ProxyStep, BackfillStep, Finished

\* In every reachable state of an attempt every frame on its way is one its reader may
\* act upon, every status is grounded in what its receiver holds, and every receiver is
\* running, told of the end, dropped or read: the control protocol of
\* send_file_attempt against the event loop, one attempt long.
THEOREM AttemptInvariance == Spec => [](Inv /\ Shape /\ Passage)
<1>1. Init => Shape /\ Passage
  BY ShapeInit
<1>2. Inv /\ Shape /\ Passage /\ [Next]_vars => Shape' /\ Passage'
  BY ShapeStep
<1>3. Spec => []Inv
  BY Invariance
<1> QED
  BY <1>1, <1>2, <1>3, PTL DEF Spec

\* TypeOK of SectionRepair: the sections, rounds, blocks and targets that the planner,
\* the queues and the receivers' counters name always exist, and the network never
\* loses more than its bound.
THEOREM TypeCorrect == Spec => []TypeOK
<1>1. Shape => TypeOK
  <2> SUFFICES ASSUME Shape PROVE TypeOK
    OBVIOUS
  <2>1. \A r \in Receivers : /\ Messages(toRcv[r]) \subseteq Orders
                             /\ Messages(toProxy[r]) \subseteq Frames
    <3> TAKE r \in Receivers
    <3>1. toRcv[r] \in Seq(Orders) /\ toProxy[r] \in Seq(Frames)
      BY DEF Shape, OrderShape, FrameShape
    <3> QED
      BY <3>1, ElementOfSeq DEF Messages
  <2> QED
    BY <2>1 DEF TypeOK, Shape, ProxyShape, ReceiverShape, Reports
<1> QED
  BY <1>1, AttemptInvariance, PTL

\* SourcesHoldTheirBlocks of SectionRepair: source_has_block never believes more than a
\* receiver holds, and no PEER_REPAIR_TASK in any queue asks a source for a block it
\* would have to skip, whatever the planner decides and however late the task is read.
THEOREM SourcesAreGrounded == Spec => []SourcesHoldTheirBlocks
<1>1. Shape => SourcesHoldTheirBlocks
  <2> SUFFICES ASSUME Shape, NEW r \in Receivers
               PROVE  /\ pc = "collect" => HasBlock[r] \subseteq Received(r)
                      /\ \A f \in Messages(toRcv[r]) :
                            f.type = "PEER_REPAIR_TASK" => f.blocks \subseteq Received(r)
    BY DEF SourcesHoldTheirBlocks
  <2>1. pc = "collect" => HasBlock[r] \subseteq Received(r)
    BY PlanIsGrounded DEF Shape
  <2>2. Messages(toRcv[r]) \subseteq OrdersFor(r)
    BY ElementOfSeq DEF Shape, OrderShape, Messages
  <2> QED
    BY <2>1, <2>2 DEF OrdersFor
<1> QED
  BY <1>1, AttemptInvariance, PTL

\* BarrierLeavesNothing of SectionRepair: when wait_for_receivers_ready returns, every
\* receiver not given up is idle, its drain is over and its control connection is empty
\* in both directions, so no frame of this file can be mistaken for one of the next.
THEOREM BarrierIsClean == Spec => []BarrierLeavesNothing
<1>1. Passage => BarrierLeavesNothing
  <2> SUFFICES ASSUME Passage, pc = "done", NEW r \in Receivers \ abandoned
               PROVE  /\ phase[r] = "idle" /\ ~draining[r]
                      /\ ~Pending(toRcv[r]) /\ ~Pending(toProxy[r])
    BY DEF BarrierLeavesNothing
  <2>1. Stage(r) /\ Over(r) /\ r \in ready
    BY DEF Passage, Over
  <2>2. Read(r)
    BY <2>1 DEF Stage, Told, Dropped
  <2> QED
    BY <2>2 DEF Read, Pending
<1> QED
  BY <1>1, AttemptInvariance, PTL

------------------------------------------------------------------------------
(* Files of one section *)
(*                                                                         *)
(* With several sections a receiver isolated in one is missing the later   *)
(* ones too, which nobody notes, and a receiver recovered from a whole      *)
(* .part file confirms it in a section that does not wait for that.  With   *)
(* one section neither can happen: what was noted at isolation is all a     *)
(* receiver lacks, and the backfill and the verdict rest on that.           *)

\* The file is one section, and the section count did not wrap around.
OneSection == SectionCount = 1 /\ TotalBlocks + SectionLimit <= Word

\* That section is the file, and it is the last one.
LEMMA OneSectionIsFile ==
    ASSUME OneSection
    PROVE  Sections = {0} /\ Blocks(0) = AllBlocks /\ IsFinal(0)
<1>0. /\ TotalBlocks \in Nat /\ SectionLimit \in Nat /\ SectionLimit > 0
      /\ Word \in Nat /\ Word > 0
  BY SectionRepairAssumption, WordAssumption
<1>1. Sections = {0} /\ IsFinal(0)
  BY DEF OneSection, Sections, IsFinal
<1>2. TotalBlocks # 0
  BY DEF OneSection, SectionCount, SectionCountForBlocks
<1> DEFINE n == TotalBlocks + SectionLimit - 1
<1>3. n \in 0 .. Word - 1 /\ n \in Nat
  BY <1>0 DEF OneSection
<1>4. (n \div SectionLimit) = 1
  <2>1. SectionCount = ((n % Word) \div SectionLimit)
    BY <1>2 DEF SectionCount, SectionCountForBlocks, U32
  <2> HIDE DEF n
  <2>2. (n % Word) = n
    BY <1>0, <1>3
  <2> QED
    BY <2>1, <2>2 DEF OneSection
<1>5. TotalBlocks <= SectionLimit
  <2> HIDE DEF n
  <2>1. n < 2 * SectionLimit
    BY <1>0, <1>3, <1>4
  <2> QED
    BY <1>0, <2>1 DEF n
<1>6. SectionFirstBlock(0, SectionLimit) = 0
  <2>1. 0 * SectionLimit = 0
    BY <1>0
  <2> QED
    BY <1>0, <2>1 DEF SectionFirstBlock, U32
<1>7. SectionBlockCount(TotalBlocks, 0, SectionLimit) = TotalBlocks
  BY <1>0, <1>5, <1>6 DEF SectionBlockCount
<1>8. Blocks(0) = AllBlocks
  BY <1>0, <1>6, <1>7 DEF Blocks, SectionBlocks, AllBlocks
<1> QED
  BY <1>1, <1>8

\* Wrong bytes lie under the bits of some .part file.
Wrong == \E r \in Receivers, b \in AllBlocks : have[r][b] = "bad"

\* Before BACKFILL_END every block is held or still to come.
Covered(queue, held) ==
    \A i \in 1 .. Len(queue) : queue[i].type = "BACKFILL_END" =>
        \A b \in AllBlocks :
            b \in held \/ \E j \in 1 .. i - 1 : /\ queue[j].type = "BACKFILL_DATA"
                                                /\ queue[j].block = b

\* A FAILED report is on its way.
Accused(queue) ==
    \E i \in 1 .. Len(queue) : queue[i].type = "SECTION_STATUS" /\ queue[i].code = "Failed"

\* No backfill ends in this queue.
NoEnd(queue) == Free(queue, {"BACKFILL_END"})

\* The more is held, the better a queue covers the rest.
LEMMA CoveredMore ==
    ASSUME NEW q, NEW H, NEW K, H \subseteq K, Covered(q, H)
    PROVE  Covered(q, K)
  BY DEF Covered

\* Nothing is to cover where no backfill ends.
LEMMA FreeIsCovered ==
    ASSUME NEW q, NoEnd(q), NEW H
    PROVE  Covered(q, H)
  BY DEF Covered, NoEnd, Free

\* Frames that say nothing of a backfill's end are added.
LEMMA CoveredAdd ==
    ASSUME NEW F, NEW q \in Seq(F), NEW p \in Seq(F), NEW H, Covered(q, H), NoEnd(p)
    PROVE  Covered(q \o p, H)
<1> DEFINE l == q \o p
           m == Len(q)
           n == Len(p)
<1>1. /\ Len(l) = m + n /\ m \in Nat /\ n \in Nat
      /\ \A i \in 1 .. m + n : l[i] = IF i <= m THEN q[i] ELSE p[i - m]
  BY ConcatProperties, LenProperties
<1>2. \A i \in 1 .. m : q[i].type = "BACKFILL_END" =>
         \A b \in AllBlocks : b \in H \/ \E j \in 1 .. i - 1 : q[j].type = "BACKFILL_DATA" /\ q[j].block = b
  BY DEF Covered
<1>3. \A i \in 1 .. n : p[i].type # "BACKFILL_END"
  BY DEF NoEnd, Free
<1> HIDE DEF l, m, n
<1>4. SUFFICES ASSUME NEW i \in 1 .. m + n, l[i].type = "BACKFILL_END", NEW b \in AllBlocks, b \notin H
               PROVE  \E j \in 1 .. i - 1 : l[j].type = "BACKFILL_DATA" /\ l[j].block = b
  BY <1>1 DEF Covered, l
<1>5. i \in 1 .. m
  <2>1. CASE i <= m
    BY <1>1, <2>1
  <2>2. CASE ~(i <= m)
    <3>1. i - m \in 1 .. n /\ l[i] = p[i - m]
      BY <1>1, <2>2
    <3> QED
      BY <1>3, <1>4, <3>1
  <2> QED
    BY <2>1, <2>2
<1>6. l[i] = q[i]
  BY <1>1, <1>5
<1>7. PICK j \in 1 .. i - 1 : q[j].type = "BACKFILL_DATA" /\ q[j].block = b
  BY <1>2, <1>4, <1>5, <1>6
<1>8. l[j] = q[j]
  BY <1>1, <1>5
<1> QED
  BY <1>7, <1>8

\* The head is read: when it was a block, that block is held now.
LEMMA CoveredRead ==
    ASSUME NEW F, NEW q \in Seq(F), q # <<>>, NEW H, Covered(q, H), NEW K, H \subseteq K,
           Head(q).type = "BACKFILL_DATA" => Head(q).block \in K
    PROVE  /\ Covered(Tail(q), K)
           /\ Head(q).type = "BACKFILL_END" => AllBlocks \subseteq H
<1> DEFINE t == Tail(q)
           h == Head(q)
           n == Len(q)
<1>1. /\ n \in Nat /\ n > 0 /\ Len(t) = n - 1 /\ h = q[1]
      /\ \A i \in 1 .. n - 1 : t[i] = q[i + 1]
  BY HeadTailProperties, EmptySeq, LenProperties
<1>2. \A i \in 1 .. n : q[i].type = "BACKFILL_END" =>
         \A b \in AllBlocks : b \in H \/ \E j \in 1 .. i - 1 : q[j].type = "BACKFILL_DATA" /\ q[j].block = b
  BY DEF Covered
<1>h. h.type = "BACKFILL_DATA" => h.block \in K
  OBVIOUS
<1> HIDE DEF t, h, n
<1>3. h.type = "BACKFILL_END" => AllBlocks \subseteq H
  <2>1. 1 \in 1 .. n /\ ~\E j \in 1 .. 1 - 1 : TRUE
    BY <1>1
  <2> QED
    BY <1>1, <1>2, <2>1
<1>4. Covered(t, K)
  <2> SUFFICES ASSUME NEW i \in 1 .. n - 1, t[i].type = "BACKFILL_END",
                      NEW b \in AllBlocks, b \notin K
               PROVE  \E j \in 1 .. i - 1 : t[j].type = "BACKFILL_DATA" /\ t[j].block = b
    BY <1>1 DEF Covered
  <2>1. i + 1 \in 1 .. n /\ q[i + 1].type = "BACKFILL_END" /\ b \notin H
    BY <1>1
  <2>2. PICK j \in 1 .. (i + 1) - 1 : q[j].type = "BACKFILL_DATA" /\ q[j].block = b
    BY <1>2, <2>1
  <2>3. j # 1
    BY <1>1, <1>h, <2>2
  <2>4. j - 1 \in 1 .. i - 1 /\ j - 1 \in 1 .. n - 1 /\ (j - 1) + 1 = j
    BY <1>1, <2>2, <2>3
  <2>5. t[j - 1] = q[j]
    <3> DEFINE k == j - 1
    <3>1. k \in 1 .. n - 1 /\ k + 1 = j
      BY <2>4
    <3> HIDE DEF k
    <3>2. t[k] = q[k + 1]
      BY <1>1, <3>1
    <3> QED
      BY <3>1, <3>2 DEF k
  <2> QED
    BY <2>2, <2>4, <2>5
<1> QED
  BY <1>3, <1>4 DEF t, h

\* The frames of a backfill task cover what the receiver lacks.
LEMMA CoveredBackfill ==
    ASSUME NEW q \in Seq(Orders), NEW H, Covered(q, H), NEW blocks \in SUBSET AllBlocks,
           AllBlocks \subseteq H \cup blocks
    PROVE  Covered(q \o BackfillFrames(blocks), H)
<1> DEFINE ordered == InOrder(blocks, <)
           n == Len(ordered)
           data == [i \in 1 .. n |-> [type |-> "BACKFILL_DATA", block |-> ordered[i]]]
           end == Bare("BACKFILL_END")
           D == [type : {"BACKFILL_DATA"}, block : AllBlocks]
<1>1. /\ ordered \in Seq(blocks)
      /\ \A b \in blocks : \E i \in 1 .. n : ordered[i] = b
  <2>1. blocks \in SUBSET Nat /\ IsFiniteSet(blocks)
    BY SectionsInFile, FS_Subset
  <2> QED
    BY <2>1, NumbersInOrder
<1>2. BackfillFrames(blocks) = data \o <<end>>
  BY DEF BackfillFrames
<1>e. end \in Orders
  BY DEF Bare, Orders
<1> HIDE DEF ordered, end
<1>3. n \in Nat /\ \A i \in 1 .. n : ordered[i] \in AllBlocks
  BY <1>1, LenProperties, ElementOfSeq
<1> HIDE DEF n
<1>4. data \in [1 .. n -> D]
  BY <1>3
<1>5. data \in Seq(D) /\ Len(data) = n
  BY <1>3, <1>4, FunctionIsSeq
<1>6. /\ \A i \in 1 .. n : data[i].type = "BACKFILL_DATA"
      /\ \A b \in blocks : \E i \in 1 .. n : data[i].block = b
  BY <1>1 DEF n
<1>7. D \subseteq Orders
  BY DEF Orders
<1> HIDE DEF data, D
<1>8. data \in Seq(Orders)
  BY <1>5, <1>7, SeqMonotonic
<1> DEFINE l == q \o data
           m == Len(q)
<1>9. /\ Len(l) = m + n /\ m \in Nat /\ l \in Seq(Orders)
      /\ \A i \in 1 .. m + n : l[i] = IF i <= m THEN q[i] ELSE data[i - m]
  BY <1>5, <1>8, ConcatProperties, LenProperties
<1>10. NoEnd(data)
  BY <1>5, <1>6 DEF NoEnd, Free
<1>11. Covered(l, H)
  BY <1>8, <1>10, CoveredAdd
<1>12. q \o BackfillFrames(blocks) = Append(l, end)
  <2>1. <<end>> \in Seq(Orders)
    BY <1>e
  <2>2. q \o (data \o <<end>>) = (q \o data) \o <<end>>
    BY <1>8, <2>1, ConcatAssociative
  <2>3. Append(l, end) = l \o <<end>>
    BY <1>e, <1>9, AppendIsConcat
  <2> QED
    BY <1>2, <2>2, <2>3
<1>13. /\ Len(Append(l, end)) = m + n + 1
       /\ \A i \in 1 .. m + n : Append(l, end)[i] = l[i]
  BY <1>e, <1>9, AppendProperties
<1>14. \A b \in AllBlocks : b \in H \/ \E j \in 1 .. m + n : /\ l[j].type = "BACKFILL_DATA"
                                                             /\ l[j].block = b
  <2> SUFFICES ASSUME NEW b \in blocks
               PROVE  \E j \in 1 .. m + n : l[j].type = "BACKFILL_DATA" /\ l[j].block = b
    OBVIOUS
  <2>1. PICK i \in 1 .. n : data[i].block = b
    BY <1>6
  <2>2. m + i \in 1 .. m + n /\ ~(m + i <= m) /\ (m + i) - m = i
    BY <1>3, <1>9
  <2>3. l[m + i] = data[i]
    BY <1>9, <2>2
  <2> QED
    BY <1>6, <2>1, <2>2, <2>3
<1> DEFINE w == Append(l, end)
<1>15. /\ Len(w) = m + n + 1
       /\ \A i \in 1 .. m + n : w[i] = l[i]
  BY <1>13
<1> HIDE DEF w, l, m
<1>16. SUFFICES ASSUME NEW i \in 1 .. m + n + 1, w[i].type = "BACKFILL_END",
                       NEW b \in AllBlocks, b \notin H
                PROVE  \E j \in 1 .. i - 1 : w[j].type = "BACKFILL_DATA" /\ w[j].block = b
  BY <1>12, <1>15 DEF Covered, w
<1>17. CASE i = m + n + 1
  <2>1. i - 1 = m + n
    BY <1>3, <1>9, <1>17
  <2> QED
    BY <1>14, <1>15, <1>16, <2>1
<1>18. CASE i # m + n + 1
  <2>1. i \in 1 .. m + n
    BY <1>3, <1>9, <1>18
  <2>2. PICK j \in 1 .. i - 1 : l[j].type = "BACKFILL_DATA" /\ l[j].block = b
    BY <1>9, <1>11, <1>15, <1>16, <2>1 DEF Covered
  <2>3. j \in 1 .. m + n
    BY <1>3, <1>9, <2>1, <2>2
  <2> QED
    BY <1>15, <2>2, <2>3
<1> QED
  BY <1>17, <1>18

------------------------------------------------------------------------------
(* What the proxy puts into a queue *)

\* The SECTION_END of a round.
EndFrame(s, k) == [type |-> "SECTION_END", section |-> s, round |-> k]

\* What send_end_round adds to the queue of a receiver.
Queued(to, s, k, first, r) ==
    /\ r \in to => toRcv'[r] = toRcv[r] \o Append(first[r], EndFrame(s, k))
    /\ r \notin to => toRcv'[r] = toRcv[r] \o first[r]

\* A round adds the peer tasks of a receiver, then its SECTION_END.
LEMMA RoundAdds ==
    ASSUME OrderShape, NEW s \in Sections, NEW k \in 0 .. MaxRepairRounds, NEW to,
           NEW first, \A q \in Receivers : first[q] \in Seq(PeerTaskOrders(q)),
           SendEndRound(to, s, k, first), NEW r \in Receivers
    PROVE  Queued(to, s, k, first, r)
<1> DEFINE f == EndFrame(s, k)
           x == toRcv[r]
           y == first[r]
           S == Orders
<1>1. f \in S
  BY DEF Orders, EndFrame
<1>2. x \in Seq(S)
  BY DEF OrderShape
<1>3. y \in Seq(S)
  <2>1. PeerTaskOrders(r) \subseteq S
    BY DEF PeerTaskOrders, OrdersFor
  <2> HIDE DEF S
  <2> QED
    BY <2>1, SeqMonotonic
<1>4. toRcv'[r] = x \o y \o (IF r \in to THEN <<f>> ELSE <<>>)
  BY DEF SendEndRound, EndFrame
<1> HIDE DEF f, x, y, S
<1>5. CASE r \in to
  <2>1. <<f>> \in Seq(S)
    BY <1>1
  <2>2. toRcv'[r] = (x \o y) \o <<f>>
    BY <1>4, <1>5
  <2>3. (x \o y) \o <<f>> = x \o (y \o <<f>>)
    BY <1>2, <1>3, <2>1, ConcatAssociative
  <2>4. Append(y, f) = y \o <<f>>
    BY <1>1, <1>3, AppendIsConcat
  <2> QED
    BY <1>5, <2>2, <2>3, <2>4 DEF f, x, y, Queued
<1>6. CASE r \notin to
  <2>1. toRcv'[r] = (x \o y) \o <<>>
    BY <1>4, <1>6
  <2>2. x \o y \in Seq(S)
    BY <1>2, <1>3, ConcatProperties
  <2>3. (x \o y) \o <<>> = x \o y
    BY <2>2, ConcatEmptySeq
  <2> QED
    BY <1>6, <2>1, <2>3 DEF f, x, y, Queued
<1> QED
  BY <1>5, <1>6 DEF Queued

\* What a step of the proxy adds to a queue, a backfill apart: no BACKFILL_END.
Added(r) == \E p \in Seq(Orders) : NoEnd(p) /\ toRcv'[r] = toRcv[r] \o p

\* A queue that stays, a queue that gets the last frame of the transfer, and a round.
LEMMA NothingAdded ==
    ASSUME OrderShape, NEW r \in Receivers, toRcv'[r] = toRcv[r]
    PROVE  Added(r)
<1>1. toRcv[r] \in Seq(Orders) /\ <<>> \in Seq(Orders)
  BY EmptySeq DEF OrderShape
<1>2. toRcv[r] \o <<>> = toRcv[r]
  BY <1>1, ConcatEmptySeq
<1>3. NoEnd(<<>>)
  BY EmptyIsFree DEF NoEnd
<1>4. <<>> \in Seq(Orders) /\ NoEnd(<<>>) /\ toRcv'[r] = toRcv[r] \o <<>>
  BY <1>1, <1>2, <1>3
<1> QED
  BY <1>4 DEF Added

LEMMA OneAdded ==
    ASSUME OrderShape, NEW r \in Receivers, NEW t \in Ends, toRcv'[r] = Append(toRcv[r], Bare(t))
    PROVE  Added(r)
<1> DEFINE f == Bare(t)
           S == Orders
<1>1. f \in S /\ f.type = t /\ t # "BACKFILL_END"
  BY DEF Bare, Orders, Ends
<1>2. toRcv[r] \in Seq(S)
  BY DEF OrderShape
<1>d. toRcv'[r] = Append(toRcv[r], f)
  OBVIOUS
<1> HIDE DEF f, S
<1>3. toRcv'[r] = toRcv[r] \o <<f>>
  BY <1>1, <1>2, <1>d, AppendIsConcat
<1>4. <<f>> \in Seq(S) /\ NoEnd(<<f>>)
  BY <1>1 DEF NoEnd, Free
<1> QED
  BY <1>3, <1>4 DEF Added, S

LEMMA RoundAdded ==
    ASSUME OrderShape, NEW s \in Sections, NEW k \in 0 .. MaxRepairRounds, NEW to,
           NEW first, \A q \in Receivers : first[q] \in Seq(PeerTaskOrders(q)),
           SendEndRound(to, s, k, first), NEW r \in Receivers
    PROVE  Added(r)
<1>4. Queued(to, s, k, first, r)
  BY RoundAdds
<1>3. first[r] \in Seq(PeerTaskOrders(r))
  OBVIOUS
<1> DEFINE f == EndFrame(s, k)
           y == first[r]
           P == PeerTaskOrders(r)
           S == Orders
           T == {"BACKFILL_END"}
<1>1. f \in S /\ f.type \notin T
  BY DEF Orders, EndFrame
<1>2. P \subseteq S /\ \A g \in P : g.type \notin T
  BY DEF PeerTaskOrders, OrdersFor
<1>8. /\ r \in to => toRcv'[r] = toRcv[r] \o Append(y, f)
      /\ r \notin to => toRcv'[r] = toRcv[r] \o y
      /\ y \in Seq(P)
  BY <1>3, <1>4 DEF Queued
<1> HIDE DEF f, y, P, S, T
<1>5. y \in Seq(S)
  BY <1>2, <1>8, SeqMonotonic
<1>6. Free(y, T)
  BY <1>2, <1>8, ElementOfSeq DEF Free
<1>7. Append(y, f) \in Seq(S) /\ Free(Append(y, f), T)
  <2>1. Append(y, f) = y \o <<f>> /\ <<f>> \in Seq({f}) /\ <<f>> \in Seq(S)
    BY <1>1, <1>5, AppendIsConcat
  <2> DEFINE G == {f}
             p == <<f>>
  <2>3. \A g \in G : g.type \notin T
    BY <1>1
  <2>4. p \in Seq(G)
    BY <2>1
  <2> HIDE DEF G, p
  <2>5. Free(y \o p, T)
    BY <1>5, <1>6, <2>3, <2>4, FreeConcat
  <2>2. Free(y \o <<f>>, T)
    BY <2>5 DEF p
  <2> QED
    BY <1>5, <2>1, <2>2, ConcatProperties
<1> QED
  BY <1>5, <1>6, <1>7, <1>8 DEF Added, NoEnd, S, T

\* The proxy puts a BACKFILL_END into a queue only where it starts a backfill.
LEMMA ProxyAdds ==
    ASSUME Shape, NEW r \in Receivers,
           ProxyStep \/ \E q \in Receivers : BackfillFrame(q) \/ BackfillTimeout(q)
    PROVE  Added(r)
<1>o. OrderShape
  BY DEF Shape
<1>n. "COMPLETE_ACK" \in Ends /\ "TRANSFER_FAILED" \in Ends
  BY DEF Ends
<1>1. CASE SendSection
  <2>1. section \in Sections
    BY <1>1, SectionsInFile DEF SendSection, Shape, ProxyShape, Sections
  <2>2. 0 \in 0 .. MaxRepairRounds
    BY SectionRepairAssumption
  <2>3. \A q \in Receivers : NoFrames[q] \in Seq(PeerTaskOrders(q))
    BY EmptySeq DEF NoFrames
  <2>4. SendEndRound(Watched, section, 0, NoFrames)
    BY <1>1 DEF SendSection
  <2> QED
    BY <1>o, <2>1, <2>2, <2>3, <2>4, RoundAdded
<1>2. CASE RepairRound
  <2> DEFINE first == PeerTasks(Plan)
             k == round + 1
             to == Watched \ Slow
  <2>1. pc = "collect" /\ SendEndRound(to, section, k, first)
    BY <1>2 DEF RepairRound, CollectionEnds
  <2>2. section \in Sections
    BY <2>1 DEF Shape, ProxyShape
  <2>3. k \in 0 .. MaxRepairRounds
    BY <1>2, SectionRepairAssumption DEF RepairRound, MoreRounds, Shape, ProxyShape
  <2>4. \A q \in Receivers : first[q] \in Seq(PeerTaskOrders(q))
    BY <2>1, PlanIsGrounded DEF Shape
  <2> HIDE DEF first, k, to
  <2> QED
    BY <1>o, <2>1, <2>2, <2>3, <2>4, RoundAdded
<1>3. CASE CollectMismatch
  <2>1. \/ toRcv'[r] = toRcv[r]
        \/ toRcv'[r] = Append(toRcv[r], Bare("TRANSFER_FAILED"))
    BY <1>3 DEF CollectMismatch
  <2> QED
    BY <1>o, <1>n, <2>1, NothingAdded, OneAdded
<1>4. CASE BackfillEnds
  <2>1. \/ toRcv'[r] = toRcv[r]
        \/ toRcv'[r] = Append(toRcv[r], Bare("TRANSFER_FAILED"))
    BY <1>4 DEF BackfillEnds
  <2> QED
    BY <1>o, <1>n, <2>1, NothingAdded, OneAdded
<1>5. CASE CloseSection \/ RoundsExhausted \/ SectionsEnd \/ BarrierOpens \/ BarrierTimeout
  <2>1. toRcv' = toRcv
    BY <1>5 DEF CloseSection, RoundsExhausted, SectionsEnd, BarrierOpens, BarrierTimeout, netVars
  <2> QED
    BY <1>o, <2>1, NothingAdded
<1>6. ASSUME NEW q \in Receivers, HandleControlFrame(q)
      PROVE  Added(r)
  <2>1. toRcv' = toRcv \/ toRcv' = [toRcv EXCEPT ![q] = Append(@, Bare("COMPLETE_ACK"))]
    BY <1>6 DEF HandleControlFrame
  <2>2. toRcv'[r] = toRcv[r] \/ toRcv'[r] = Append(toRcv[r], Bare("COMPLETE_ACK"))
    BY <1>o, <2>1 DEF OrderShape
  <2> QED
    BY <1>o, <1>n, <2>2, NothingAdded, OneAdded
<1>7. ASSUME NEW q \in Receivers, BackfillFrame(q)
      PROVE  Added(r)
  <2>1. toRcv' = toRcv \/ toRcv' = [toRcv EXCEPT ![q] = Append(@, Bare("COMPLETE_ACK"))]
    BY <1>7 DEF BackfillFrame
  <2>2. toRcv'[r] = toRcv[r] \/ toRcv'[r] = Append(toRcv[r], Bare("COMPLETE_ACK"))
    BY <1>o, <2>1 DEF OrderShape
  <2> QED
    BY <1>o, <1>n, <2>2, NothingAdded, OneAdded
<1>8. ASSUME NEW q \in Receivers, ReadReady(q) \/ BackfillTimeout(q)
      PROVE  Added(r)
  <2>1. toRcv' = toRcv
    BY <1>8 DEF ReadReady, BackfillTimeout, netVars
  <2> QED
    BY <1>o, <2>1, NothingAdded
<1> QED
  BY <1>1, <1>2, <1>3, <1>4, <1>5, <1>6, <1>7, <1>8 DEF ProxyStep

------------------------------------------------------------------------------
(* Blocks stay, and what an isolated receiver lacks is noted *)

\* A block once held is never taken back or overwritten.
Kept ==
    \A r \in Receivers, b \in AllBlocks : have[r][b] # "none" => have'[r][b] = have[r][b]

\* A transfer once decided is never taken up again.
Settled == \A r \in Receivers : phase'[r] = "active" => phase[r] = "active"

\* A block is written only where none was.
LEMMA WriteKeeps ==
    ASSUME ReceiverShape, NEW r \in Receivers, NEW b \in AllBlocks, NEW v \in {"good", "bad"},
           have' = IF Wants(r, b) THEN [have EXCEPT ![r][b] = v] ELSE have
    PROVE  Kept
<1>1. have \in [Receivers -> [AllBlocks -> Content]]
  BY DEF ReceiverShape
<1>2. Wants(r, b) => have[r][b] = "none"
  BY DEF Wants
<1> QED
  BY <1>1, <1>2 DEF Kept

\* Wrong bytes stay, and so do blocks.
LEMMA KeptMeans ==
    ASSUME ReceiverShape, Kept
    PROVE  /\ Wrong => Wrong'
           /\ \A r \in Receivers : Received(r) \subseteq Received(r)'
  BY DEF Kept, Wrong, Received

\* No event of a receiver takes a block back or reopens a transfer.
LEMMA ReceiverKeeps ==
    ASSUME Shape, NEW r \in Receivers, ReceiverStep(r)
    PROVE  Kept /\ Settled
<1>r. ReceiverShape /\ OrderShape
  BY DEF Shape
<1>1. CASE RcvData(r)
  <2>1. PICK d \in udp[r] :
           /\ have' = IF Wants(r, d[1]) THEN [have EXCEPT ![r][d[1]] = d[2]] ELSE have
           /\ phase' = phase
    BY <1>1 DEF RcvData
  <2>2. d[1] \in AllBlocks /\ d[2] \in {"good", "bad"}
    BY <1>r, <2>1 DEF ReceiverShape
  <2> QED
    BY <1>r, <2>1, <2>2, WriteKeeps DEF Settled
<1>2. CASE RcvDrainEnds(r)
  <2>1. have' = have /\ (phase' = phase \/ Finalize(r))
    BY <1>2 DEF RcvDrainEnds
  <2> QED
    BY <1>r, <2>1, FinalizeShape DEF Settled, Kept
<1>3. CASE RcvControl(r)
  <2> DEFINE f == Head(toRcv[r])
  <2>1. CASE f.type = "BACKFILL_DATA"
    <3>1. RcvBackfillData(r, f) /\ phase' = phase
      BY <1>3, <2>1 DEF RcvControl
    <3>2. Pending(toRcv[r]) /\ toRcv[r] \in Seq(Orders)
      BY <1>r, <1>3 DEF RcvControl, OrderShape
    <3>3. f \in Orders
      BY <3>2, HeadTailProperties DEF Pending
    <3>4. f.block \in AllBlocks
      BY <2>1, <3>3, OrderFields
    <3> HIDE DEF f
    <3> QED
      BY <1>r, <3>1, <3>4, WriteKeeps DEF Settled, RcvBackfillData
  <2>2. CASE f.type # "BACKFILL_DATA"
    <3>1. have' = have
      BY <1>3, <2>2 DEF RcvControl, rcvVars
    <3>2. phase' = phase \/ RcvReset(r) \/ Finalize(r)
      BY <1>3, <2>2 DEF RcvControl, rcvVars, RcvBackfillEnd
    <3>3. Settled
      BY <1>r, <3>1, <3>2, FinalizeShape DEF Settled, RcvReset, ReceiverShape
    <3> QED
      BY <3>1, <3>3 DEF Kept
  <2> QED
    BY <2>1, <2>2
<1> QED
  BY <1>1, <1>2, <1>3 DEF ReceiverStep

\* What the proxy does to the receivers: nothing.
LEMMA ProxyKeeps ==
    ASSUME UNCHANGED rcvVars
    PROVE  Kept /\ Settled /\ UNCHANGED <<have, phase>>
  BY DEF rcvVars, Kept, Settled

------------------------------------------------------------------------------

\* What an isolated receiver lacks is noted, and only isolated receivers have tasks.
Noted ==
    /\ \A r \in isolated : AllBlocks \subseteq Received(r) \cup backfill[r]
    /\ \A r \in Receivers : task[r] = "todo" => r \in isolated

\* Whoever is still active has every block, or gets it before its BACKFILL_END.
CoveredAll == \A r \in Receivers : phase[r] = "active" => Covered(toRcv[r], Received(r))

\* Nobody is isolated and no task is given out: what was noted suffices still.
LEMMA NotedKept ==
    ASSUME Shape, Kept, Noted, isolated' \subseteq isolated, backfill' = backfill,
           \A r \in Receivers : task'[r] = "todo" => task[r] = "todo" /\ r \in isolated'
    PROVE  Noted'
<1>1. \A r \in isolated' : AllBlocks \subseteq Received(r)' \cup backfill'[r]
  BY KeptMeans DEF Shape, ProxyShape, Noted
<1> QED
  BY <1>1 DEF Noted

\* isolate_slow_receivers notes all that a receiver lacks when the section is the file.
LEMMA NotedIsolate ==
    ASSUME OneSection, Shape, Noted, pc = "collect", Isolate, UNCHANGED have
    PROVE  \A r \in isolated' : AllBlocks \subseteq Received(r)' \cup backfill'[r]
<1> SUFFICES ASSUME NEW r \in isolated'
             PROVE  AllBlocks \subseteq Received(r)' \cup backfill'[r]
  OBVIOUS
<1>1. r \in Receivers
  BY IsolateShape DEF Isolate
<1>2. Received(r)' = Received(r)
  BY DEF Received
<1>3. backfill'[r] = IF r \in Slow THEN backfill[r] \cup status[r].missing ELSE backfill[r]
  BY <1>1 DEF Isolate, BackfillAfterIsolation
<1>4. CASE r \in Slow
  <2>1. status[r].code = "Missing"
    BY <1>4 DEF Slow
  <2>2. status[r].section = section /\ Grounded(r, status[r])
    BY <1>1, <2>1 DEF Shape, StatusGrounded
  <2>3. section = 0
    BY OneSectionIsFile DEF Shape, ProxyShape
  <2>4. AllBlocks \ status[r].missing \subseteq Received(r)
    BY <2>1, <2>2, <2>3, OneSectionIsFile DEF Grounded
  <2> QED
    BY <1>2, <1>3, <1>4, <2>4
<1>5. CASE r \notin Slow
  <2>1. r \in isolated
    BY <1>5 DEF Isolate
  <2> QED
    BY <1>2, <1>3, <1>5, <2>1 DEF Noted
<1> QED
  BY <1>4, <1>5

\* What a backfill task makes of the frame it reads.
LEMMA BackfillFrameCases ==
    ASSUME NEW r \in Receivers, BackfillFrame(r)
    PROVE  \/ /\ completed' = completed \cup {r} /\ isolated' = isolated \ {r}
              /\ task' = [task EXCEPT ![r] = "done"] /\ status' = status
           \/ /\ Head(toProxy[r]).type = "SECTION_STATUS" /\ Head(toProxy[r]).code = "Failed"
              /\ status' = [status EXCEPT ![r] = StatusOf(Head(toProxy[r]))]
              /\ task' = [task EXCEPT ![r] = "done"] /\ isolated' = isolated
           \/ UNCHANGED <<isolated, task, status>>
<1> DEFINE f == Head(toProxy[r])
<1>1. CASE f.type = "RECEIVER_COMPLETE"
  BY <1>1 DEF BackfillFrame
<1>2. CASE f.type # "RECEIVER_COMPLETE" /\ f.type = "SECTION_STATUS" /\ f.code = "Failed"
  BY <1>2 DEF BackfillFrame, StatusOf
<1>3. CASE f.type # "RECEIVER_COMPLETE" /\ ~(f.type = "SECTION_STATUS" /\ f.code = "Failed")
  BY <1>3 DEF BackfillFrame
<1> QED
  BY <1>1, <1>2, <1>3

\* Every step keeps what was noted sufficient.
LEMMA NotedStep ==
    ASSUME OneSection, Inv, Shape, Noted, [Next]_vars
    PROVE  Noted'
<1>1. CASE CloseSection \/ RepairRound
  <2>1. pc = "collect" /\ Isolate /\ UNCHANGED rcvVars /\ UNCHANGED <<have>> /\ task' = task
    BY <1>1 DEF CloseSection, RepairRound, CollectionEnds, rcvVars
  <2>2. isolated \subseteq isolated'
    BY <2>1 DEF Isolate
  <2> QED
    BY <2>1, <2>2, NotedIsolate DEF Noted
<1>2. CASE RoundsExhausted
  <2>1. pc = "collect" /\ Isolate /\ UNCHANGED rcvVars /\ UNCHANGED <<have>>
        /\ task' = [r \in Receivers |-> IF r \in isolated' \ (completed \cup abandoned)
                                        THEN "todo" ELSE "done"]
    BY <1>2 DEF RoundsExhausted, CollectionEnds, rcvVars
  <2> QED
    BY <2>1, NotedIsolate DEF Noted
<1>3. CASE SectionsEnd
  <2>1. /\ UNCHANGED rcvVars /\ isolated' = isolated /\ backfill' = backfill
        /\ task' = [r \in Receivers |-> IF r \in isolated \ (completed \cup abandoned)
                                        THEN "todo" ELSE "done"]
    BY <1>3 DEF SectionsEnd
  <2>2. \A r \in isolated' : AllBlocks \subseteq Received(r)' \cup backfill'[r]
    BY <2>1, ProxyKeeps, KeptMeans DEF Shape, ProxyShape, Noted
  <2> QED
    BY <2>1, <2>2 DEF Noted
<1>4. CASE SendSection \/ CollectMismatch \/ BackfillEnds \/ BarrierOpens \/ BarrierTimeout
  <2>1. UNCHANGED rcvVars /\ UNCHANGED <<isolated, backfill, task>>
    BY <1>4 DEF SendSection, CollectMismatch, BackfillEnds, BarrierOpens, BarrierTimeout
  <2>2. \A r \in Receivers : task'[r] = "todo" => task[r] = "todo" /\ r \in isolated'
    BY <2>1 DEF Noted
  <2> QED
    BY <2>1, <2>2, ProxyKeeps, NotedKept
<1>5. ASSUME NEW q \in Receivers, HandleControlFrame(q) \/ ReadReady(q)
      PROVE  Noted'
  <2>1. UNCHANGED rcvVars /\ UNCHANGED <<isolated, backfill, task>>
    BY <1>5 DEF HandleControlFrame, ReadReady
  <2>2. \A r \in Receivers : task'[r] = "todo" => task[r] = "todo" /\ r \in isolated'
    BY <2>1 DEF Noted
  <2> QED
    BY <2>1, <2>2, ProxyKeeps, NotedKept
<1>6. ASSUME NEW q \in Receivers, BackfillStart(q) \/ BackfillTimeout(q)
      PROVE  Noted'
  <2>1. /\ UNCHANGED rcvVars /\ UNCHANGED <<isolated, backfill>>
        /\ \E t \in {"waiting", "done"} : task' = [task EXCEPT ![q] = t]
    BY <1>6 DEF BackfillStart, BackfillTimeout
  <2>2. \A r \in Receivers : task'[r] = "todo" => task[r] = "todo" /\ r \in isolated'
    BY <2>1 DEF Noted, Shape, ProxyShape
  <2> QED
    BY <2>1, <2>2, ProxyKeeps, NotedKept
<1>7. ASSUME NEW q \in Receivers, BackfillFrame(q)
      PROVE  Noted'
  <2>1. UNCHANGED rcvVars /\ backfill' = backfill
    BY <1>7 DEF BackfillFrame
  <2>2. \/ isolated' = isolated \ {q} /\ task' = [task EXCEPT ![q] = "done"]
        \/ isolated' = isolated /\ task' = [task EXCEPT ![q] = "done"]
        \/ isolated' = isolated /\ task' = task
    BY <1>7, BackfillFrameCases
  <2>3. \A r \in Receivers : task'[r] = "todo" => task[r] = "todo" /\ r \in isolated'
    BY <2>2 DEF Noted, Shape, ProxyShape
  <2> QED
    BY <2>1, <2>2, <2>3, ProxyKeeps, NotedKept
<1>8. ASSUME NEW q \in Receivers, ReceiverStep(q)
      PROVE  Noted'
  <2>1. UNCHANGED proxyVars
    BY <1>8 DEF ReceiverStep, RcvData, RcvDrainEnds, RcvControl
  <2>2. UNCHANGED <<isolated, backfill, task>>
    BY <2>1 DEF proxyVars
  <2>3. \A r \in Receivers : task'[r] = "todo" => task[r] = "todo" /\ r \in isolated'
    BY <2>2 DEF Noted
  <2> QED
    BY <1>8, <2>2, <2>3, ReceiverKeeps, NotedKept
<1>9. CASE UNCHANGED vars
  <2>1. UNCHANGED rcvVars /\ UNCHANGED <<isolated, backfill, task>>
    BY <1>9 DEF vars, proxyVars
  <2>2. \A r \in Receivers : task'[r] = "todo" => task[r] = "todo" /\ r \in isolated'
    BY <2>1 DEF Noted
  <2> QED
    BY <2>1, <2>2, ProxyKeeps, NotedKept
<1> QED
  BY <1>1, <1>2, <1>3, <1>4, <1>5, <1>6, <1>7, <1>8, <1>9
  DEF Next, ProxyStep, BackfillStep, Finished

------------------------------------------------------------------------------
(* The queue of a receiver covers what it lacks *)

\* Frames are added, blocks stay: what covered a receiver covers it still.
LEMMA CoveredAdded ==
    ASSUME Shape, NEW r \in Receivers, Added(r), UNCHANGED have, Settled,
           phase[r] = "active" => Covered(toRcv[r], Received(r))
    PROVE  phase'[r] = "active" => Covered(toRcv'[r], Received(r)')
<1>1. SUFFICES ASSUME phase'[r] = "active"
               PROVE  Covered(toRcv'[r], Received(r))
  BY DEF Received
<1>2. Covered(toRcv[r], Received(r)) /\ toRcv[r] \in Seq(Orders)
  BY <1>1 DEF Settled, Shape, OrderShape
<1>3. PICK p \in Seq(Orders) : NoEnd(p) /\ toRcv'[r] = toRcv[r] \o p
  BY DEF Added
<1> QED
  BY <1>2, <1>3, CoveredAdd

\* A receiver reads an order.
LEMMA CoveredControl ==
    ASSUME Shape, CoveredAll, NEW q \in Receivers, RcvControl(q), Kept, Settled
    PROVE  CoveredAll'
<1> SUFFICES ASSUME NEW r \in Receivers, phase'[r] = "active"
             PROVE  Covered(toRcv'[r], Received(r)')
  BY DEF CoveredAll
<1>1. /\ Pending(toRcv[q]) /\ toRcv' = [toRcv EXCEPT ![q] = Tail(@)]
      /\ toRcv \in [Receivers -> Seq(Orders)]
  BY DEF RcvControl, Shape, OrderShape
<1>2. Covered(toRcv[r], Received(r)) /\ phase[r] = "active"
  BY DEF CoveredAll, Settled
<1>3. Received(r) \subseteq Received(r)'
  BY KeptMeans DEF Shape
<1>4. CASE r # q
  <2>1. toRcv'[r] = toRcv[r]
    BY <1>1, <1>4
  <2> QED
    BY <1>2, <1>3, <2>1, CoveredMore
<1>5. CASE r = q
  <2> DEFINE f == Head(toRcv[r])
  <2>1. toRcv'[r] = Tail(toRcv[r]) /\ toRcv[r] # <<>> /\ toRcv[r] \in Seq(Orders)
    BY <1>1, <1>5 DEF Pending
  <2>2. f \in Orders
    BY <2>1, HeadTailProperties
  <2>3. f.type = "BACKFILL_DATA" => f.block \in Received(r)'
    <3>1. SUFFICES ASSUME f.type = "BACKFILL_DATA"
                   PROVE  f.block \in Received(r)'
      OBVIOUS
    <3>2. f.block \in AllBlocks
      BY <2>2, <3>1, OrderFields
    <3>3. RcvBackfillData(r, f)
      BY <1>5, <3>1 DEF RcvControl
    <3> HIDE DEF f
    <3>4. have'[r][f.block] # "none"
      BY <1>2, <3>2, <3>3 DEF RcvBackfillData, Wants, Shape, ReceiverShape
    <3> QED
      BY <3>2, <3>4 DEF Received
  <2> QED
    BY <1>2, <1>3, <2>1, <2>3, CoveredRead
<1> QED
  BY <1>4, <1>5

\* Every step keeps the queues covering.
LEMMA CoveredStep ==
    ASSUME Inv, Shape, Noted, CoveredAll, [Next]_vars
    PROVE  CoveredAll'
<1>1. CASE ProxyStep \/ \E q \in Receivers : BackfillFrame(q) \/ BackfillTimeout(q)
  <2>1. UNCHANGED rcvVars
    <3>1. CASE SendSection \/ CollectMismatch \/ CloseSection \/ RepairRound \/ RoundsExhausted
      BY <3>1 DEF SendSection, CollectMismatch, CloseSection, RepairRound, RoundsExhausted
    <3>2. CASE SectionsEnd \/ BackfillEnds \/ BarrierOpens \/ BarrierTimeout
      BY <3>2 DEF SectionsEnd, BackfillEnds, BarrierOpens, BarrierTimeout
    <3>3. CASE \E q \in Receivers : HandleControlFrame(q) \/ ReadReady(q)
      BY <3>3 DEF HandleControlFrame, ReadReady
    <3>4. CASE \E q \in Receivers : BackfillFrame(q) \/ BackfillTimeout(q)
      BY <3>4 DEF BackfillFrame, BackfillTimeout
    <3> QED
      BY <1>1, <3>1, <3>2, <3>3, <3>4 DEF ProxyStep
  <2>2. Kept /\ Settled /\ UNCHANGED have
    BY <2>1, ProxyKeeps
  <2>3. \A r \in Receivers : Added(r)
    BY <1>1, ProxyAdds
  <2> QED
    BY <2>2, <2>3, CoveredAdded DEF CoveredAll
<1>2. ASSUME NEW q \in Receivers, BackfillStart(q)
      PROVE  CoveredAll'
  <2>1. /\ task[q] = "todo" /\ toRcv' = [toRcv EXCEPT ![q] = @ \o BackfillFrames(backfill[q])]
        /\ UNCHANGED rcvVars
    BY <1>2 DEF BackfillStart
  <2>2. Kept /\ Settled /\ UNCHANGED <<have, phase>>
    BY <2>1, ProxyKeeps
  <2>3. \A r \in Receivers : Received(r)' = Received(r)
    BY <2>2 DEF Received
  <2>4. AllBlocks \subseteq Received(q) \cup backfill[q] /\ backfill[q] \in SUBSET AllBlocks
    BY <2>1 DEF Noted, Shape, ProxyShape
  <2>5. toRcv \in [Receivers -> Seq(Orders)]
    BY DEF Shape, OrderShape
  <2>6. phase[q] = "active" => Covered(toRcv'[q], Received(q))
    <3>1. toRcv'[q] = toRcv[q] \o BackfillFrames(backfill[q])
      BY <2>1, <2>5
    <3>2. phase[q] = "active" => Covered(toRcv[q], Received(q))
      BY DEF CoveredAll
    <3>3. toRcv[q] \in Seq(Orders)
      BY <2>5
    <3> QED
      BY <2>4, <3>1, <3>2, <3>3, CoveredBackfill
  <2>7. \A r \in Receivers : r # q => toRcv'[r] = toRcv[r]
    BY <2>1, <2>5
  <2> QED
    BY <2>2, <2>3, <2>6, <2>7 DEF CoveredAll
<1>3. ASSUME NEW q \in Receivers, ReceiverStep(q)
      PROVE  CoveredAll'
  <2>1. Kept /\ Settled
    BY <1>3, ReceiverKeeps
  <2>2. CASE RcvControl(q)
    BY <2>1, <2>2, CoveredControl
  <2>3. CASE RcvData(q) \/ RcvDrainEnds(q)
    <3>1. toRcv' = toRcv
      BY <2>3 DEF RcvData, RcvDrainEnds
    <3>2. \A r \in Receivers : Received(r) \subseteq Received(r)'
      BY <2>1, KeptMeans DEF Shape
    <3> QED
      BY <2>1, <3>1, <3>2, CoveredMore DEF CoveredAll, Settled
  <2> QED
    BY <1>3, <2>2, <2>3 DEF ReceiverStep
<1>4. CASE UNCHANGED vars
  <2>1. UNCHANGED <<toRcv, phase, have>>
    BY <1>4 DEF vars, netVars, rcvVars
  <2> QED
    BY <2>1 DEF CoveredAll, Received
<1> QED
  BY <1>1, <1>2, <1>3, <1>4 DEF Next, BackfillStep, Finished

------------------------------------------------------------------------------
(* Who is charged with wrong bytes *)

\* Reading a queue brings no FAILED report into it.
LEMMA AccusedRead ==
    ASSUME NEW F, NEW q \in Seq(F), q # <<>>
    PROVE  /\ Accused(Tail(q)) => Accused(q)
           /\ Head(q).type = "SECTION_STATUS" /\ Head(q).code = "Failed" => Accused(q)
<1>1. /\ Len(q) \in Nat /\ Len(q) > 0 /\ Len(Tail(q)) = Len(q) - 1 /\ Head(q) = q[1]
      /\ \A i \in 1 .. Len(Tail(q)) : Tail(q)[i] = q[i + 1]
  BY HeadTailProperties, EmptySeq, LenProperties
<1>2. \A i \in 1 .. Len(Tail(q)) : i + 1 \in 1 .. Len(q)
  BY <1>1
<1>3. 1 \in 1 .. Len(q)
  BY <1>1
<1> QED
  BY <1>1, <1>2, <1>3 DEF Accused

\* A FAILED report in a longer queue was there or was just sent.
LEMMA AccusedSaid ==
    ASSUME NEW F, NEW q \in Seq(F), NEW G, NEW p \in Seq(G), Accused(q \o p)
    PROVE  Accused(q) \/ \E g \in G : g.type = "SECTION_STATUS" /\ g.code = "Failed"
<1>1. q \in Seq(F \cup G) /\ p \in Seq(F \cup G)
  BY SeqMonotonic
<1>2. /\ Len(q \o p) = Len(q) + Len(p) /\ Len(q) \in Nat /\ Len(p) \in Nat
      /\ \A i \in 1 .. Len(q) + Len(p) :
            (q \o p)[i] = IF i <= Len(q) THEN q[i] ELSE p[i - Len(q)]
  BY <1>1, ConcatProperties, LenProperties
<1>3. \A i \in 1 .. Len(p) : p[i] \in G
  BY ElementOfSeq
<1>4. PICK i \in 1 .. Len(q) + Len(p) : (q \o p)[i].type = "SECTION_STATUS" /\ (q \o p)[i].code = "Failed"
  BY <1>2 DEF Accused
<1>5. CASE i <= Len(q)
  <2>1. i \in 1 .. Len(q) /\ (q \o p)[i] = q[i]
    BY <1>2, <1>5
  <2> QED
    BY <1>4, <2>1 DEF Accused
<1>6. CASE ~(i <= Len(q))
  <2>1. i - Len(q) \in 1 .. Len(p) /\ (q \o p)[i] = p[i - Len(q)]
    BY <1>2, <1>6
  <2> QED
    BY <1>3, <1>4, <2>1
<1> QED
  BY <1>5, <1>6

\* A whole file whose digest does not match has a wrong byte.
LEMMA BadDigest ==
    ASSUME ReceiverShape, NEW r \in Receivers, AllReceived(r), ~ShaMatches(r)
    PROVE  Wrong
  BY DEF ReceiverShape, Content, AllReceived, ShaMatches, Received, Wrong

\* FAILED is on its way only when wrong bytes are there.
AccusedAll == \A r \in Receivers : Accused(toProxy[r]) => Wrong

\* A receiver says something; FAILED it says only when wrong bytes are there.
LEMMA AccusedAnswer ==
    ASSUME Shape, AccusedAll, NEW r \in Receivers, NEW frames, Answer(r, frames),
           NEW G, frames \in Seq(G), Kept,
           \A g \in G : g.type = "SECTION_STATUS" /\ g.code = "Failed" => Wrong
    PROVE  AccusedAll'
<1>1. /\ toProxy' = [toProxy EXCEPT ![r] = toProxy[r] \o frames]
      /\ toProxy \in [Receivers -> Seq(Frames)]
  BY DEF Answer, Shape, FrameShape
<1>2. Wrong => Wrong'
  BY KeptMeans DEF Shape
<1>3. SUFFICES ASSUME NEW q \in Receivers, Accused(toProxy'[q])
               PROVE  Wrong
  BY <1>2 DEF AccusedAll
<1>4. CASE q = r
  <2>1. toProxy'[q] = toProxy[q] \o frames
    BY <1>1, <1>4
  <2>2. Accused(toProxy[q]) \/ \E g \in G : g.type = "SECTION_STATUS" /\ g.code = "Failed"
    BY <1>1, <1>3, <2>1, AccusedSaid
  <2> QED
    BY <2>2 DEF AccusedAll
<1>5. CASE q # r
  <2>1. toProxy'[q] = toProxy[q]
    BY <1>1, <1>5
  <2> QED
    BY <1>3, <2>1 DEF AccusedAll
<1> QED
  BY <1>4, <1>5

\* One frame, or two, that accuse nobody without reason.
LEMMA AccusedOne ==
    ASSUME Shape, AccusedAll, NEW r \in Receivers, NEW f, Answer(r, <<f>>), Kept,
           f.type = "SECTION_STATUS" /\ f.code = "Failed" => Wrong
    PROVE  AccusedAll'
<1> DEFINE G == {f}
           p == <<f>>
<1>1. p \in Seq(G) /\ Answer(r, p)
  OBVIOUS
<1>2. \A g \in G : g.type = "SECTION_STATUS" /\ g.code = "Failed" => Wrong
  OBVIOUS
<1> HIDE DEF G, p
<1> QED
  BY <1>1, <1>2, AccusedAnswer

LEMMA AccusedTwo ==
    ASSUME Shape, AccusedAll, NEW r \in Receivers, NEW f, NEW h, Answer(r, <<f, h>>), Kept,
           f.code # "Failed", h.type # "SECTION_STATUS"
    PROVE  AccusedAll'
<1> DEFINE G == {f, h}
           p == <<f, h>>
<1>1. p \in Seq(G) /\ Answer(r, p)
  OBVIOUS
<1>2. \A g \in G : g.type = "SECTION_STATUS" /\ g.code = "Failed" => Wrong
  OBVIOUS
<1> HIDE DEF G, p
<1> QED
  BY <1>1, <1>2, AccusedAnswer

\* finish_drain_and_report says FAILED only of a whole file with wrong bytes.
LEMMA AccusedDrainEnds ==
    ASSUME Shape, AccusedAll, NEW r \in Receivers, RcvDrainEnds(r)
    PROVE  AccusedAll'
<1> DEFINE s == active[r]
           k == drainRound[r]
           missing == Blocks(s) \ Received(r)
           report(code) == SectionStatus(s, k, code, {})
<1>k. Kept
  BY DEF RcvDrainEnds, Kept
<1>1. CASE missing # {}
  <2> DEFINE f == SectionStatus(s, k, "Missing", missing)
  <2>1. Answer(r, <<f>>)
    BY <1>1 DEF RcvDrainEnds
  <2>2. f.code # "Failed"
    BY DEF SectionStatus
  <2> HIDE DEF f
  <2> QED
    BY <1>k, <2>1, <2>2, AccusedOne
<1>2. CASE missing = {}
  <2> DEFINE f == report("Complete")
             g == report("Failed")
             h == Bare("RECEIVER_COMPLETE")
  <2>1. Answer(r, CASE ~AllReceived(r) -> <<f>>
                    [] ShaMatches(r)   -> <<f, h>>
                    [] OTHER           -> <<g>>)
    BY <1>2 DEF RcvDrainEnds
  <2>2. f.code # "Failed" /\ h.type # "SECTION_STATUS"
    BY DEF SectionStatus, Bare
  <2> HIDE DEF f, g, h
  <2>3. CASE ~AllReceived(r)
    <3>0. ~ShaMatches(r)
      BY <2>3 DEF AllReceived, ShaMatches, Received
    <3>1. Answer(r, <<f>>)
      BY <2>1, <2>3, <3>0
    <3> QED
      BY <1>k, <2>2, <3>1, AccusedOne
  <2>4. CASE AllReceived(r) /\ ShaMatches(r)
    <3>1. Answer(r, <<f, h>>)
      BY <2>1, <2>4
    <3> QED
      BY <1>k, <2>2, <3>1, AccusedTwo
  <2>5. CASE AllReceived(r) /\ ~ShaMatches(r)
    <3>1. Answer(r, <<g>>)
      BY <2>1, <2>5
    <3>2. Wrong
      BY <2>5, BadDigest DEF Shape
    <3> QED
      BY <1>k, <3>1, <3>2, AccusedOne
  <2> QED
    BY <2>3, <2>4, <2>5
<1> QED
  BY <1>1, <1>2

\* BACKFILL_END is read when every block of the file is there.
LEMMA CoveredReadEnd ==
    ASSUME NEW F, NEW q \in Seq(F), q # <<>>, NEW H, Covered(q, H),
           Head(q).type = "BACKFILL_END"
    PROVE  AllBlocks \subseteq H
<1>1. Head(q).type # "BACKFILL_DATA"
  OBVIOUS
<1> QED
  BY <1>1, CoveredRead

\* BACKFILL_END finds a whole file, so its FAILED means wrong bytes too.
LEMMA AccusedControl ==
    ASSUME Shape, CoveredAll, AccusedAll, NEW r \in Receivers, RcvControl(r), Kept
    PROVE  AccusedAll'
<1> DEFINE f == Head(toRcv[r])
<1>w. Wrong => Wrong'
  BY KeptMeans DEF Shape
<1>o. f \in Orders /\ toRcv[r] # <<>> /\ toRcv[r] \in Seq(Orders)
  BY HeadTailProperties DEF RcvControl, Pending, Shape, OrderShape
<1>1. CASE UNCHANGED toProxy
  BY <1>1, <1>w DEF AccusedAll
<1>2. CASE RcvReset(r)
  <2> DEFINE g == Bare("RECEIVER_READY")
  <2>1. Answer(r, <<g>>) /\ g.type # "SECTION_STATUS"
    BY <1>2 DEF RcvReset, Bare
  <2> HIDE DEF g
  <2> QED
    BY <2>1, AccusedOne
<1>3. CASE f.type = "BACKFILL_END" /\ phase[r] = "active"
  <2>1. RcvBackfillEnd(r)
    BY <1>3 DEF RcvControl
  <2>2. CASE AllReceived(r) /\ ShaMatches(r)
    <3> DEFINE g == Bare("RECEIVER_COMPLETE")
    <3>1. Answer(r, <<g>>) /\ g.type # "SECTION_STATUS"
      BY <1>3, <2>1, <2>2 DEF RcvBackfillEnd, Bare
    <3> HIDE DEF g
    <3> QED
      BY <3>1, AccusedOne
  <2>3. CASE ~(AllReceived(r) /\ ShaMatches(r))
    <3>1. Covered(toRcv[r], Received(r))
      BY <1>3 DEF CoveredAll
    <3>2. AllBlocks \subseteq Received(r)
      BY <1>o, <1>3, <3>1, CoveredReadEnd
    <3>3. AllReceived(r)
      BY <3>2 DEF AllReceived, Received
    <3>4. Wrong
      BY <2>3, <3>3, BadDigest DEF Shape
    <3> DEFINE g == SectionStatus(IF active[r] = None THEN 0 ELSE active[r],
                                  IF lastReported[r] = None THEN 0 ELSE lastReported[r],
                                  "Failed", {})
    <3>5. Answer(r, <<g>>)
      BY <1>3, <2>1, <2>3 DEF RcvBackfillEnd
    <3> HIDE DEF g
    <3> QED
      BY <3>4, <3>5, AccusedOne
  <2> QED
    BY <2>2, <2>3
<1>4. UNCHANGED toProxy \/ RcvReset(r) \/ (f.type = "BACKFILL_END" /\ phase[r] = "active")
  BY DEF RcvControl, RcvBackfillEnd
<1> QED
  BY <1>1, <1>2, <1>3, <1>4

------------------------------------------------------------------------------
(* The proxy's picture of wrong bytes *)

\* A FAILED status is charged to wrong bytes, in the proxy's picture and in its verdict.
ChargedAll ==
    /\ \A r \in Receivers : status[r].code = "Failed" => Wrong
    /\ result = "Sha256Mismatch" => Wrong

\* The proxy reads a frame.
LEMMA AccusedByFrame ==
    ASSUME Shape, AccusedAll, NEW r \in Receivers, Pending(toProxy[r]),
           toProxy' = [toProxy EXCEPT ![r] = Tail(@)], UNCHANGED have
    PROVE  /\ AccusedAll'
           /\ Head(toProxy[r]).type = "SECTION_STATUS" /\ Head(toProxy[r]).code = "Failed" => Wrong
<1>1. toProxy[r] \in Seq(Frames) /\ toProxy[r] # <<>> /\ toProxy'[r] = Tail(toProxy[r])
      /\ \A q \in Receivers : q # r => toProxy'[q] = toProxy[q]
  BY DEF Shape, FrameShape, Pending
<1>2. Wrong' <=> Wrong
  BY DEF Wrong
<1>3. /\ Accused(toProxy'[r]) => Accused(toProxy[r])
      /\ Head(toProxy[r]).type = "SECTION_STATUS" /\ Head(toProxy[r]).code = "Failed" => Accused(toProxy[r])
  BY <1>1, AccusedRead
<1>4. \A q \in Receivers : Accused(toProxy'[q]) => Wrong
  BY <1>1, <1>3 DEF AccusedAll
<1> QED
  BY <1>2, <1>3, <1>4 DEF AccusedAll

\* The status of one receiver is replaced by a frame's.
LEMMA ChargedByStatus ==
    ASSUME Shape, ChargedAll, NEW r \in Receivers, UNCHANGED <<have, result>>,
           status' = [status EXCEPT ![r] = StatusOf(Head(toProxy[r]))] \/ status' = status,
           status' # status /\ Head(toProxy[r]).code = "Failed" => Wrong
    PROVE  ChargedAll'
<1>1. Wrong' <=> Wrong
  BY DEF Wrong
<1>2. CASE status' = status
  BY <1>1, <1>2 DEF ChargedAll
<1>3. CASE status' # status
  <2>1. StatusOf(Head(toProxy[r])).code = Head(toProxy[r]).code
    BY DEF StatusOf
  <2> DEFINE v == StatusOf(Head(toProxy[r]))
  <2>2. v.code = "Failed" => Wrong
    BY <1>3, <2>1
  <2>3. status' = [status EXCEPT ![r] = v] /\ status \in [Receivers -> Reports]
    BY <1>3 DEF Shape, ProxyShape
  <2> HIDE DEF v
  <2>4. \A q \in Receivers : status'[q] = IF q = r THEN v ELSE status[q]
    BY <2>3
  <2> QED
    BY <1>1, <2>2, <2>4 DEF ChargedAll
<1> QED
  BY <1>2, <1>3

\* Every step charges only wrong bytes.
LEMMA ChargedStep ==
    ASSUME Inv, Shape, CoveredAll, AccusedAll, ChargedAll, [Next]_vars
    PROVE  AccusedAll' /\ ChargedAll'
<1>1. CASE SendSection \/ RepairRound
  <2>1. UNCHANGED rcvVars /\ UNCHANGED <<result, toProxy>> /\ status' = Unreported
    BY <1>1 DEF SendSection, RepairRound
  <2>2. Wrong' <=> Wrong
    BY <2>1 DEF rcvVars, Wrong
  <2>3. \A r \in Receivers : status'[r].code = "NO_REPORT"
    BY <2>1, NoStatusIsReport DEF Unreported
  <2> QED
    BY <2>1, <2>2, <2>3 DEF AccusedAll, ChargedAll
<1>2. CASE \/ CloseSection \/ SectionsEnd \/ BarrierOpens \/ BarrierTimeout \/ RoundsExhausted
           \/ CollectMismatch \/ BackfillEnds
           \/ \E q \in Receivers : BackfillStart(q) \/ BackfillTimeout(q)
  <2>1. UNCHANGED rcvVars /\ UNCHANGED <<toProxy, status>>
    BY <1>2 DEF CloseSection, SectionsEnd, BarrierOpens, BarrierTimeout, RoundsExhausted,
                CollectMismatch, BackfillEnds, BackfillStart, BackfillTimeout, netVars
  <2>2. Wrong' <=> Wrong
    BY <2>1 DEF rcvVars, Wrong
  <2>3. result' = "Sha256Mismatch" => result = "Sha256Mismatch" \/ ShaMismatch(status)
    BY <1>2 DEF CloseSection, SectionsEnd, BarrierOpens, BarrierTimeout, RoundsExhausted,
                CollectMismatch, BackfillEnds, BackfillStart, BackfillTimeout, Verdict
  <2>4. ShaMismatch(status) => Wrong
    BY DEF ShaMismatch, ChargedAll
  <2> QED
    BY <2>1, <2>2, <2>3, <2>4 DEF AccusedAll, ChargedAll
<1>3. ASSUME NEW q \in Receivers, HandleControlFrame(q)
      PROVE  AccusedAll' /\ ChargedAll'
  <2> DEFINE f == Head(toProxy[q])
  <2>1. /\ Pending(toProxy[q]) /\ toProxy' = [toProxy EXCEPT ![q] = Tail(@)]
        /\ status' = IF Accepts(f) THEN [status EXCEPT ![q] = StatusOf(f)] ELSE status
        /\ UNCHANGED rcvVars /\ result' = result
    BY <1>3 DEF HandleControlFrame, StatusOf
  <2>2. have' = have
    BY <2>1 DEF rcvVars
  <2>3. Accepts(f) => f.type = "SECTION_STATUS"
    BY DEF Accepts
  <2> QED
    BY <2>1, <2>2, <2>3, AccusedByFrame, ChargedByStatus
<1>4. ASSUME NEW q \in Receivers, BackfillFrame(q)
      PROVE  AccusedAll' /\ ChargedAll'
  <2>1. /\ Pending(toProxy[q]) /\ toProxy' = [toProxy EXCEPT ![q] = Tail(@)]
        /\ UNCHANGED rcvVars /\ result' = result
    BY <1>4 DEF BackfillFrame
  <2>2. have' = have
    BY <2>1 DEF rcvVars
  <2>3. \/ status' = status
        \/ /\ Head(toProxy[q]).type = "SECTION_STATUS" /\ Head(toProxy[q]).code = "Failed"
           /\ status' = [status EXCEPT ![q] = StatusOf(Head(toProxy[q]))]
    BY <1>4, BackfillFrameCases
  <2> QED
    BY <2>1, <2>2, <2>3, AccusedByFrame, ChargedByStatus
<1>5. ASSUME NEW q \in Receivers, ReadReady(q)
      PROVE  AccusedAll' /\ ChargedAll'
  <2>1. /\ Pending(toProxy[q]) /\ toProxy' = [toProxy EXCEPT ![q] = Tail(@)]
        /\ UNCHANGED rcvVars /\ UNCHANGED <<result, status>>
    BY <1>5 DEF ReadReady
  <2>2. have' = have
    BY <2>1 DEF rcvVars
  <2> QED
    BY <2>1, <2>2, AccusedByFrame, ChargedByStatus
<1>6. ASSUME NEW q \in Receivers, ReceiverStep(q)
      PROVE  AccusedAll' /\ ChargedAll'
  <2>1. UNCHANGED proxyVars
    BY <1>6 DEF ReceiverStep, RcvData, RcvDrainEnds, RcvControl
  <2>2. UNCHANGED <<status, result>>
    BY <2>1 DEF proxyVars
  <2>3. Kept
    BY <1>6, ReceiverKeeps
  <2>4. Wrong => Wrong'
    BY <2>3, KeptMeans DEF Shape
  <2>5. ChargedAll'
    BY <2>2, <2>4 DEF ChargedAll
  <2>6. CASE RcvData(q)
    <3>1. toProxy' = toProxy
      BY <2>6 DEF RcvData
    <3> QED
      BY <2>4, <2>5, <3>1 DEF AccusedAll
  <2> QED
    BY <1>6, <2>3, <2>5, <2>6, AccusedDrainEnds, AccusedControl DEF ReceiverStep
<1>7. CASE UNCHANGED vars
  <2>1. UNCHANGED <<toProxy, status, result, have>>
    BY <1>7 DEF vars, netVars, rcvVars, proxyVars
  <2> QED
    BY <2>1 DEF AccusedAll, ChargedAll, Wrong
<1> QED
  BY <1>1, <1>2, <1>3, <1>4, <1>5, <1>6, <1>7
  DEF Next, ProxyStep, BackfillStep, Finished

\* What a file of one section adds to the invariant.
Served == Noted /\ CoveredAll /\ AccusedAll /\ ChargedAll

LEMMA ServedInit == Init => Served
<1> SUFFICES ASSUME Init PROVE Served
  OBVIOUS
<1>1. \A r \in Receivers : toRcv[r] = <<>> /\ toProxy[r] = <<>>
  BY DEF Init, NoFrames
<1>2. Noted
  BY DEF Init, Noted
<1>3. CoveredAll
  BY <1>1, EmptyIsFree, FreeIsCovered DEF CoveredAll, NoEnd
<1>4. AccusedAll
  BY <1>1, EmptySeq DEF AccusedAll, Accused
<1>5. ChargedAll
  BY NoStatusIsReport DEF Init, Unreported, ChargedAll
<1> QED
  BY <1>2, <1>3, <1>4, <1>5 DEF Served

LEMMA ServedStep ==
    OneSection /\ Inv /\ Shape /\ Served /\ [Next]_vars => Served'
  BY NotedStep, CoveredStep, ChargedStep DEF Served

\* Hence it holds throughout an attempt.
LEMMA ServedInvariance ==
    ASSUME OneSection
    PROVE  Spec => []Served
<1>1. Init => Served
  BY ServedInit
<1>2. (Inv /\ Shape) /\ Served /\ [Next]_vars => Served'
  BY ServedStep
<1>3. Spec => [](Inv /\ Shape)
  BY AttemptInvariance, PTL
<1> QED
  BY <1>1, <1>2, <1>3, PTL DEF Spec

\* BackfillSuffices of SectionRepair, for a file of one section: when a backfill task is
\* given out, backfill_blocks and what its receiver holds are the whole file, whatever
\* was lost and however many rounds went by.  (Of a file of several sections it is false:
\* the run RepairLateSection.)
THEOREM BackfillIsEnough ==
    ASSUME OneSection
    PROVE  Spec => []BackfillSuffices
<1>1. Shape /\ Served => BackfillSuffices
  BY DEF Shape, ProxyShape, Served, Noted, BackfillSuffices, Received
<1>2. Spec => []Served
  BY ServedInvariance
<1>3. Spec => []Shape
  BY AttemptInvariance, PTL
<1> QED
  BY <1>1, <1>2, <1>3, PTL

\* MismatchMeansWrongBytes of SectionRepair, for a file of one section: the proxy says
\* Sha256Mismatch only when some .part file holds wrong bytes.  FAILED after BACKFILL_END
\* also means that blocks were missing; it never does, since the frames before
\* BACKFILL_END bring every block.
THEOREM MismatchIsDeserved ==
    ASSUME OneSection
    PROVE  Spec => []MismatchMeansWrongBytes
<1>1. Served => MismatchMeansWrongBytes
  BY DEF Served, ChargedAll, Wrong, MismatchMeansWrongBytes
<1>2. Spec => []Served
  BY ServedInvariance
<1> QED
  BY <1>1, <1>2, PTL

------------------------------------------------------------------------------
(* The rounds, in lockstep *)
(*                                                                         *)
(* While no deadline has passed on a live receiver, a round is a strict     *)
(* exchange: asked, drained, reported, confirmed, silent.                    *)

\* The peer tasks a round may give out.
Tasked == {f \in Orders : f.type = "PEER_REPAIR_TASK"}

\* The stages of a receiver in a round no deadline of which was missed: it has been asked
\* for a report ...
Asked(r) ==
    /\ status[r].code = "NO_REPORT" /\ phase[r] # "awaiting" /\ ~draining[r]
    /\ \E tasks \in Seq(Tasked) : toRcv[r] = Append(tasks, EndFrame(section, round))
    /\ toProxy[r] = <<>>

\* ... waits for the quiet period ...
Drains(r) ==
    /\ status[r].code = "NO_REPORT" /\ phase[r] # "awaiting" /\ draining[r]
    /\ active[r] = section /\ drainRound[r] = round
    /\ toRcv[r] = <<>> /\ toProxy[r] = <<>>

\* ... has reported ...
Current(f) == f.type = "SECTION_STATUS" /\ f.section = section /\ f.round = round

Answers(r) ==
    /\ status[r].code = "NO_REPORT" /\ ~draining[r] /\ toRcv[r] = <<>>
    /\ \E f \in Frames :
          /\ Current(f)
          /\ \/ toProxy[r] = <<f>> /\ phase[r] # "awaiting"
             \/ toProxy[r] = <<f, Bare("RECEIVER_COMPLETE")>> /\ f.code = "Complete"

\* ... has only its RECEIVER_COMPLETE left to say ...
Confirming(r) ==
    /\ status[r].code = "Complete" /\ ~draining[r] /\ toRcv[r] = <<>>
    /\ toProxy[r] = <<Bare("RECEIVER_COMPLETE")>>

\* ... or nothing at all, and it does not wait for an answer.
Silent(r) ==
    phase[r] # "awaiting" /\ ~draining[r] /\ toRcv[r] = <<>> /\ toProxy[r] = <<>>

Turn(r) == Asked(r) \/ Drains(r) \/ Answers(r) \/ Confirming(r) \/ Silent(r)

\* RECEIVER_COMPLETE is in the queue.
Says(queue) == \E i \in 1 .. Len(queue) : queue[i].type = "RECEIVER_COMPLETE"

\* Who waits for COMPLETE_ACK has said so.
Heard ==
    pc \in {"section", "collect", "backfill"} =>
        \A r \in Receivers \ (completed \cup abandoned) : phase[r] = "awaiting" => Says(toProxy[r])

\* Between sections everybody is silent; in a collection everybody is at some stage.
Turns ==
    /\ pc = "section" => \A r \in Watched : Silent(r)
    /\ pc = "collect" => \A r \in Watched : Turn(r)

\* All this while every live receiver has met its deadlines.
Lockstep == timeouts = MaxTimeouts => Turns /\ Heard

\* The head of a queue whose last frame is e.
LEMMA AppendRead ==
    ASSUME NEW F, NEW p \in Seq(F), NEW e
    PROVE  /\ Append(p, e) # <<>>
           /\ p = <<>> => Head(Append(p, e)) = e /\ Tail(Append(p, e)) = <<>>
           /\ p # <<>> => /\ Head(p) \in F /\ Tail(p) \in Seq(F)
                          /\ Head(Append(p, e)) = Head(p)
                          /\ Tail(Append(p, e)) = Append(Tail(p), e)
<1> DEFINE G == F \cup {e}
           n == Len(p)
           q == Append(p, e)
<1>1. p \in Seq(G) /\ e \in G
  BY SeqMonotonic
<1> HIDE DEF G
<1>2. /\ q \in Seq(G) /\ Len(q) = n + 1 /\ n \in Nat
      /\ \A i \in 1 .. n : q[i] = p[i]
      /\ q[n + 1] = e
  BY <1>1, AppendProperties, LenProperties
<1> HIDE DEF q
<1>3. q # <<>>
  BY <1>2, EmptySeq
<1>4. /\ Head(q) = q[1] /\ Tail(q) \in Seq(G) /\ Len(Tail(q)) = n
      /\ \A i \in 1 .. n : Tail(q)[i] = q[i + 1]
  BY <1>2, <1>3, HeadTailProperties
<1>5. CASE p = <<>>
  <2>1. n = 0
    BY <1>5, EmptySeq
  <2>2. Head(q) = e
    BY <1>2, <1>4, <2>1
  <2>3. Tail(q) = <<>>
    BY <1>4, <2>1, EmptySeq
  <2> QED
    BY <1>3, <1>5, <2>2, <2>3 DEF q
<1>6. CASE p # <<>>
  <2> DEFINE t == Tail(p)
             m == Len(t)
             w == Append(t, e)
  <2>1. /\ Head(p) \in F /\ t \in Seq(F) /\ t \in Seq(G) /\ Head(p) = p[1]
        /\ m = n - 1 /\ n > 0
        /\ \A i \in 1 .. m : t[i] = p[i + 1]
    BY <1>1, <1>2, <1>6, HeadTailProperties, EmptySeq, LenProperties
  <2> HIDE DEF t, m, n
  <2>2. /\ w \in Seq(G) /\ Len(w) = m + 1
        /\ \A i \in 1 .. m : w[i] = t[i]
        /\ w[m + 1] = e
    BY <1>1, <2>1, AppendProperties DEF m
  <2> HIDE DEF w
  <2>3. Head(q) = Head(p)
    <3>1. 1 \in 1 .. n
      BY <1>2, <2>1
    <3> QED
      BY <1>2, <1>4, <2>1, <3>1
  <2>4. m + 1 = n /\ m \in Nat
    BY <1>2, <2>1
  <2>5. \A i \in 1 .. n : Tail(q)[i] = w[i]
    <3> TAKE i \in 1 .. n
    <3>1. CASE i = n
      <4>1. Tail(q)[n] = q[n + 1]
        BY <1>2, <1>4, <2>1, <3>1
      <4>2. w[n] = e
        BY <2>2, <2>4
      <4> QED
        BY <1>2, <3>1, <4>1, <4>2
    <3>2. CASE i # n
      <4>1. i \in 1 .. m /\ i + 1 \in 1 .. n
        BY <2>4, <3>2
      <4>2. Tail(q)[i] = q[i + 1] /\ q[i + 1] = p[i + 1] /\ w[i] = t[i] /\ t[i] = p[i + 1]
        BY <1>2, <1>4, <2>1, <2>2, <4>1
      <4> QED
        BY <4>2
    <3> QED
      BY <3>1, <3>2
  <2>6. Tail(q) = w
    BY <1>4, <2>2, <2>4, <2>5, SeqEqual
  <2> QED
    BY <1>3, <1>6, <2>1, <2>3, <2>6 DEF q, w, t
<1> QED
  BY <1>5, <1>6

\* A receiver says one more thing.
LEMMA SaysMore ==
    ASSUME NEW F, NEW q \in Seq(F), NEW G, NEW p \in Seq(G), Says(q) \/ Says(p)
    PROVE  Says(q \o p)
<1>1. q \in Seq(F \cup G) /\ p \in Seq(F \cup G)
  BY SeqMonotonic
<1>2. /\ Len(q \o p) = Len(q) + Len(p) /\ Len(q) \in Nat /\ Len(p) \in Nat
      /\ \A i \in 1 .. Len(q) + Len(p) :
            (q \o p)[i] = IF i <= Len(q) THEN q[i] ELSE p[i - Len(q)]
  BY <1>1, ConcatProperties, LenProperties
<1>3. CASE Says(q)
  <2>1. PICK i \in 1 .. Len(q) : q[i].type = "RECEIVER_COMPLETE"
    BY <1>3 DEF Says
  <2>2. i \in 1 .. Len(q) + Len(p) /\ (q \o p)[i] = q[i]
    BY <1>2
  <2> QED
    BY <1>2, <2>1, <2>2 DEF Says
<1>4. CASE Says(p)
  <2>1. PICK i \in 1 .. Len(p) : p[i].type = "RECEIVER_COMPLETE"
    BY <1>4 DEF Says
  <2>2. Len(q) + i \in 1 .. Len(q) + Len(p) /\ ~(Len(q) + i <= Len(q)) /\ (Len(q) + i) - Len(q) = i
    BY <1>2
  <2>3. (q \o p)[Len(q) + i] = p[i]
    BY <1>2, <2>2
  <2> QED
    BY <1>2, <2>1, <2>2, <2>3 DEF Says
<1> QED
  BY <1>3, <1>4

\* A frame that says something else is read.
LEMMA SaysRead ==
    ASSUME NEW F, NEW q \in Seq(F), q # <<>>, Says(q), Head(q).type # "RECEIVER_COMPLETE"
    PROVE  Says(Tail(q))
<1>1. /\ Len(q) \in Nat /\ Len(q) > 0 /\ Len(Tail(q)) = Len(q) - 1 /\ Head(q) = q[1]
      /\ \A i \in 1 .. Len(Tail(q)) : Tail(q)[i] = q[i + 1]
  BY HeadTailProperties, EmptySeq, LenProperties
<1>2. PICK i \in 1 .. Len(q) : q[i].type = "RECEIVER_COMPLETE"
  BY DEF Says
<1>3. i # 1
  BY <1>1, <1>2
<1>4. i - 1 \in 1 .. Len(Tail(q)) /\ (i - 1) + 1 = i
  BY <1>1, <1>3
<1>5. Tail(q)[i - 1] = q[i]
  <2> DEFINE k == i - 1
  <2>1. k \in 1 .. Len(Tail(q)) /\ k + 1 = i
    BY <1>4
  <2> HIDE DEF k
  <2>2. Tail(q)[k] = q[k + 1]
    BY <1>1, <2>1
  <2> QED
    BY <2>1, <2>2 DEF k
<1> QED
  BY <1>2, <1>4, <1>5 DEF Says

------------------------------------------------------------------------------
(* The receiver's part of a round *)

\* Nothing that concerns the receiver has changed.
Untouched(r) ==
    /\ toRcv'[r] = toRcv[r] /\ toProxy'[r] = toProxy[r] /\ phase'[r] = phase[r]
    /\ draining'[r] = draining[r] /\ active'[r] = active[r] /\ drainRound'[r] = drainRound[r]

LEMMA TurnKept ==
    ASSUME NEW r \in Receivers, Untouched(r)
    PROVE  /\ Silent(r) => Silent(r)'
           /\ status'[r] = status[r] /\ section' = section /\ round' = round =>
                 (Turn(r) => Turn(r)')
<1>1. Silent(r) => Silent(r)'
  BY DEF Untouched, Silent
<1>2. ASSUME status'[r] = status[r], section' = section, round' = round, Turn(r)
      PROVE  Turn(r)'
  BY <1>1, <1>2 DEF Untouched, Turn, Asked, Drains, Answers, Current, Confirming, EndFrame, Bare
<1> QED
  BY <1>1, <1>2

\* A receiver's step concerns that receiver.
LEMMA StepIsLocal ==
    ASSUME Shape, NEW q \in Receivers, ReceiverStep(q), NEW r \in Receivers, r # q
    PROVE  Untouched(r)
<1>s. ReceiverShape /\ OrderShape /\ FrameShape
  BY DEF Shape
<1>1. CASE RcvData(q)
  BY <1>1 DEF RcvData, Untouched
<1>2. CASE RcvDrainEnds(q)
  <2>1. UNCHANGED <<toRcv, active, drainRound>> /\ draining' = [draining EXCEPT ![q] = FALSE]
    BY <1>2 DEF RcvDrainEnds
  <2>2. phase' = phase \/ \E v : phase' = [phase EXCEPT ![q] = v]
    BY <1>2 DEF RcvDrainEnds, Finalize
  <2>3. \E v : toProxy' = [toProxy EXCEPT ![q] = v]
    BY <1>2 DEF RcvDrainEnds, Answer
  <2> QED
    BY <1>s, <2>1, <2>2, <2>3 DEF Untouched, ReceiverShape, FrameShape
<1>3. CASE RcvControl(q)
  <2>1. toRcv' = [toRcv EXCEPT ![q] = Tail(@)]
    BY <1>3 DEF RcvControl
  <2>2. toProxy' = toProxy \/ \E v : toProxy' = [toProxy EXCEPT ![q] = v]
    BY <1>3 DEF RcvControl, RcvBackfillEnd, RcvReset, Answer
  <2>3. phase' = phase \/ \E v : phase' = [phase EXCEPT ![q] = v]
    BY <1>3 DEF RcvControl, RcvBackfillEnd, RcvReset, Finalize, rcvVars
  <2>4. draining' = draining \/ \E v : draining' = [draining EXCEPT ![q] = v]
    BY <1>3 DEF RcvControl, RcvSectionEnd, RcvReset, rcvVars
  <2>5. active' = active \/ \E v : active' = [active EXCEPT ![q] = v]
    BY <1>3 DEF RcvControl, RcvSectionEnd, rcvVars
  <2>6. drainRound' = drainRound \/ \E v : drainRound' = [drainRound EXCEPT ![q] = v]
    BY <1>3 DEF RcvControl, RcvSectionEnd, rcvVars
  <2> QED
    BY <1>s, <2>1, <2>2, <2>3, <2>4, <2>5, <2>6 DEF Untouched, ReceiverShape, FrameShape, OrderShape
<1> QED
  BY <1>1, <1>2, <1>3 DEF ReceiverStep

\* An asked receiver works off its tasks, then its SECTION_END.
LEMMA TurnControl ==
    ASSUME Shape, NEW r \in Receivers, Turn(r), RcvControl(r)
    PROVE  Turn(r)'
<1> DEFINE e == EndFrame(section, round)
           f == Head(toRcv[r])
<1>0. /\ toRcv[r] # <<>> /\ toRcv'[r] = Tail(toRcv[r])
      /\ UNCHANGED <<pc, section, round, status>>
  BY DEF RcvControl, Pending, proxyVars, Shape, OrderShape
<1>1. Asked(r)
  BY <1>0 DEF Turn, Drains, Answers, Confirming, Silent
<1>2. PICK p \in Seq(Tasked) : toRcv[r] = Append(p, e)
  BY <1>1 DEF Asked
<1>e. e.type = "SECTION_END" /\ e.section = section /\ e.round = round
  BY DEF EndFrame
<1> HIDE DEF e
<1>3. CASE p # <<>>
  <2>1. /\ f \in Tasked /\ Tail(p) \in Seq(Tasked)
        /\ Tail(toRcv[r]) = Append(Tail(p), e)
    BY <1>2, <1>3, AppendRead
  <2>2. f.type = "PEER_REPAIR_TASK"
    BY <2>1 DEF Tasked
  <2>3. UNCHANGED <<toProxy, phase, draining>>
    BY <2>2 DEF RcvControl, rcvVars
  <2>4. e' = e
    BY <1>0 DEF e, EndFrame
  <2>5. \E tasks \in Seq(Tasked) : toRcv'[r] = Append(tasks, e')
    BY <1>0, <2>1, <2>4
  <2> QED
    BY <1>0, <1>1, <2>3, <2>5 DEF Turn, Asked, e
<1>4. CASE p = <<>>
  <2>1. f = e /\ toRcv'[r] = <<>>
    BY <1>0, <1>2, <1>4, AppendRead
  <2>2. RcvSectionEnd(r, e) /\ UNCHANGED <<toProxy, phase>>
    BY <1>e, <2>1 DEF RcvControl
  <2>3. CASE StartsDrain(r, e.section, e.round)
    <3>1. /\ active'[r] = section /\ drainRound'[r] = round /\ draining'[r]
      BY <1>e, <2>2, <2>3 DEF RcvSectionEnd, Shape, ReceiverShape
    <3> QED
      BY <1>0, <1>1, <2>1, <2>2, <3>1 DEF Turn, Asked, Drains
  <2>4. CASE ~StartsDrain(r, e.section, e.round)
    <3>1. draining' = draining
      BY <2>2, <2>4 DEF RcvSectionEnd
    <3> QED
      BY <1>1, <2>1, <2>2, <3>1 DEF Turn, Asked, Silent
  <2> QED
    BY <2>3, <2>4
<1> QED
  BY <1>3, <1>4

\* The report of a round is sent.
LEMMA Reported ==
    ASSUME NEW r \in Receivers, UNCHANGED <<section, round, status>>,
           status[r].code = "NO_REPORT", draining'[r] = FALSE, toRcv'[r] = <<>>,
           NEW f \in Frames, Current(f),
           \/ toProxy'[r] = <<f>> /\ phase'[r] # "awaiting"
           \/ toProxy'[r] = <<f, Bare("RECEIVER_COMPLETE")>> /\ f.code = "Complete"
    PROVE  Turn(r)'
<1>1. Current(f)' /\ Bare("RECEIVER_COMPLETE")' = Bare("RECEIVER_COMPLETE")
  BY DEF Current, Bare
<1> QED
  BY <1>1 DEF Turn, Answers

\* The end of a drain is the receiver's report.
LEMMA TurnDrainEnds ==
    ASSUME Shape, NEW r \in Receivers, Turn(r), RcvDrainEnds(r)
    PROVE  Turn(r)'
<1> DEFINE s == active[r]
           k == drainRound[r]
           missing == Blocks(s) \ Received(r)
           a == SectionStatus(s, k, "Missing", missing)
           f == SectionStatus(s, k, "Complete", {})
           g == SectionStatus(s, k, "Failed", {})
           h == Bare("RECEIVER_COMPLETE")
<1>0. /\ draining[r] /\ draining'[r] = FALSE /\ toRcv' = toRcv
      /\ UNCHANGED <<pc, section, round, status, have>>
  BY DEF RcvDrainEnds, proxyVars, Shape, ReceiverShape
<1>1. Drains(r)
  BY <1>0 DEF Turn, Asked, Answers, Confirming, Silent
<1>2. /\ status[r].code = "NO_REPORT" /\ phase[r] # "awaiting" /\ s = section /\ k = round
      /\ toRcv[r] = <<>> /\ toProxy[r] = <<>>
  BY <1>1 DEF Drains
<1>s. s \in Sections /\ s \in Nat /\ k \in 0 .. MaxRepairRounds
  BY <1>0, SectionsInFile DEF Shape, ReceiverShape, Sections
<1>m. missing \in SUBSET AllBlocks
  BY <1>s, SectionsInFile
<1>3. a \in Frames /\ f \in Frames /\ g \in Frames /\ h \in Frames
  BY <1>s, <1>m DEF SectionStatus, Frames, Codes, Bare
<1>4. Current(a) /\ Current(f) /\ Current(g) /\ f.code = "Complete"
  BY <1>0, <1>2 DEF Current, SectionStatus
<1>5. \A x : Answer(r, x) /\ x \in Seq(Frames) => toProxy'[r] = x
  <2> TAKE x
  <2> HAVE Answer(r, x) /\ x \in Seq(Frames)
  <2>1. toProxy'[r] = toProxy[r] \o x
    BY DEF Answer, Shape, FrameShape
  <2> QED
    BY <1>2, <2>1, ConcatEmptySeq
<1>6. /\ <<a>> \in Seq(Frames) /\ <<f>> \in Seq(Frames) /\ <<g>> \in Seq(Frames)
      /\ <<f, h>> \in Seq(Frames)
  <2> HIDE DEF a, f, g, h
  <2> QED
    BY <1>3
<1>7. CASE missing # {}
  <2>1. Answer(r, <<a>>) /\ phase' = phase
    BY <1>7 DEF RcvDrainEnds
  <2> HIDE DEF a, f, g, h
  <2>2. toProxy'[r] = <<a>>
    BY <1>5, <1>6, <2>1
  <2> QED
    BY <1>0, <1>2, <1>3, <1>4, <2>1, <2>2, Reported
<1>8. CASE missing = {}
  <2>1. /\ Finalize(r)
        /\ Answer(r, CASE ~AllReceived(r) -> <<f>>
                       [] ShaMatches(r)   -> <<f, h>>
                       [] OTHER           -> <<g>>)
    BY <1>8 DEF RcvDrainEnds
  <2>2. /\ AllReceived(r) /\ ~ShaMatches(r) => phase'[r] = "shafailed"
        /\ ~AllReceived(r) => phase'[r] = phase[r]
    BY <1>0, <2>1, FinalizeShape DEF Shape
  <2>3. h = Bare("RECEIVER_COMPLETE")
    OBVIOUS
  <2> HIDE DEF a, f, g, h
  <2>4. CASE ~AllReceived(r)
    <3>0. ~ShaMatches(r)
      BY <2>4 DEF AllReceived, ShaMatches, Received
    <3>1. Answer(r, <<f>>)
      BY <2>1, <2>4, <3>0
    <3>2. toProxy'[r] = <<f>>
      BY <1>5, <1>6, <3>1
    <3> QED
      BY <1>0, <1>2, <1>3, <1>4, <2>2, <2>4, <3>2, Reported
  <2>5. CASE AllReceived(r) /\ ShaMatches(r)
    <3>1. Answer(r, <<f, h>>)
      BY <2>1, <2>5
    <3>2. toProxy'[r] = <<f, h>>
      BY <1>5, <1>6, <3>1
    <3> QED
      BY <1>0, <1>2, <1>3, <1>4, <2>3, <3>2, Reported
  <2>6. CASE AllReceived(r) /\ ~ShaMatches(r)
    <3>1. Answer(r, <<g>>)
      BY <2>1, <2>6
    <3>2. toProxy'[r] = <<g>>
      BY <1>5, <1>6, <3>1
    <3> QED
      BY <1>0, <1>2, <1>3, <1>4, <2>2, <2>6, <3>2, Reported
  <2> QED
    BY <2>4, <2>5, <2>6
<1> QED
  BY <1>7, <1>8

\* A receiver step, whoever takes it.
LEMMA TurnReceiver ==
    ASSUME Shape, NEW q \in Receivers, ReceiverStep(q), NEW r \in Receivers
    PROVE  (Silent(r) => Silent(r)') /\ (Turn(r) => Turn(r)')
<1>0. UNCHANGED <<pc, section, round, status>>
  BY DEF ReceiverStep, RcvData, RcvDrainEnds, RcvControl, proxyVars
<1>1. CASE r # q
  BY <1>0, <1>1, StepIsLocal, TurnKept
<1>2. CASE r = q /\ RcvData(r)
  <2>1. Untouched(r)
    BY <1>2 DEF RcvData, Untouched
  <2> QED
    BY <1>0, <2>1, TurnKept
<1>3. CASE r = q /\ (RcvDrainEnds(r) \/ RcvControl(r))
  <2>1. ~Silent(r)
    BY <1>3 DEF Silent, RcvDrainEnds, RcvControl, Pending
  <2> QED
    BY <1>3, <2>1, TurnDrainEnds, TurnControl
<1> QED
  BY <1>1, <1>2, <1>3 DEF ReceiverStep

------------------------------------------------------------------------------
(* The proxy's part of a round *)

\* A deadline that passes on a live receiver is gone for good.
LEMMA LiveBefore ==
    ASSUME Shape, timeouts' = timeouts \/ timeouts' = timeouts - 1, timeouts' = MaxTimeouts
    PROVE  timeouts = MaxTimeouts /\ timeouts' = timeouts
<1>1. timeouts \in 0 .. MaxTimeouts /\ MaxTimeouts \in Nat
  BY SectionRepairAssumption DEF Shape, ProxyShape
<1> QED
  BY <1>1

\* A collection of the last section ends when everybody has said all he had to say.
LEMMA CollectedIsSilent ==
    ASSUME OneSection, Shape, Turns, CollectionEnds, timeouts' = timeouts, NEW r \in Watched
    PROVE  Silent(r)
<1>0. timeouts \in Nat
  BY SectionRepairAssumption DEF Shape, ProxyShape
<1>1. Turn(r) /\ pc = "collect" /\ r \in Receivers
  BY DEF Turns, CollectionEnds, Watched
<1>2. IsFinal(section)
  BY <1>1, OneSectionIsFile DEF Shape, ProxyShape
<1>3. CASE ResponsesComplete
  BY <1>1, <1>2, <1>3 DEF ResponsesComplete, Turn, Asked, Drains, Answers, Confirming
<1>4. CASE ~ResponsesComplete
  <2>1. Quiet(r)
    BY <1>0, <1>4 DEF CollectionEnds, DeadlinePasses
  <2>2. toRcv[r] = <<>> /\ toProxy[r] = <<>> /\ ~draining[r]
    BY <2>1 DEF Quiet, Pending
  <2>3. ~Asked(r)
    BY <2>2, AppendRead DEF Asked
  <2>4. ~Answers(r)
    <3>1. \A f : <<f>> # <<>> /\ <<f, Bare("RECEIVER_COMPLETE")>> # <<>>
      OBVIOUS
    <3> QED
      BY <2>2, <3>1 DEF Answers
  <2>5. ~Confirming(r)
    BY <2>2 DEF Confirming
  <2> QED
    BY <1>1, <2>2, <2>3, <2>4, <2>5 DEF Turn, Drains
<1> QED
  BY <1>3, <1>4

\* The silent receivers of the main group are asked for their report.
LEMMA AskedNow ==
    ASSUME Shape, NEW s \in Sections, NEW k \in 0 .. MaxRepairRounds, NEW to,
           NEW first, \A q \in Receivers : first[q] \in Seq(PeerTaskOrders(q)),
           SendEndRound(to, s, k, first), NEW r \in Receivers, r \in to, Silent(r),
           section' = s, round' = k, status' = Unreported, UNCHANGED <<toProxy>>,
           UNCHANGED rcvVars
    PROVE  Turn(r)'
<1>1. Queued(to, s, k, first, r)
  BY RoundAdds DEF Shape
<1>2. toRcv'[r] = <<>> \o Append(first[r], EndFrame(s, k))
  BY <1>1 DEF Queued, Silent
<1>3. first[r] \in Seq(Tasked)
  <2>1. first[r] \in Seq(PeerTaskOrders(r))
    OBVIOUS
  <2>2. PeerTaskOrders(r) \subseteq Tasked
    BY DEF PeerTaskOrders, OrdersFor, Tasked
  <2> QED
    BY <2>1, <2>2, SeqMonotonic
<1>4. toRcv'[r] = Append(first[r], EndFrame(s, k))
  <2> DEFINE y == first[r]
             e == EndFrame(s, k)
             S == Tasked \cup {e}
  <2>1. y \in Seq(S) /\ e \in S
    BY <1>3, SeqMonotonic
  <2> HIDE DEF y, e, S
  <2>2. Append(y, e) \in Seq(S)
    BY <2>1, AppendProperties
  <2>3. <<>> \o Append(y, e) = Append(y, e)
    BY <2>2, ConcatEmptySeq
  <2> QED
    BY <1>2, <2>3 DEF y, e
<1>5. EndFrame(section, round)' = EndFrame(s, k)
  BY DEF EndFrame
<1>6. status'[r].code = "NO_REPORT"
  BY NoStatusIsReport DEF Unreported
<1>7. \E tasks \in Seq(Tasked) : toRcv'[r] = Append(tasks, EndFrame(section, round)')
  BY <1>3, <1>4, <1>5
<1>8. phase'[r] # "awaiting" /\ ~draining'[r] /\ toProxy'[r] = <<>>
  BY DEF Silent, rcvVars
<1> QED
  BY <1>6, <1>7, <1>8 DEF Turn, Asked

\* The proxy touches nothing of a receiver.
LEMMA ProxyUntouched ==
    ASSUME UNCHANGED rcvVars, NEW r, toRcv'[r] = toRcv[r], toProxy'[r] = toProxy[r]
    PROVE  Untouched(r)
  BY DEF rcvVars, Untouched

\* The frame a collection reads is the report it waits for, or the RECEIVER_COMPLETE
\* after it.
LEMMA TurnRead ==
    ASSUME Shape, NEW r \in Receivers, r \in Watched, Turn(r), HandleControlFrame(r)
    PROVE  /\ Turn(r)' \/ r \in completed'
           /\ Head(toProxy[r]).type = "RECEIVER_COMPLETE" => r \in completed'
<1> DEFINE f == Head(toProxy[r])
           h == Bare("RECEIVER_COMPLETE")
<1>1. /\ toProxy[r] # <<>> /\ toProxy'[r] = Tail(toProxy[r])
      /\ status' = IF Accepts(f) THEN [status EXCEPT ![r] = StatusOf(f)] ELSE status
      /\ UNCHANGED rcvVars
  BY DEF HandleControlFrame, StatusOf, Pending, Shape, FrameShape
<1>2. Confirms(r, f) => completed' = completed \cup {r}
  BY DEF HandleControlFrame
<1>3. ~Confirms(r, f) => toRcv' = toRcv /\ completed' = completed
  BY DEF HandleControlFrame
<1>4. Answers(r) \/ Confirming(r)
  BY <1>1 DEF Turn, Asked, Drains, Silent
<1>h. h.type = "RECEIVER_COMPLETE"
  BY DEF Bare
<1>5. CASE Confirming(r)
  <2>1. f = h /\ status[r].code = "Complete"
    BY <1>5 DEF Confirming
  <2>2. Confirms(r, f)
    BY <1>h, <2>1 DEF Confirms
  <2> QED
    BY <1>2, <2>2
<1>6. CASE Answers(r)
  <2>1. PICK g \in Frames :
           /\ Current(g)
           /\ \/ toProxy[r] = <<g>> /\ phase[r] # "awaiting"
              \/ toProxy[r] = <<g, h>> /\ g.code = "Complete"
    BY <1>6 DEF Answers
  <2>2. f = g
    BY <2>1
  <2>3. Accepts(f) /\ f.type = "SECTION_STATUS" /\ ~Confirms(r, f)
    BY <2>1, <2>2 DEF Current, Accepts, Confirms
  <2>4. toRcv'[r] = <<>> /\ ~draining'[r] /\ phase'[r] = phase[r]
    BY <1>1, <1>3, <1>6, <2>3 DEF Answers, rcvVars
  <2>5. CASE toProxy[r] = <<g>> /\ phase[r] # "awaiting"
    <3>1. toProxy'[r] = <<>>
      BY <1>1, <2>5
    <3> QED
      BY <2>3, <2>4, <2>5, <3>1 DEF Turn, Silent
  <2>6. CASE toProxy[r] = <<g, h>> /\ g.code = "Complete"
    <3>1. toProxy'[r] = <<h>>
      BY <1>1, <2>6
    <3>2. status'[r] = StatusOf(f)
      BY <1>1, <2>3 DEF Shape, ProxyShape
    <3>3. status'[r].code = "Complete"
      BY <2>2, <2>6, <3>2 DEF StatusOf
    <3>4. h' = h
      BY DEF Bare
    <3> QED
      BY <2>3, <2>4, <3>1, <3>3, <3>4 DEF Turn, Confirming
  <2> QED
    BY <2>1, <2>3, <2>5, <2>6
<1> QED
  BY <1>4, <1>5, <1>6

------------------------------------------------------------------------------
(* Every step keeps the rounds in lockstep *)

\* Deadlines on live receivers are only used up.
LEMMA TimeoutsFall ==
    ASSUME [Next]_vars
    PROVE  timeouts' = timeouts \/ timeouts' = timeouts - 1
<1>1. CASE SendSection \/ SectionsEnd \/ BackfillEnds \/ BarrierOpens \/ UNCHANGED vars
  BY <1>1 DEF SendSection, SectionsEnd, BackfillEnds, BarrierOpens, vars
<1>2. CASE CollectMismatch \/ CloseSection \/ RepairRound \/ RoundsExhausted
  BY <1>2 DEF CollectMismatch, CloseSection, RepairRound, RoundsExhausted, CollectionEnds, DeadlinePasses
<1>3. CASE BarrierTimeout
  BY <1>3 DEF BarrierTimeout
<1>4. ASSUME NEW q \in Receivers, HandleControlFrame(q) \/ ReadReady(q) \/ BackfillStep(q)
      PROVE  timeouts' = timeouts \/ timeouts' = timeouts - 1
  BY <1>4 DEF HandleControlFrame, ReadReady, BackfillStep, BackfillStart, BackfillFrame, BackfillTimeout
<1>5. ASSUME NEW q \in Receivers, ReceiverStep(q)
      PROVE  timeouts' = timeouts
  BY <1>5 DEF ReceiverStep, RcvData, RcvDrainEnds, RcvControl
<1> QED
  BY <1>1, <1>2, <1>3, <1>4, <1>5 DEF Next, ProxyStep, Finished

\* Nobody's stage changes, and nobody joins the main group.
LEMMA TurnsKept ==
    ASSUME Turns, pc' = pc \/ pc' \notin {"section", "collect"}, UNCHANGED <<section, round, status>>,
           Watched' \subseteq Watched, \A r \in Watched : Untouched(r)
    PROVE  Turns'
<1>1. \A r \in Watched : r \in Receivers
  BY DEF Watched
<1>2. \A r \in Watched : (Silent(r) => Silent(r)') /\ (Turn(r) => Turn(r)')
  BY <1>1, TurnKept
<1> QED
  BY <1>2 DEF Turns

\* Every step keeps the rounds in order.
LEMMA TurnsStep ==
    ASSUME OneSection, Inv, Shape, Turns, [Next]_vars, timeouts' = timeouts
    PROVE  Turns'
<1>w. Watched \subseteq Receivers
  BY DEF Watched
<1>1. CASE SendSection
  <2>1. /\ pc = "section" /\ pc' = "collect" /\ section < SectionCount
        /\ SendEndRound(Watched, section, 0, NoFrames)
        /\ section' = section /\ round' = 0 /\ status' = Unreported
        /\ UNCHANGED <<toProxy, completed, isolated, abandoned>> /\ UNCHANGED rcvVars
    BY <1>1 DEF SendSection
  <2>2. section \in Sections /\ 0 \in 0 .. MaxRepairRounds
    BY <2>1, SectionsInFile, SectionRepairAssumption DEF Shape, ProxyShape, Sections
  <2>3. \A q \in Receivers : NoFrames[q] \in Seq(PeerTaskOrders(q))
    BY EmptySeq DEF NoFrames
  <2>4. ASSUME NEW r \in Watched
        PROVE  Turn(r)'
    <3>1. Silent(r) /\ r \in Receivers
      BY <1>w, <2>1 DEF Turns
    <3> QED
      BY <2>1, <2>2, <2>3, <3>1, AskedNow
  <2>5. Watched' = Watched
    BY <2>1 DEF Watched
  <2> QED
    BY <2>1, <2>4, <2>5 DEF Turns
<1>2. CASE RepairRound
  <2> DEFINE first == PeerTasks(Plan)
             to == Watched \ Slow
             k == round + 1
  <2>1. /\ pc' = "collect" /\ CollectionEnds /\ pc = "collect"
        /\ SendEndRound(to, section, k, first)
        /\ section' = section /\ round' = k /\ status' = Unreported
        /\ isolated' = isolated \cup Slow
        /\ UNCHANGED <<toProxy, completed, abandoned>> /\ UNCHANGED rcvVars
    BY <1>2 DEF RepairRound, CollectionEnds, Isolate
  <2>2. section \in Sections /\ k \in 0 .. MaxRepairRounds
    BY <1>2, <2>1, SectionRepairAssumption DEF RepairRound, MoreRounds, Shape, ProxyShape
  <2>3. \A q \in Receivers : first[q] \in Seq(PeerTaskOrders(q))
    BY <2>1, PlanIsGrounded DEF Shape
  <2>t. to \subseteq Watched
    OBVIOUS
  <2>5. Watched' = to
    BY <2>1 DEF Watched
  <2> HIDE DEF first, k, to
  <2>4. ASSUME NEW r \in to
        PROVE  Turn(r)'
    <3>1. Silent(r) /\ r \in Receivers
      BY <1>w, <2>1, <2>t, CollectedIsSilent
    <3> QED
      BY <2>1, <2>2, <2>3, <3>1, AskedNow
  <2> QED
    BY <2>1, <2>4, <2>5 DEF Turns
<1>3. CASE CloseSection
  <2>1. /\ pc' = "section" /\ CollectionEnds /\ isolated' = isolated \cup Slow
        /\ UNCHANGED <<toRcv, toProxy, completed, abandoned>> /\ UNCHANGED rcvVars
    BY <1>3 DEF CloseSection, Isolate, netVars
  <2>2. ASSUME NEW r \in Watched
        PROVE  Silent(r)'
    <3>1. Silent(r) /\ r \in Receivers
      BY <1>w, <2>1, CollectedIsSilent
    <3> QED
      BY <2>1, <3>1, ProxyUntouched, TurnKept
  <2>3. Watched' \subseteq Watched
    BY <2>1 DEF Watched
  <2> QED
    BY <2>1, <2>2, <2>3 DEF Turns
<1>4. CASE \/ CollectMismatch \/ RoundsExhausted \/ SectionsEnd \/ BackfillEnds
           \/ BarrierOpens \/ BarrierTimeout
  <2>1. pc' \notin {"section", "collect"}
    BY <1>4 DEF CollectMismatch, RoundsExhausted, SectionsEnd, BackfillEnds, BarrierOpens, BarrierTimeout
  <2> QED
    BY <2>1 DEF Turns
<1>5. ASSUME NEW q \in Receivers, HandleControlFrame(q)
      PROVE  Turns'
  <2>1. /\ pc = "collect" /\ pc' = pc /\ UNCHANGED <<section, round, isolated, abandoned>>
        /\ UNCHANGED rcvVars /\ q \in Watched
        /\ completed' = completed \/ completed' = completed \cup {q}
    BY <1>5 DEF HandleControlFrame
  <2>2. Watched' \subseteq Watched
    BY <2>1 DEF Watched
  <2>3. \A r \in Receivers : r \in completed' => r \notin Watched'
    BY DEF Watched
  <2>4. ASSUME NEW r \in Watched'
        PROVE  Turn(r)'
    <3>0. r \in Watched /\ r \in Receivers /\ Turn(r)
      BY <1>w, <2>1, <2>2 DEF Turns
    <3>1. CASE r = q
      BY <1>5, <2>3, <3>0, <3>1, TurnRead
    <3>2. CASE r # q
      <4>1. toRcv'[r] = toRcv[r] /\ toProxy'[r] = toProxy[r] /\ status'[r] = status[r]
        <5>1. toRcv'[r] = toRcv[r] /\ toProxy'[r] = toProxy[r]
          BY <1>5, <3>0, <3>2, HandleControlFrameShape DEF Inv
        <5>2. status' = status \/ \E v : status' = [status EXCEPT ![q] = v]
          BY <1>5 DEF HandleControlFrame
        <5> QED
          BY <3>0, <3>2, <5>1, <5>2 DEF Shape, ProxyShape
      <4>2. Untouched(r)
        BY <2>1, <4>1, ProxyUntouched
      <4> QED
        BY <2>1, <3>0, <4>1, <4>2, TurnKept
    <3> QED
      BY <3>1, <3>2
  <2> QED
    BY <2>1, <2>4 DEF Turns
<1>6. ASSUME NEW q \in Receivers, ReadReady(q) \/ BackfillStep(q)
      PROVE  Turns'
  <2>1. pc' \notin {"section", "collect"}
    BY <1>6 DEF ReadReady, BackfillStep, BackfillStart, BackfillFrame, BackfillTimeout, Inv, Verdicts
  <2> QED
    BY <2>1 DEF Turns
<1>7. ASSUME NEW q \in Receivers, ReceiverStep(q)
      PROVE  Turns'
  <2>1. UNCHANGED <<pc, completed, isolated, abandoned>>
    BY <1>7 DEF ReceiverStep, RcvData, RcvDrainEnds, RcvControl, proxyVars
  <2>2. Watched' = Watched
    BY <2>1 DEF Watched
  <2>3. \A r \in Watched : (Silent(r) => Silent(r)') /\ (Turn(r) => Turn(r)')
    BY <1>7, <1>w, TurnReceiver
  <2> QED
    BY <2>1, <2>2, <2>3 DEF Turns
<1>8. CASE UNCHANGED vars
  <2>1. /\ UNCHANGED <<pc, section, round, status, completed, isolated, abandoned, toRcv, toProxy>>
        /\ UNCHANGED rcvVars
    BY <1>8 DEF vars, proxyVars, netVars
  <2>2. Watched' = Watched
    BY <2>1 DEF Watched
  <2> QED
    BY <2>1, <2>2, ProxyUntouched, TurnsKept
<1> QED
  BY <1>1, <1>2, <1>3, <1>4, <1>5, <1>6, <1>7, <1>8 DEF Next, ProxyStep, Finished

\* Nobody starts to wait for an answer, and no RECEIVER_COMPLETE is read.
LEMMA HeardKept ==
    ASSUME Heard, UNCHANGED rcvVars, UNCHANGED toProxy, completed \subseteq completed',
           abandoned \subseteq abandoned',
           pc' \in {"section", "collect", "backfill"} => pc \in {"section", "collect", "backfill"}
    PROVE  Heard'
  BY DEF Heard, rcvVars

\* What a receiver says is added to what it has said.
LEMMA SaysAnswer ==
    ASSUME Shape, NEW r \in Receivers, NEW frames, NEW G, frames \in Seq(G), Answer(r, frames),
           Says(toProxy[r]) \/ Says(frames)
    PROVE  Says(toProxy'[r])
<1>1. toProxy'[r] = toProxy[r] \o frames /\ toProxy[r] \in Seq(Frames)
  BY DEF Answer, Shape, FrameShape
<1> QED
  BY <1>1, SaysMore

\* A receiver that finalises its file says RECEIVER_COMPLETE in the same step.
LEMMA HeardByReceiver ==
    ASSUME Shape, Heard, pc \in {"section", "collect", "backfill"},
           NEW r \in Receivers \ (completed \cup abandoned), ReceiverStep(r), phase'[r] = "awaiting"
    PROVE  Says(toProxy'[r])
<1> DEFINE h == Bare("RECEIVER_COMPLETE")
           s == active[r]
           k == drainRound[r]
           missing == Blocks(s) \ Received(r)
           a == SectionStatus(s, k, "Missing", missing)
           f == SectionStatus(s, k, "Complete", {})
           g == SectionStatus(s, k, "Failed", {})
<1>0. phase[r] = "awaiting" => Says(toProxy[r])
  BY DEF Heard
<1>h. /\ <<h>> \in Seq({h}) /\ Says(<<h>>)
      /\ \A x : <<x, h>> \in Seq({x, h}) /\ Says(<<x, h>>)
      /\ \A x : <<x>> \in Seq({x})
  <2>1. h.type = "RECEIVER_COMPLETE"
    BY DEF Bare
  <2> HIDE DEF h
  <2>2. Says(<<h>>)
    <3>1. 1 \in 1 .. Len(<<h>>) /\ <<h>>[1].type = "RECEIVER_COMPLETE"
      BY <2>1
    <3> QED
      BY <3>1 DEF Says
  <2>3. \A x : Says(<<x, h>>)
    <3> TAKE x
    <3>1. 2 \in 1 .. Len(<<x, h>>) /\ <<x, h>>[2].type = "RECEIVER_COMPLETE"
      BY <2>1
    <3> QED
      BY <3>1 DEF Says
  <2> QED
    BY <2>2, <2>3
<1>1. CASE RcvData(r)
  BY <1>0, <1>1 DEF RcvData
<1>2. CASE RcvDrainEnds(r)
  <2>1. CASE missing # {}
    <3>1. phase' = phase /\ Answer(r, <<a>>)
      BY <1>2, <2>1 DEF RcvDrainEnds
    <3> HIDE DEF a, h
    <3> QED
      BY <1>0, <1>h, <3>1, SaysAnswer
  <2>2. CASE missing = {}
    <3>1. /\ Finalize(r) /\ have' = have
          /\ Answer(r, CASE ~AllReceived(r) -> <<f>>
                         [] ShaMatches(r)   -> <<f, h>>
                         [] OTHER           -> <<g>>)
      BY <1>2, <2>2 DEF RcvDrainEnds
    <3>2. /\ AllReceived(r) /\ ~ShaMatches(r) => phase'[r] = "shafailed"
          /\ ~AllReceived(r) => phase'[r] = phase[r]
      BY <3>1, FinalizeShape DEF Shape
    <3> HIDE DEF f, g, h
    <3>3. CASE ~AllReceived(r)
      <4>0. ~ShaMatches(r)
        BY <3>3 DEF AllReceived, ShaMatches, Received
      <4>1. Answer(r, <<f>>)
        BY <3>1, <3>3, <4>0
      <4> QED
        BY <1>0, <1>h, <3>2, <3>3, <4>1, SaysAnswer
    <3>4. CASE AllReceived(r) /\ ShaMatches(r)
      <4>1. Answer(r, <<f, h>>)
        BY <3>1, <3>4
      <4> QED
        BY <1>h, <4>1, SaysAnswer
    <3>5. CASE AllReceived(r) /\ ~ShaMatches(r)
      BY <3>2, <3>5
    <3> QED
      BY <3>3, <3>4, <3>5
  <2> QED
    BY <2>1, <2>2
<1>3. CASE RcvControl(r)
  <2> DEFINE o == Head(toRcv[r])
  <2>1. CASE o.type = "BACKFILL_END" /\ phase[r] = "active"
    <3>1. RcvBackfillEnd(r) /\ Finalize(r) /\ have' = have
      BY <1>3, <2>1 DEF RcvControl, RcvBackfillEnd
    <3>2. AllReceived(r) /\ ShaMatches(r)
      BY <2>1, <3>1, FinalizeShape DEF Shape
    <3>3. Answer(r, <<h>>)
      BY <2>1, <3>1, <3>2 DEF RcvBackfillEnd
    <3> HIDE DEF h
    <3> QED
      BY <1>h, <3>3, SaysAnswer
  <2>2. CASE ~(o.type = "BACKFILL_END" /\ phase[r] = "active")
    <3>1. (phase' = phase /\ toProxy' = toProxy) \/ RcvReset(r)
      BY <1>3, <2>2 DEF RcvControl, RcvBackfillEnd, rcvVars
    <3>2. ~RcvReset(r)
      BY DEF RcvReset, Shape, ReceiverShape
    <3> QED
      BY <1>0, <3>1, <3>2
  <2> QED
    BY <2>1, <2>2
<1> QED
  BY <1>1, <1>2, <1>3 DEF ReceiverStep

\* Every step keeps RECEIVER_COMPLETE in the queue until it counts.
LEMMA HeardStep ==
    ASSUME Inv, Shape, Turns, Heard, [Next]_vars
    PROVE  Heard'
<1>1. CASE ProxyStep /\ ~\E q \in Receivers : HandleControlFrame(q) \/ ReadReady(q)
  <2>1. /\ UNCHANGED <<toProxy, completed, abandoned>> /\ UNCHANGED rcvVars
        /\ pc' \in {"section", "collect", "backfill"} => pc \in {"section", "collect", "backfill"}
    BY <1>1 DEF ProxyStep, SendSection, CollectMismatch, CloseSection, RepairRound, RoundsExhausted,
                SectionsEnd, BackfillEnds, BarrierOpens, BarrierTimeout, CollectionEnds, netVars
  <2> QED
    BY <2>1, HeardKept
<1>2. ASSUME NEW q \in Receivers, HandleControlFrame(q)
      PROVE  Heard'
  <2>1. /\ pc = "collect" /\ pc' = pc /\ UNCHANGED abandoned /\ UNCHANGED rcvVars /\ q \in Watched
        /\ completed \subseteq completed' /\ Pending(toProxy[q])
        /\ toProxy' = [toProxy EXCEPT ![q] = Tail(@)]
    BY <1>2 DEF HandleControlFrame
  <2>2. Head(toProxy[q]).type = "RECEIVER_COMPLETE" => q \in completed'
    BY <1>2, <2>1, TurnRead DEF Turns
  <2>3. toProxy \in [Receivers -> Seq(Frames)]
    BY DEF Shape, FrameShape
  <2> SUFFICES ASSUME NEW r \in Receivers \ (completed' \cup abandoned'), phase'[r] = "awaiting"
               PROVE  Says(toProxy'[r])
    BY DEF Heard
  <2>4. phase[r] = "awaiting" /\ Says(toProxy[r])
    BY <2>1 DEF Heard, rcvVars
  <2>5. CASE r # q
    <3>1. toProxy'[r] = toProxy[r]
      BY <2>1, <2>3, <2>5
    <3> QED
      BY <2>4, <3>1
  <2>6. CASE r = q
    <3>1. toProxy'[r] = Tail(toProxy[r]) /\ toProxy[r] # <<>> /\ toProxy[r] \in Seq(Frames)
      BY <2>1, <2>3, <2>6 DEF Pending
    <3>2. Head(toProxy[r]).type # "RECEIVER_COMPLETE"
      BY <2>2, <2>6
    <3> QED
      BY <2>4, <3>1, <3>2, SaysRead
  <2> QED
    BY <2>5, <2>6
<1>3. ASSUME NEW q \in Receivers, ReadReady(q)
      PROVE  Heard'
  <2>1. pc' = "ready"
    BY <1>3 DEF ReadReady
  <2> QED
    BY <2>1 DEF Heard
<1>4. ASSUME NEW q \in Receivers, BackfillFrame(q)
      PROVE  Heard'
  <2>1. /\ pc' = pc /\ pc = "backfill" /\ UNCHANGED abandoned /\ UNCHANGED rcvVars
        /\ Pending(toProxy[q]) /\ toProxy' = [toProxy EXCEPT ![q] = Tail(@)]
    BY <1>4 DEF BackfillFrame, Inv, Verdicts
  <2>2. /\ completed \subseteq completed'
        /\ Head(toProxy[q]).type = "RECEIVER_COMPLETE" => q \in completed'
    BY <1>4 DEF BackfillFrame
  <2>3. toProxy \in [Receivers -> Seq(Frames)]
    BY DEF Shape, FrameShape
  <2> SUFFICES ASSUME NEW r \in Receivers \ (completed' \cup abandoned'), phase'[r] = "awaiting"
               PROVE  Says(toProxy'[r])
    BY DEF Heard
  <2>4. phase[r] = "awaiting" /\ Says(toProxy[r])
    BY <2>1, <2>2 DEF Heard, rcvVars
  <2>5. CASE r # q
    <3>1. toProxy'[r] = toProxy[r]
      BY <2>1, <2>3, <2>5
    <3> QED
      BY <2>4, <3>1
  <2>6. CASE r = q
    <3>1. toProxy'[r] = Tail(toProxy[r]) /\ toProxy[r] # <<>> /\ toProxy[r] \in Seq(Frames)
      BY <2>1, <2>3, <2>6 DEF Pending
    <3>2. Head(toProxy[r]).type # "RECEIVER_COMPLETE"
      BY <2>2, <2>6
    <3> QED
      BY <2>4, <3>1, <3>2, SaysRead
  <2> QED
    BY <2>5, <2>6
<1>5. ASSUME NEW q \in Receivers, BackfillStart(q) \/ BackfillTimeout(q)
      PROVE  Heard'
  <2>1. /\ UNCHANGED <<pc, toProxy, completed>> /\ UNCHANGED rcvVars
        /\ abandoned \subseteq abandoned'
    BY <1>5 DEF BackfillStart, BackfillTimeout, netVars
  <2> QED
    BY <2>1, HeardKept
<1>6. ASSUME NEW q \in Receivers, ReceiverStep(q)
      PROVE  Heard'
  <2>1. UNCHANGED <<pc, completed, abandoned>>
    BY <1>6 DEF ReceiverStep, RcvData, RcvDrainEnds, RcvControl, proxyVars
  <2> SUFFICES ASSUME pc \in {"section", "collect", "backfill"},
                      NEW r \in Receivers \ (completed \cup abandoned), phase'[r] = "awaiting"
               PROVE  Says(toProxy'[r])
    BY <2>1 DEF Heard
  <2>2. CASE r # q
    <3>1. phase'[r] = phase[r] /\ toProxy'[r] = toProxy[r]
      BY <1>6, <2>2, StepIsLocal DEF Untouched
    <3> QED
      BY <3>1 DEF Heard
  <2>3. CASE r = q
    BY <1>6, <2>3, HeardByReceiver
  <2> QED
    BY <2>2, <2>3
<1>7. CASE UNCHANGED vars
  <2>1. UNCHANGED <<pc, toProxy, completed, abandoned>> /\ UNCHANGED rcvVars
    BY <1>7 DEF vars, proxyVars, netVars
  <2> QED
    BY <2>1, HeardKept
<1> QED
  BY <1>1, <1>2, <1>3, <1>4, <1>5, <1>6, <1>7 DEF Next, BackfillStep, Finished, ProxyStep

LEMMA LockstepInit == Init => Lockstep
<1> SUFFICES ASSUME Init PROVE Lockstep
  OBVIOUS
<1>1. \A r \in Receivers : toRcv[r] = <<>> /\ toProxy[r] = <<>> /\ phase[r] = "active" /\ ~draining[r]
  BY DEF Init, NoFrames
<1>2. pc = "section"
  BY DEF Init
<1>3. Turns
  BY <1>1, <1>2 DEF Turns, Silent, Watched
<1>4. Heard
  BY <1>1 DEF Heard
<1> QED
  BY <1>3, <1>4 DEF Lockstep

LEMMA LockstepStep ==
    OneSection /\ Inv /\ Shape /\ Lockstep /\ [Next]_vars => Lockstep'
<1> SUFFICES ASSUME OneSection, Inv, Shape, Lockstep, [Next]_vars, timeouts' = MaxTimeouts
             PROVE  Turns' /\ Heard'
  BY DEF Lockstep
<1>1. timeouts = MaxTimeouts /\ timeouts' = timeouts
  BY TimeoutsFall, LiveBefore
<1>2. Turns /\ Heard
  BY <1>1 DEF Lockstep
<1> QED
  BY <1>1, <1>2, TurnsStep, HeardStep

\* FinalisedIsAnswered of SectionRepair, for a file of one section: while every live
\* receiver meets its deadlines, a receiver that waits for COMPLETE_ACK has its
\* RECEIVER_COMPLETE in the queue or its answer on the way; no collection ends over it.
THEOREM NobodyIsForgotten ==
    ASSUME OneSection
    PROVE  Spec => []FinalisedIsAnswered
<1>1. Shape /\ Passage /\ Lockstep => FinalisedIsAnswered
  <2> SUFFICES ASSUME Shape, Passage, Lockstep, NEW r \in Receivers \ abandoned,
                      timeouts = MaxTimeouts, phase[r] = "awaiting"
               PROVE  \/ "RECEIVER_COMPLETE" \in Types(toProxy[r])
                      \/ Types(toRcv[r]) \cap {"COMPLETE_ACK", "TRANSFER_FAILED"} # {}
    BY DEF FinalisedIsAnswered
  <2>1. CASE ~Over(r)
    <3>1. pc \in {"section", "collect", "backfill"} /\ r \notin completed
      BY <2>1 DEF Over, Shape, ProxyShape
    <3>2. Says(toProxy[r])
      BY <3>1 DEF Lockstep, Heard
    <3> QED
      BY <3>2 DEF Says, Types, Messages
  <2>2. CASE Over(r)
    <3>1. Told(r)
      BY <2>2 DEF Passage, Stage, Dropped, Read
    <3>2. Len(toRcv[r]) > 0 /\ toRcv[r][Len(toRcv[r])].type \in Ends /\ Len(toRcv[r]) \in Nat
      BY <3>1, LenProperties DEF Told, Closed, Shape, OrderShape
    <3>3. Len(toRcv[r]) \in 1 .. Len(toRcv[r])
      BY <3>2
    <3> QED
      BY <3>2, <3>3 DEF Types, Messages, Ends
  <2> QED
    BY <2>1, <2>2
<1>2. Init => Lockstep
  BY LockstepInit
<1>3. (Inv /\ Shape) /\ Lockstep /\ [Next]_vars => Lockstep'
  BY LockstepStep
<1>4. Spec => [](Inv /\ Shape) /\ [](Shape /\ Passage)
  BY AttemptInvariance, PTL
<1> QED
  BY <1>1, <1>2, <1>3, <1>4, PTL DEF Spec

------------------------------------------------------------------------------
(* The refinement *)

Open == pc \notin {"ready", "done", "threw"}

\* A step that leaves the proxy's picture and the verdict alone maps to a stutter or
\* to the storing of a file.
LEMMA StutterOrStore ==
    ASSUME UNCHANGED <<completed, abandoned, result, pc>>, NEW r \in Receivers,
           stored' = stored \/ stored' = stored \cup {r}
    PROVE  [Delivery!Next]_(Delivery!vars)
<1> USE DEF Delivery!vars
<1>1. CASE stored' = stored
  BY <1>1
<1>2. CASE stored' = stored \cup {r} /\ r \notin stored
  <2>1. Delivery!Store(r)
    BY <1>2 DEF Delivery!Store
  <2> QED
    BY <2>1 DEF Delivery!Next
<1> QED
  BY <1>1, <1>2

\* The verdict, as FileDelivery sees it.
Seen == IF pc \in {"ready", "done", "threw"} THEN result ELSE "open"

\* The proxy moves on without a verdict, or after it.
LEMMA Stutter ==
    ASSUME UNCHANGED <<stored, completed, abandoned>>, Seen' = Seen
    PROVE  [Delivery!Next]_(Delivery!vars)
  BY DEF Delivery!vars, Seen

\* A confirmed receiver has the file, and was neither confirmed nor given up before.
LEMMA ConfirmStep ==
    ASSUME NEW r \in Receivers, r \in stored, r \notin completed \cup abandoned,
           Open, UNCHANGED <<pc, stored, abandoned>>, completed' = completed \cup {r}
    PROVE  [Delivery!Next]_(Delivery!vars)
<1>1. Delivery!Confirm(r)
  BY DEF Delivery!Confirm, Open
<1> QED
  BY <1>1 DEF Delivery!Next

\* The frames of the collection confirm at most their sender.
LEMMA FrameRefines ==
    ASSUME Inv, NEW r \in Receivers, HandleControlFrame(r)
    PROVE  [Delivery!Next]_(Delivery!vars)
<1>1. /\ pc = "collect" /\ UNCHANGED <<pc, result, abandoned, stored>>
      /\ r \notin completed \cup abandoned /\ Pending(toProxy[r])
      /\ toProxy' = [toProxy EXCEPT ![r] = Tail(@)]
  BY DEF HandleControlFrame, Watched, rcvVars
<1>2. Head(toProxy[r]).type = "RECEIVER_COMPLETE" => r \in stored
  BY <1>1, ReadKeepsQueues DEF Inv, Knowledge
<1>3. \/ completed' = completed
      \/ Head(toProxy[r]).type = "RECEIVER_COMPLETE" /\ completed' = completed \cup {r}
  BY DEF HandleControlFrame, Confirms
<1> QED
  BY <1>1, <1>2, <1>3, ConfirmStep, Stutter DEF Open, Seen

\* A backfill task confirms or drops its own receiver, once.
LEMMA BackfillRefines ==
    ASSUME Inv, NEW r \in Receivers, BackfillStep(r)
    PROVE  [Delivery!Next]_(Delivery!vars)
<1>1. /\ task[r] # "done" /\ UNCHANGED <<pc, result, stored>>
  BY DEF BackfillStep, BackfillStart, BackfillFrame, BackfillTimeout, rcvVars
<1>2. pc = "backfill" /\ r \notin completed \cup abandoned
  BY <1>1 DEF Inv, Verdicts
<1>3. CASE BackfillStart(r)
  BY <1>1, <1>3, Stutter DEF BackfillStart, Seen
<1>4. CASE BackfillFrame(r)
  <2>1. /\ UNCHANGED abandoned /\ Pending(toProxy[r])
        /\ toProxy' = [toProxy EXCEPT ![r] = Tail(@)]
    BY <1>4 DEF BackfillFrame
  <2>2. Head(toProxy[r]).type = "RECEIVER_COMPLETE" => r \in stored
    BY <2>1, ReadKeepsQueues DEF Inv, Knowledge
  <2>3. \/ completed' = completed
        \/ Head(toProxy[r]).type = "RECEIVER_COMPLETE" /\ completed' = completed \cup {r}
    BY <1>4 DEF BackfillFrame
  <2> QED
    BY <1>1, <1>2, <2>1, <2>2, <2>3, ConfirmStep, Stutter DEF Open, Seen
<1>5. CASE BackfillTimeout(r)
  <2>1. abandoned' = abandoned \cup {r} /\ UNCHANGED completed
    BY <1>5 DEF BackfillTimeout
  <2>2. Delivery!Drop(r)
    BY <1>1, <1>2, <2>1 DEF Delivery!Drop
  <2> QED
    BY <2>2 DEF Delivery!Next
<1> QED
  BY <1>3, <1>4, <1>5 DEF BackfillStep

\* The verdict is pronounced once, and says success exactly when nobody is left out.
LEMMA MismatchRefines ==
    ASSUME Inv, CollectMismatch
    PROVE  [Delivery!Next]_(Delivery!vars)
<1>1. /\ pc = "collect" /\ pc' = "ready" /\ result' = "Sha256Mismatch"
      /\ UNCHANGED <<completed, abandoned, stored>> /\ ShaMismatch(status)
  BY DEF CollectMismatch, CollectionEnds, rcvVars
<1>2. PICK r \in Receivers : status[r].code = "Failed"
  BY <1>1 DEF ShaMismatch
<1>3. r \notin completed /\ abandoned = {}
  BY <1>1, <1>2 DEF Inv, Verdicts
<1>4. completed \cup abandoned # Receivers
  BY <1>3
<1>5. Delivery!Decide
  BY <1>1, <1>4 DEF Delivery!Decide
<1> QED
  BY <1>5 DEF Delivery!Next

LEMMA VerdictRefines ==
    ASSUME BackfillEnds
    PROVE  [Delivery!Next]_(Delivery!vars)
<1>1. /\ pc = "backfill" /\ pc' = "ready" /\ result' = Verdict
      /\ UNCHANGED <<completed, abandoned, stored>>
  BY DEF BackfillEnds, rcvVars
<1>2. Verdict \in IF completed \cup abandoned = Receivers THEN {"Success"}
                  ELSE {"Sha256Mismatch", "Failed"}
  BY DEF Verdict, AllCompleted
<1>3. Delivery!Decide
  BY <1>1, <1>2 DEF Delivery!Decide
<1> QED
  BY <1>3 DEF Delivery!Next

LEMMA StepRefines ==
    ASSUME Inv, [Next]_vars
    PROVE  [Delivery!Next]_(Delivery!vars)
<1> USE DEF proxyVars, rcvVars, netVars
<1>1. CASE SendSection \/ CloseSection \/ RepairRound \/ RoundsExhausted \/ SectionsEnd
  <2>1. /\ pc \in {"section", "collect"} /\ pc' \in {"section", "collect", "backfill"}
        /\ UNCHANGED <<stored, completed, abandoned>>
    BY <1>1 DEF SendSection, CloseSection, RepairRound, RoundsExhausted, SectionsEnd,
                CollectionEnds
  <2> QED
    BY <2>1, Stutter DEF Seen
<1>2. CASE BarrierOpens \/ BarrierTimeout
  <2>1. /\ pc = "ready" /\ pc' \in {"done", "threw"} /\ result' = result
        /\ UNCHANGED <<stored, completed, abandoned>>
    BY <1>2 DEF BarrierOpens, BarrierTimeout
  <2> QED
    BY <2>1, Stutter DEF Seen
<1>3. ASSUME NEW r \in Receivers, ReadReady(r)
      PROVE  [Delivery!Next]_(Delivery!vars)
  <2>1. UNCHANGED <<stored, completed, abandoned, pc, result>>
    BY <1>3 DEF ReadReady
  <2> QED
    BY <2>1, Stutter DEF Seen
<1>4. ASSUME NEW r \in Receivers, ReceiverStep(r)
      PROVE  [Delivery!Next]_(Delivery!vars)
  <2>1. UNCHANGED <<completed, abandoned, result, pc>>
    BY <1>4 DEF ReceiverStep, RcvData, RcvDrainEnds, RcvControl
  <2>2. stored' = stored \/ stored' = stored \cup {r}
    BY <1>4 DEF ReceiverStep, RcvData, RcvDrainEnds, RcvControl, RcvBackfillEnd, Finalize
  <2> QED
    BY <2>1, <2>2, StutterOrStore
<1>5. CASE UNCHANGED vars
  <2>1. UNCHANGED <<stored, completed, abandoned, pc, result>>
    BY <1>5 DEF vars
  <2> QED
    BY <2>1, Stutter DEF Seen
<1> QED
  BY <1>1, <1>2, <1>3, <1>4, <1>5, FrameRefines, BackfillRefines, MismatchRefines,
     VerdictRefines
  DEF Next, ProxyStep, Finished

LEMMA InitRefines == Init => Delivery!Init
  BY DEF Init, Delivery!Init

\* ImplementsDelivery of SectionRepair: one attempt of send_file_attempt keeps the
\* promise of FileDelivery: a file is known to be there only after it is, a receiver
\* is either confirmed or given up and only before the verdict, and there is one
\* verdict, success exactly when nobody is left out but those given up.
THEOREM AttemptImplementsDelivery == Spec => ImplementsDelivery
<1>1. Init => Delivery!Init
  BY InitRefines
<1>2. Inv /\ [Next]_vars => [Delivery!Next]_(Delivery!vars)
  BY StepRefines
<1> QED
  BY <1>1, <1>2, Invariance, PTL DEF Spec, ImplementsDelivery, Delivery!Spec

\* What the verdict of an attempt stands for.
VerdictStands ==
    /\ completed \subseteq stored
    /\ pc \in {"ready", "done", "threw"} /\ result = "Success" =>
          Receivers \subseteq stored \cup abandoned

\* It follows from the promise alone: once the verdict is there nobody is
\* confirmed or given up any more, and a stored file is not taken away.
LEMMA PromiseStands ==
    /\ Delivery!Init => VerdictStands
    /\ VerdictStands /\ [Delivery!Next]_(Delivery!vars) => VerdictStands'
<1> DEFINE verdict == IF pc \in {"ready", "done", "threw"} THEN result ELSE "open"
<1>1. VerdictStands <=> /\ completed \subseteq stored
                        /\ verdict = "Success" => Receivers \subseteq stored \cup abandoned
  BY DEF VerdictStands
<1>2. VerdictStands' <=>
         /\ completed' \subseteq stored'
         /\ verdict' = "Success" => Receivers \subseteq stored' \cup abandoned'
  BY DEF VerdictStands
<1>3. Delivery!Init => completed = {} /\ verdict = "open"
  BY DEF Delivery!Init
<1>4. ASSUME NEW r \in Receivers, Delivery!Store(r) \/ Delivery!Confirm(r) \/ Delivery!Drop(r)
      PROVE  /\ verdict' = verdict /\ stored \subseteq stored' /\ abandoned \subseteq abandoned'
             /\ completed' = completed \/ (completed' = completed \cup {r} /\ r \in stored)
  BY <1>4 DEF Delivery!Store, Delivery!Confirm, Delivery!Drop
<1>5. ASSUME Delivery!Decide
      PROVE  /\ verdict' = "Success" => completed \cup abandoned = Receivers
             /\ UNCHANGED <<stored, completed, abandoned>>
  BY <1>5 DEF Delivery!Decide
<1>6. ASSUME UNCHANGED Delivery!vars
      PROVE  verdict' = verdict /\ UNCHANGED <<stored, completed, abandoned>>
  BY <1>6 DEF Delivery!vars
<1> HIDE DEF verdict
<1>7. Delivery!Init => VerdictStands
  BY <1>1, <1>3
<1>8. ASSUME VerdictStands, [Delivery!Next]_(Delivery!vars) PROVE VerdictStands'
  <2>1. CASE \E r \in Receivers : Delivery!Store(r) \/ Delivery!Confirm(r) \/ Delivery!Drop(r)
    BY <1>1, <1>2, <1>4, <1>8, <2>1
  <2>2. CASE Delivery!Decide
    BY <1>1, <1>2, <1>5, <1>8, <2>2
  <2>3. CASE UNCHANGED Delivery!vars
    BY <1>1, <1>2, <1>6, <1>8, <2>3
  <2> QED
    BY <1>8, <2>1, <2>2, <2>3 DEF Delivery!Next
<1> QED
  BY <1>7, <1>8

\* When send_file_attempt says Success, every receiver that was not given up has
\* the verified file in place, for every number of receivers and rounds and
\* whatever was lost: a consequence of the refinement.
THEOREM SuccessIsDeserved == Spec => []VerdictStands
<1>1. Delivery!Spec => []VerdictStands
  BY PromiseStands, PTL DEF Delivery!Spec
<1> QED
  BY <1>1, AttemptImplementsDelivery, PTL DEF ImplementsDelivery
==============================================================================
