------------------------ MODULE RepairPlanning_proof ------------------------
(***************************************************************************)
(* Proofs about RepairPlanning, for every number of receivers, section,    *)
(* report, limit and order of failures: nothing is served twice or left    *)
(* out, and no source serves more targets than the limit.                  *)
(***************************************************************************)
EXTENDS RepairPlanning, WellFoundedInduction, FiniteSetTheorems, TLAPS

------------------------------------------------------------------------------
(* The inductive invariant *)

PlanShape(p) ==
    p \in [peer     : [Receivers -> [Receivers -> SUBSET SectionBlocks]],
           load     : [Receivers -> Nat],
           fallback : [Receivers -> SUBSET SectionBlocks]]

\* The plan has a sender for block b of target t.
InPlan(p, b, t) == b \in p.fallback[t] \/ \E s \in Receivers : b \in p.peer[s][t]

\* No block has two senders for one target.
Apart(p) ==
    \A t \in Receivers :
        /\ \A s \in Receivers : p.peer[s][t] \cap p.fallback[t] = {}
        /\ \A s, q \in Receivers : s # q => p.peer[s][t] \cap p.peer[q][t] = {}

OnlyScattered(p) ==
    \A t \in Receivers, b \in SectionBlocks : InPlan(p, b, t) => <<b, t>> \in Scattered(missing)

\* source_target_count is at least the number of targets, and within the limit.
Targets(p, s) == {t \in Receivers : p.peer[s][t] # {}}
Bounded(p) ==
    \A s \in Receivers : /\ Cardinality(Targets(p, s)) <= p.load[s]
                          /\ p.load[s] <= MaxTargetsPerSource

\* While pairs are assigned, those left are exactly those without a sender.
Assigning ==
    /\ Apart(plan) /\ OnlyScattered(plan)
    /\ todo \subseteq Scattered(missing)
    /\ \A b \in SectionBlocks, t \in Receivers :
          <<b, t>> \in Scattered(missing) => (<<b, t>> \in todo <=> ~InPlan(plan, b, t))
    /\ sent = {}

\* While tasks are sent, everything missing is in the multicast, with the proxy or
\* in one task.
TaskShape == [source : Receivers, target : Receivers, blocks : SUBSET SectionBlocks]

Disjoint(T) ==
    \A j, k \in T : j # k /\ j.target = k.target => j.blocks \cap k.blocks = {}
Spared(T, p) ==
    \A k \in T : k.blocks \cap (p.fallback[k.target] \cup Multicast(missing)) = {}
Covered(T, p) ==
    \A b \in SectionBlocks : \A t \in missing[b] :
        \/ b \in Multicast(missing)
        \/ b \in p.fallback[t]
        \/ \E k \in T : k.target = t /\ b \in k.blocks

Sending ==
    /\ tasks \subseteq TaskShape /\ sent \subseteq TaskShape
    /\ tasks \cap sent = {}
    /\ Disjoint(tasks \cup sent)
    /\ Spared(tasks \cup sent, plan)
    /\ Covered(tasks \cup sent, plan)

Inv ==
    /\ phase \in {"assign", "send", "done"}
    /\ PlanShape(plan) /\ Bounded(plan)
    /\ phase = "assign" => Assigning
    /\ phase # "assign" => Sending
    /\ phase = "done" => tasks = {}

------------------------------------------------------------------------------
(* Lemmas about the planner *)

\* A set of receivers has a least one.
LEMMA MinReceiver ==
    ASSUME NEW S \in SUBSET Receivers, S # {}
    PROVE  Min(S) \in S
<1> DEFINE R == OpToRel(<, Nat)
<1>1. S \subseteq Nat
  BY RepairPlanAssumption DEF Receivers
<1>2. PICK x \in S : \A y \in S : ~(<<y, x>> \in R)
  BY <1>1, NatLessThanWellFounded, WFMin
<1>3. \A y \in S : ~(y < x)
  BY <1>1, <1>2 DEF OpToRel
<1>4. \A y \in S : x =< y
  BY <1>1, <1>3
<1> QED
  BY <1>4 DEF Min

LEMMA TargetsFinite ==
    ASSUME NEW p, NEW s
    PROVE  IsFiniteSet(Targets(p, s)) /\ Cardinality(Targets(p, s)) \in Nat
<1>1. IsFiniteSet(Receivers)
  BY RepairPlanAssumption, FS_Interval DEF Receivers
<1>2. IsFiniteSet(Targets(p, s))
  BY <1>1, FS_Subset DEF Targets
<1> QED
  BY <1>2, FS_CardinalityType

\* A cell of a table, after one cell was changed.
LEMMA OneCell ==
    ASSUME NEW A, NEW B, NEW V, NEW f \in [A -> [B -> V]], NEW x \in A, NEW y \in B, NEW v
    PROVE  \A q \in A, u \in B :
              [f EXCEPT ![x][y] = v][q][u] = IF q = x /\ u = y THEN v ELSE f[q][u]
  OBVIOUS

\* Source s gets block b for target t, and nothing else changes.
Gives(p, g, s, t, b) ==
    \A q, u \in Receivers :
       g.peer[q][u] = IF q = s /\ u = t THEN p.peer[s][t] \cup {b} ELSE p.peer[q][u]

LEMMA PeerGives ==
    ASSUME NEW p, PlanShape(p), NEW b, NEW s \in Receivers, NEW t \in Receivers,
           NEW g, g.peer = [p.peer EXCEPT ![s][t] = @ \cup {b}]
    PROVE  Gives(p, g, s, t, b)
<1>1. p.peer \in [Receivers -> [Receivers -> SUBSET SectionBlocks]]
  BY DEF PlanShape
<1>2. g.peer = [p.peer EXCEPT ![s][t] = p.peer[s][t] \cup {b}]
  OBVIOUS
<1> QED
  BY <1>1, <1>2, OneCell DEF Gives

\* One more block for a source: everything but the load.
LEMMA ToPeer ==
    ASSUME NEW p, PlanShape(p), Apart(p), OnlyScattered(p),
           NEW b \in SectionBlocks, NEW t \in Receivers, <<b, t>> \in Scattered(missing),
           ~InPlan(p, b, t), NEW s \in Receivers,
           NEW g, PlanShape(g), g.fallback = p.fallback, Gives(p, g, s, t, b)
    PROVE  /\ Apart(g) /\ OnlyScattered(g)
           /\ \A c \in SectionBlocks, u \in Receivers :
                 InPlan(g, c, u) <=> InPlan(p, c, u) \/ (c = b /\ u = t)
<1>1. \A q, u \in Receivers :
         g.peer[q][u] = IF q = s /\ u = t THEN p.peer[s][t] \cup {b} ELSE p.peer[q][u]
  BY DEF Gives
<1>2. \A c \in SectionBlocks, u \in Receivers :
         InPlan(g, c, u) <=> InPlan(p, c, u) \/ (c = b /\ u = t)
  <2> SUFFICES ASSUME NEW c \in SectionBlocks, NEW u \in Receivers
               PROVE  InPlan(g, c, u) <=> InPlan(p, c, u) \/ (c = b /\ u = t)
    OBVIOUS
  <2>1. \A q \in Receivers :
           c \in g.peer[q][u] <=> c \in p.peer[q][u] \/ (q = s /\ c = b /\ u = t)
    BY <1>1
  <2> QED
    BY <2>1 DEF InPlan
<1>3. OnlyScattered(g)
  BY <1>2 DEF OnlyScattered
<1>4. Apart(g)
  <2> SUFFICES ASSUME NEW u \in Receivers
               PROVE  /\ \A q \in Receivers : g.peer[q][u] \cap g.fallback[u] = {}
                      /\ \A q, v \in Receivers : q # v => g.peer[q][u] \cap g.peer[v][u] = {}
    BY DEF Apart
  <2>1. /\ \A q \in Receivers : p.peer[q][u] \cap p.fallback[u] = {}
        /\ \A q, v \in Receivers : q # v => p.peer[q][u] \cap p.peer[v][u] = {}
    BY DEF Apart
  <2>2. u = t => b \notin p.fallback[u] /\ \A q \in Receivers : b \notin p.peer[q][u]
    BY DEF InPlan
  <2> QED
    BY <1>1, <2>1, <2>2
<1> QED
  BY <1>2, <1>3, <1>4

\* One more block for the proxy.
LEMMA ToProxy ==
    ASSUME NEW p, PlanShape(p), Apart(p), OnlyScattered(p),
           NEW b \in SectionBlocks, NEW t \in Receivers, <<b, t>> \in Scattered(missing),
           ~InPlan(p, b, t),
           NEW g, PlanShape(g), g.peer = p.peer,
           g.fallback = [p.fallback EXCEPT ![t] = @ \cup {b}]
    PROVE  /\ Apart(g) /\ OnlyScattered(g)
           /\ \A c \in SectionBlocks, u \in Receivers :
                 InPlan(g, c, u) <=> InPlan(p, c, u) \/ (c = b /\ u = t)
<1>1. \A u \in Receivers :
         g.fallback[u] = IF u = t THEN p.fallback[u] \cup {b} ELSE p.fallback[u]
  BY DEF PlanShape
<1>2. \A c \in SectionBlocks, u \in Receivers :
         InPlan(g, c, u) <=> InPlan(p, c, u) \/ (c = b /\ u = t)
  BY <1>1 DEF InPlan
<1>3. OnlyScattered(g)
  BY <1>2 DEF OnlyScattered
<1>4. Apart(g)
  BY <1>1 DEF Apart, InPlan
<1> QED
  BY <1>2, <1>3, <1>4

\* What Assign does to one pair, and that a new source stays within the limit.
LEMMA AssignGood ==
    ASSUME NEW p, PlanShape(p), Apart(p), OnlyScattered(p), Bounded(p),
           NEW b \in SectionBlocks, NEW t \in Receivers, <<b, t>> \in Scattered(missing),
           ~InPlan(p, b, t)
    PROVE  /\ PlanShape(Assign(has, p, b, t)) /\ Bounded(Assign(has, p, b, t))
           /\ Apart(Assign(has, p, b, t)) /\ OnlyScattered(Assign(has, p, b, t))
           /\ \A c \in SectionBlocks, u \in Receivers :
                 InPlan(Assign(has, p, b, t), c, u) <=> InPlan(p, c, u) \/ (c = b /\ u = t)
<1> DEFINE g == Assign(has, p, b, t)
           serving == ServingSources(has, p, b, t)
           fresh == FreshSources(has, p, b, t)
<1>0. serving \subseteq Receivers /\ fresh \subseteq Receivers
  BY DEF ServingSources, FreshSources
<1>1. CASE serving # {}
  <2> DEFINE s == Min(serving)
  <2>1. s \in serving /\ s \in Receivers
    BY <1>0, <1>1, MinReceiver
  <2>2. g = [p EXCEPT !.peer[s][t] = @ \cup {b}]
    BY <1>1 DEF Assign
  <2>3. p.peer[s][t] # {}
    BY <2>1 DEF ServingSources
  <2> HIDE DEF s, serving, fresh, g
  <2>4. PlanShape(g) /\ g.fallback = p.fallback /\ g.load = p.load
        /\ g.peer = [p.peer EXCEPT ![s][t] = @ \cup {b}]
    <3>1. g = [peer |-> [p.peer EXCEPT ![s][t] = @ \cup {b}], load |-> p.load,
               fallback |-> p.fallback]
      BY <2>2 DEF PlanShape
    <3>2. [p.peer EXCEPT ![s][t] = @ \cup {b}] \in [Receivers -> [Receivers -> SUBSET SectionBlocks]]
      BY <2>1 DEF PlanShape
    <3> QED
      BY <3>1, <3>2 DEF PlanShape
  <2>5. \A q, u \in Receivers : g.peer[q][u] # {} <=> p.peer[q][u] # {}
    BY <2>1, <2>3, <2>4 DEF PlanShape
  <2>6. \A q \in Receivers : Targets(g, q) = Targets(p, q)
    BY <2>5 DEF Targets
  <2>7. Bounded(g)
    BY <2>4, <2>6 DEF Bounded
  <2>8. /\ Apart(g) /\ OnlyScattered(g)
        /\ \A c \in SectionBlocks, u \in Receivers :
              InPlan(g, c, u) <=> InPlan(p, c, u) \/ (c = b /\ u = t)
    <3>1. Gives(p, g, s, t, b)
      BY <2>1, <2>4, PeerGives
    <3> QED
      BY <2>1, <2>4, <3>1, ToPeer
  <2> QED
    BY <2>4, <2>7, <2>8 DEF g
<1>2. CASE serving = {} /\ fresh # {}
  <2> DEFINE s == Min(fresh)
  <2>1. s \in fresh /\ s \in Receivers
    BY <1>0, <1>2, MinReceiver
  <2>2. g = [p EXCEPT !.peer[s][t] = @ \cup {b}, !.load[s] = @ + 1]
    BY <1>2 DEF Assign
  <2>3. p.peer[s][t] = {} /\ p.load[s] < MaxTargetsPerSource
    BY <1>2, <2>1 DEF ServingSources, FreshSources
  <2> HIDE DEF s, serving, fresh, g
  <2>4. /\ PlanShape(g) /\ g.fallback = p.fallback
        /\ g.peer = [p.peer EXCEPT ![s][t] = @ \cup {b}]
        /\ g.load = [p.load EXCEPT ![s] = @ + 1]
    <3>1. g = [peer |-> [p.peer EXCEPT ![s][t] = @ \cup {b}],
               load |-> [p.load EXCEPT ![s] = @ + 1], fallback |-> p.fallback]
      BY <2>2 DEF PlanShape
    <3>2. [p.peer EXCEPT ![s][t] = @ \cup {b}] \in [Receivers -> [Receivers -> SUBSET SectionBlocks]]
      BY <2>1 DEF PlanShape
    <3>3. [p.load EXCEPT ![s] = @ + 1] \in [Receivers -> Nat]
      BY <2>1 DEF PlanShape
    <3> QED
      BY <3>1, <3>2, <3>3 DEF PlanShape
  <2>5. \A q, u \in Receivers :
           g.peer[q][u] # {} <=> p.peer[q][u] # {} \/ (q = s /\ u = t)
    <3>1. Gives(p, g, s, t, b)
      BY <2>1, <2>4, PeerGives
    <3> QED
      BY <3>1 DEF Gives
  <2>6. \A q \in Receivers :
           Targets(g, q) = IF q = s THEN Targets(p, q) \cup {t} ELSE Targets(p, q)
    BY <2>5 DEF Targets
  <2>7. Cardinality(Targets(p, s) \cup {t}) <= Cardinality(Targets(p, s)) + 1
    <3>1. IsFiniteSet(Targets(p, s)) /\ Cardinality(Targets(p, s)) \in Nat
      BY TargetsFinite
    <3> HIDE DEF s
    <3>2. Cardinality(Targets(p, s) \cup {t}) = IF t \in Targets(p, s) THEN Cardinality(Targets(p, s))
                                                 ELSE Cardinality(Targets(p, s)) + 1
      BY <3>1, FS_AddElement
    <3> QED
      BY <3>1, <3>2
  <2>8. \A q \in Receivers : g.load[q] = IF q = s THEN p.load[q] + 1 ELSE p.load[q]
    BY <2>1, <2>4 DEF PlanShape
  <2>9. Bounded(g)
    <3> SUFFICES ASSUME NEW q \in Receivers
                 PROVE  /\ Cardinality(Targets(g, q)) <= g.load[q]
                        /\ g.load[q] <= MaxTargetsPerSource
      BY DEF Bounded
    <3>1. /\ Cardinality(Targets(p, q)) <= p.load[q] /\ p.load[q] <= MaxTargetsPerSource
          /\ p.load[q] \in Nat /\ MaxTargetsPerSource \in Nat
          /\ Cardinality(Targets(p, q)) \in Nat
      BY RepairPlanAssumption, TargetsFinite DEF Bounded, PlanShape
    <3>2. CASE q = s
      <4>1. Targets(g, q) = Targets(p, s) \cup {t} /\ g.load[q] = p.load[s] + 1
        BY <2>6, <2>8, <3>2
      <4>2. Cardinality(Targets(p, s) \cup {t}) \in Nat
        BY TargetsFinite, FS_AddElement, FS_CardinalityType
      <4> QED
        BY <2>3, <2>7, <3>1, <3>2, <4>1, <4>2
    <3>3. CASE q # s
      BY <2>6, <2>8, <3>1, <3>3
    <3> QED
      BY <3>2, <3>3
  <2>10. /\ Apart(g) /\ OnlyScattered(g)
         /\ \A c \in SectionBlocks, u \in Receivers :
               InPlan(g, c, u) <=> InPlan(p, c, u) \/ (c = b /\ u = t)
    <3>1. Gives(p, g, s, t, b)
      BY <2>1, <2>4, PeerGives
    <3> QED
      BY <2>1, <2>4, <3>1, ToPeer
  <2> QED
    BY <2>4, <2>9, <2>10 DEF g
<1>3. CASE serving = {} /\ fresh = {}
  <2>1. g = [p EXCEPT !.fallback[t] = @ \cup {b}]
    BY <1>3 DEF Assign
  <2> HIDE DEF serving, fresh, g
  <2>2. /\ PlanShape(g) /\ g.peer = p.peer /\ g.load = p.load
        /\ g.fallback = [p.fallback EXCEPT ![t] = @ \cup {b}]
    BY <2>1 DEF PlanShape
  <2>3. Bounded(g)
    BY <2>2 DEF Bounded, Targets
  <2>4. /\ Apart(g) /\ OnlyScattered(g)
        /\ \A c \in SectionBlocks, u \in Receivers :
              InPlan(g, c, u) <=> InPlan(p, c, u) \/ (c = b /\ u = t)
    BY <2>2, ToProxy
  <2> QED
    BY <2>2, <2>3, <2>4 DEF g
<1> QED
  BY <1>1, <1>2, <1>3

\* A plan too small to be worth a task only changes its sender.
LEMMA DropSmallGood ==
    ASSUME NEW p, PlanShape(p), Apart(p), OnlyScattered(p), Bounded(p)
    PROVE  /\ PlanShape(DropSmall(p)) /\ Bounded(DropSmall(p))
           /\ Apart(DropSmall(p)) /\ OnlyScattered(DropSmall(p))
           /\ \A c \in SectionBlocks, u \in Receivers :
                 InPlan(DropSmall(p), c, u) <=> InPlan(p, c, u)
<1> DEFINE small(s, t) == Cardinality(p.peer[s][t]) < MinPeerBlocks
           back(t) == UNION {p.peer[s][t] : s \in {q \in Receivers : small(q, t)}}
           g == DropSmall(p)
<1>1. /\ g.peer = [s \in Receivers |-> [t \in Receivers |->
                      IF small(s, t) THEN {} ELSE p.peer[s][t]]]
      /\ g.fallback = [t \in Receivers |-> p.fallback[t] \cup back(t)]
      /\ g.load = p.load
      /\ g = [peer |-> g.peer, load |-> g.load, fallback |-> g.fallback]
  <2> DEFINE np == [s \in Receivers |-> [t \in Receivers |->
                      IF small(s, t) THEN {} ELSE p.peer[s][t]]]
             nf == [t \in Receivers |-> p.fallback[t] \cup back(t)]
  <2>1. g = [p EXCEPT !.peer = np, !.fallback = nf]
    BY DEF DropSmall
  <2> HIDE DEF np, nf, g
  <2>2. g = [peer |-> np, load |-> p.load, fallback |-> nf]
    BY <2>1 DEF PlanShape
  <2> QED
    BY <2>2 DEF np, nf
<1>2. ASSUME NEW s \in Receivers, NEW t \in Receivers
      PROVE  p.peer[s][t] \in SUBSET SectionBlocks /\ p.fallback[t] \in SUBSET SectionBlocks
  BY DEF PlanShape
<1>3. \A s, t \in Receivers : g.peer[s][t] = IF small(s, t) THEN {} ELSE p.peer[s][t]
  BY <1>1
<1>4. \A t \in Receivers : g.fallback[t] = p.fallback[t] \cup back(t)
  BY <1>1
<1>5. \A t \in Receivers, c \in SectionBlocks :
         c \in back(t) <=> \E s \in Receivers : small(s, t) /\ c \in p.peer[s][t]
  OBVIOUS
<1>6. \A t \in Receivers : back(t) \subseteq SectionBlocks
  BY <1>2
<1>7. PlanShape(g)
  <2>1. g.peer \in [Receivers -> [Receivers -> SUBSET SectionBlocks]]
    BY <1>1, <1>2
  <2>2. g.fallback \in [Receivers -> SUBSET SectionBlocks]
    BY <1>1, <1>2, <1>6
  <2>3. g.load \in [Receivers -> Nat]
    BY <1>1 DEF PlanShape
  <2> HIDE DEF g
  <2> QED
    BY <1>1, <2>1, <2>2, <2>3 DEF PlanShape
<1> HIDE DEF g, back, small
<1>8. \A c \in SectionBlocks, u \in Receivers : InPlan(g, c, u) <=> InPlan(p, c, u)
  <2> SUFFICES ASSUME NEW c \in SectionBlocks, NEW u \in Receivers
               PROVE  InPlan(g, c, u) <=> InPlan(p, c, u)
    OBVIOUS
  <2>1. c \in g.fallback[u] <=>
           c \in p.fallback[u] \/ \E s \in Receivers : small(s, u) /\ c \in p.peer[s][u]
    BY <1>4, <1>5
  <2>2. \A s \in Receivers : c \in g.peer[s][u] <=> ~small(s, u) /\ c \in p.peer[s][u]
    BY <1>3
  <2> QED
    BY <2>1, <2>2 DEF InPlan
<1>9. OnlyScattered(g)
  BY <1>8 DEF OnlyScattered
<1>10. Apart(g)
  <2> SUFFICES ASSUME NEW t \in Receivers
               PROVE  /\ \A s \in Receivers : g.peer[s][t] \cap g.fallback[t] = {}
                      /\ \A s, q \in Receivers : s # q => g.peer[s][t] \cap g.peer[q][t] = {}
    BY DEF Apart
  <2>0. /\ \A s \in Receivers : p.peer[s][t] \cap p.fallback[t] = {}
        /\ \A s, q \in Receivers : s # q => p.peer[s][t] \cap p.peer[q][t] = {}
    BY DEF Apart
  <2>1. ASSUME NEW s \in Receivers, NEW c \in g.peer[s][t], c \in g.fallback[t]
        PROVE  FALSE
    <3>1. ~small(s, t) /\ c \in p.peer[s][t] /\ c \in SectionBlocks
      BY <1>2, <1>3, <2>1
    <3>2. c \notin p.fallback[t]
      BY <2>0, <3>1
    <3>3. PICK q \in Receivers : small(q, t) /\ c \in p.peer[q][t]
      BY <1>4, <1>5, <2>1, <3>1, <3>2
    <3> QED
      BY <2>0, <3>1, <3>3
  <2>2. \A s, q \in Receivers : s # q => g.peer[s][t] \cap g.peer[q][t] = {}
    BY <1>3, <2>0
  <2> QED
    BY <2>1, <2>2
<1>11. Bounded(g)
  <2> SUFFICES ASSUME NEW s \in Receivers
               PROVE  Cardinality(Targets(g, s)) <= g.load[s] /\ g.load[s] <= MaxTargetsPerSource
    BY DEF Bounded
  <2>1. Targets(g, s) \subseteq Targets(p, s)
    BY <1>3 DEF Targets
  <2>2. Cardinality(Targets(g, s)) <= Cardinality(Targets(p, s))
    BY <2>1, TargetsFinite, FS_Subset
  <2>3. /\ Cardinality(Targets(p, s)) <= p.load[s] /\ p.load[s] <= MaxTargetsPerSource
        /\ p.load[s] \in Nat /\ g.load[s] = p.load[s]
    BY <1>1 DEF Bounded, PlanShape
  <2>4. Cardinality(Targets(p, s)) \in Nat /\ Cardinality(Targets(g, s)) \in Nat
    BY TargetsFinite
  <2> QED
    BY <2>2, <2>3, <2>4
<1> QED
  BY <1>7, <1>8, <1>9, <1>10, <1>11 DEF g

\* The tasks of one plan cut it into pieces that do not overlap.
LEMMA ChunksPartition ==
    ASSUME NEW S
    PROVE  /\ \A c \in Chunks(S) : c \subseteq S
           /\ \A b \in S : \E c \in Chunks(S) : b \in c
           /\ \A c, d \in Chunks(S) : c # d => c \cap d = {}
<1> DEFINE key(b) == Rank(b, S) \div MaxTaskBlocks
           chunk(k) == {b \in S : key(b) = k}
<1>1. Chunks(S) = {chunk(k) : k \in {key(b) : b \in S}}
  BY DEF Chunks
<1>2. \A k : chunk(k) \subseteq S
  OBVIOUS
<1>3. \A b \in S : chunk(key(b)) \in Chunks(S) /\ b \in chunk(key(b))
  BY <1>1
<1>4. \A k, l : chunk(k) # chunk(l) => chunk(k) \cap chunk(l) = {}
  OBVIOUS
<1>5. \A c \in Chunks(S) : \E k : c = chunk(k)
  BY <1>1
<1> HIDE DEF key, chunk
<1> QED
  BY <1>2, <1>3, <1>4, <1>5

------------------------------------------------------------------------------
(* The invariant *)

LEMMA MissingFacts ==
    \A b \in SectionBlocks :
        /\ missing[b] \subseteq Receivers
        /\ \A t \in Receivers : <<b, t>> \in Scattered(missing) <=>
              t \in missing[b] /\ b \notin Multicast(missing)
<1> DOMAIN missing = SectionBlocks
  BY DEF missing
<1>1. \A b \in SectionBlocks : missing[b] \subseteq Receivers
  BY DEF missing
<1> QED
  BY <1>1 DEF Scattered

LEMMA InitInv == Init => Inv
<1> SUFFICES ASSUME Init PROVE Inv
  OBVIOUS
<1>1. /\ plan = EmptyPlan /\ phase = "assign" /\ todo = Scattered(missing)
      /\ tasks = {} /\ sent = {}
  BY DEF Init
<1>2. PlanShape(plan)
  BY <1>1 DEF EmptyPlan, PlanShape
<1>3. /\ \A s, t \in Receivers : plan.peer[s][t] = {}
      /\ \A t \in Receivers : plan.fallback[t] = {} /\ plan.load[t] = 0
  BY <1>1 DEF EmptyPlan
<1>4. Bounded(plan)
  <2>1. \A s \in Receivers : Targets(plan, s) = {}
    BY <1>3 DEF Targets
  <2>2. MaxTargetsPerSource \in Nat /\ Cardinality({}) = 0
    BY RepairPlanAssumption, FS_EmptySet
  <2>3. \A s \in Receivers : Cardinality(Targets(plan, s)) = 0 /\ plan.load[s] = 0
    BY <1>3, <2>1, <2>2
  <2> QED
    BY <2>2, <2>3 DEF Bounded
<1>5. Assigning
  <2>1. \A b \in SectionBlocks, t \in Receivers : ~InPlan(plan, b, t)
    BY <1>3 DEF InPlan
  <2>2. Apart(plan)
    BY <1>3 DEF Apart
  <2> QED
    BY <1>1, <2>1, <2>2 DEF Assigning, OnlyScattered
<1> QED
  BY <1>1, <1>2, <1>4, <1>5 DEF Inv

LEMMA AssignPairInv ==
    ASSUME Inv, AssignPair
    PROVE  Inv'
<1>1. PICK p \in todo : todo' = todo \ {p} /\ plan' = Assign(has, plan, p[1], p[2])
  BY DEF AssignPair
<1>2. /\ phase = "assign" /\ phase' = "assign" /\ report' = report
      /\ tasks' = tasks /\ sent' = sent
  BY DEF AssignPair
<1>3. Assigning /\ PlanShape(plan) /\ Bounded(plan)
  BY <1>2 DEF Inv
<1>4. missing' = missing
  BY <1>2 DEF missing
<1>5. PICK b \in SectionBlocks, t \in Receivers : p = <<b, t>>
  <2>1. DOMAIN missing = SectionBlocks
    BY DEF missing
  <2> QED
    BY <1>3, <2>1 DEF Assigning, Scattered
<1>6. <<b, t>> \in todo /\ <<b, t>> \in Scattered(missing)
  BY <1>3, <1>5 DEF Assigning
<1>7. ~InPlan(plan, b, t)
  BY <1>3, <1>6 DEF Assigning
<1>8. plan' = Assign(has, plan, b, t) /\ todo' = todo \ {<<b, t>>}
  BY <1>1, <1>5
<1>9. /\ PlanShape(plan') /\ Bounded(plan') /\ Apart(plan') /\ OnlyScattered(plan')
      /\ \A c \in SectionBlocks, u \in Receivers :
            InPlan(plan', c, u) <=> InPlan(plan, c, u) \/ (c = b /\ u = t)
  BY <1>3, <1>6, <1>7, <1>8, AssignGood DEF Assigning
<1>10. OnlyScattered(plan)'
  BY <1>4, <1>9 DEF OnlyScattered
<1>11. \A c \in SectionBlocks, u \in Receivers :
          <<c, u>> \in Scattered(missing) => (<<c, u>> \in todo' <=> ~InPlan(plan', c, u))
  BY <1>3, <1>8, <1>9 DEF Assigning
<1>12. todo' \subseteq Scattered(missing) /\ sent' = {}
  BY <1>2, <1>3, <1>8 DEF Assigning
<1>13. Assigning'
  BY <1>4, <1>9, <1>10, <1>11, <1>12 DEF Assigning
<1> QED
  BY <1>2, <1>9, <1>13 DEF Inv

LEMMA PlanEndsInv ==
    ASSUME Inv, PlanEnds
    PROVE  Inv'
<1> DEFINE p == DropSmall(plan)
<1>1. /\ phase = "assign" /\ todo = {} /\ phase' = "send" /\ plan' = p
      /\ tasks' = TasksOf(p) /\ sent' = sent /\ report' = report
  BY DEF PlanEnds
<1>2. Assigning /\ PlanShape(plan) /\ Bounded(plan)
  BY <1>1 DEF Inv
<1>3. /\ PlanShape(p) /\ Bounded(p) /\ Apart(p) /\ OnlyScattered(p)
      /\ \A c \in SectionBlocks, u \in Receivers : InPlan(p, c, u) <=> InPlan(plan, c, u)
  BY <1>2, DropSmallGood DEF Assigning
<1>4. missing' = missing
  BY <1>1 DEF missing
<1>5. sent = {} /\ \A b \in SectionBlocks, t \in Receivers :
                      <<b, t>> \in Scattered(missing) => InPlan(p, b, t)
  BY <1>1, <1>2, <1>3 DEF Assigning
<1> HIDE DEF p
<1>6. ASSUME NEW k \in TasksOf(p)
      PROVE  /\ k \in TaskShape /\ k.blocks \in Chunks(p.peer[k.source][k.target])
             /\ k.blocks \subseteq p.peer[k.source][k.target]
  BY ChunksPartition DEF TasksOf, TaskShape
<1>7. Disjoint(TasksOf(p))
  <2> SUFFICES ASSUME NEW j \in TasksOf(p), NEW k \in TasksOf(p), j # k, j.target = k.target
               PROVE  j.blocks \cap k.blocks = {}
    BY DEF Disjoint
  <2>1. CASE j.source = k.source
    <3>1. j.blocks # k.blocks
      BY <1>6, <2>1 DEF TaskShape
    <3> QED
      BY <1>6, <2>1, <3>1, ChunksPartition
  <2>2. CASE j.source # k.source
    BY <1>3, <1>6, <2>2 DEF Apart, TaskShape
  <2> QED
    BY <2>1, <2>2
<1>8. Spared(TasksOf(p), p)
  <2> SUFFICES ASSUME NEW k \in TasksOf(p), NEW b \in k.blocks
               PROVE  b \notin p.fallback[k.target] /\ b \notin Multicast(missing)
    BY DEF Spared
  <2>1. /\ k.source \in Receivers /\ k.target \in Receivers /\ b \in SectionBlocks
        /\ b \in p.peer[k.source][k.target]
    BY <1>6 DEF TaskShape
  <2>2. <<b, k.target>> \in Scattered(missing)
    BY <1>3, <2>1 DEF OnlyScattered, InPlan
  <2> QED
    BY <1>3, <2>1, <2>2, MissingFacts DEF Apart
<1>9. Covered(TasksOf(p), p)
  <2> SUFFICES ASSUME NEW b \in SectionBlocks, NEW t \in missing[b],
                      b \notin Multicast(missing), b \notin p.fallback[t]
               PROVE  \E k \in TasksOf(p) : k.target = t /\ b \in k.blocks
    BY DEF Covered
  <2>1. t \in Receivers /\ <<b, t>> \in Scattered(missing)
    BY MissingFacts
  <2>2. PICK s \in Receivers : b \in p.peer[s][t]
    BY <1>5, <2>1 DEF InPlan
  <2>3. PICK c \in Chunks(p.peer[s][t]) : b \in c
    BY <2>2, ChunksPartition
  <2>4. c \in SUBSET SectionBlocks
    BY <1>3, <2>1, <2>3, ChunksPartition DEF PlanShape
  <2> DEFINE k == [source |-> s, target |-> t, blocks |-> c]
  <2>5. k \in TasksOf(p)
    BY <2>1, <2>3, <2>4 DEF TasksOf
  <2> QED
    BY <2>3, <2>5
<1>10. Sending'
  <2>1. tasks' \cup sent' = TasksOf(p) /\ sent' = {} /\ tasks' = TasksOf(p)
    BY <1>1, <1>5
  <2>2. tasks' \subseteq TaskShape
    BY <1>6, <2>1
  <2> QED
    BY <1>1, <1>4, <1>7, <1>8, <1>9, <2>1, <2>2 DEF Sending, Disjoint, Spared, Covered
<1> QED
  BY <1>1, <1>3, <1>10 DEF Inv

LEMMA SendTaskInv ==
    ASSUME Inv, SendTask
    PROVE  Inv'
<1>1. PICK k \in tasks : tasks' = tasks \ {k} /\ sent' = sent \cup {k}
  BY DEF SendTask
<1>2. /\ phase = "send" /\ phase' = "send" /\ report' = report /\ plan' = plan
  BY DEF SendTask
<1>3. Sending /\ missing' = missing
  BY <1>2 DEF Inv, missing
<1>4. tasks' \cup sent' = tasks \cup sent
  BY <1>1
<1>5. tasks' \subseteq TaskShape /\ sent' \subseteq TaskShape /\ tasks' \cap sent' = {}
  BY <1>1, <1>3 DEF Sending
<1>6. Sending'
  BY <1>2, <1>3, <1>4, <1>5 DEF Sending, Disjoint, Spared, Covered
<1> QED
  BY <1>2, <1>6 DEF Inv, Bounded, PlanShape, Targets

LEMMA SendFailsInv ==
    ASSUME Inv, SendFails
    PROVE  Inv'
<1>1. PICK k \in tasks : /\ tasks' = tasks \ {k}
                         /\ plan' = [plan EXCEPT !.fallback[k.target] = @ \cup k.blocks]
  BY DEF SendFails
<1>2. phase = "send" /\ phase' = "send" /\ report' = report /\ sent' = sent
  BY DEF SendFails
<1>3. Sending /\ missing' = missing /\ PlanShape(plan) /\ Bounded(plan)
  BY <1>2 DEF Inv, missing
<1>4. k \in TaskShape /\ k.target \in Receivers /\ k.blocks \in SUBSET SectionBlocks
  BY <1>3 DEF Sending, TaskShape
<1>5. /\ PlanShape(plan') /\ plan'.peer = plan.peer /\ plan'.load = plan.load
      /\ plan'.fallback = [plan.fallback EXCEPT ![k.target] = @ \cup k.blocks]
  <2>1. plan' = [peer |-> plan.peer, load |-> plan.load,
                 fallback |-> [plan.fallback EXCEPT ![k.target] = @ \cup k.blocks]]
    BY <1>1, <1>3 DEF PlanShape
  <2>2. [plan.fallback EXCEPT ![k.target] = @ \cup k.blocks] \in [Receivers -> SUBSET SectionBlocks]
    BY <1>3, <1>4 DEF PlanShape
  <2> QED
    BY <1>3, <2>1, <2>2 DEF PlanShape
<1>6. \A t \in Receivers : plan'.fallback[t] =
         IF t = k.target THEN plan.fallback[t] \cup k.blocks ELSE plan.fallback[t]
  BY <1>3, <1>4, <1>5 DEF PlanShape
<1>7. Bounded(plan')
  BY <1>3, <1>5 DEF Bounded, Targets
<1>8. k \notin sent /\ tasks' \cup sent' = (tasks \cup sent) \ {k}
  BY <1>1, <1>2, <1>3 DEF Sending
<1>9. Spared(tasks' \cup sent', plan')
  <2> SUFFICES ASSUME NEW j \in (tasks \cup sent) \ {k}
               PROVE  j.blocks \cap (plan'.fallback[j.target] \cup Multicast(missing)) = {}
    BY <1>8 DEF Spared
  <2>1. j.target \in Receivers
    BY <1>3 DEF Sending, TaskShape
  <2>2. j.blocks \cap (plan.fallback[j.target] \cup Multicast(missing)) = {}
    BY <1>3 DEF Sending, Spared
  <2>3. j.target = k.target => j.blocks \cap k.blocks = {}
    BY <1>3 DEF Sending, Disjoint
  <2> QED
    BY <1>6, <2>1, <2>2, <2>3
<1>10. Covered(tasks' \cup sent', plan')
  <2> SUFFICES ASSUME NEW b \in SectionBlocks, NEW t \in missing[b],
                      b \notin Multicast(missing), b \notin plan'.fallback[t]
               PROVE  \E j \in (tasks \cup sent) \ {k} : j.target = t /\ b \in j.blocks
    BY <1>8 DEF Covered
  <2>1. t \in Receivers
    BY MissingFacts
  <2>2. b \notin plan.fallback[t] /\ (t = k.target => b \notin k.blocks)
    BY <1>6, <2>1
  <2>3. PICK j \in tasks \cup sent : j.target = t /\ b \in j.blocks
    BY <1>3, <2>2 DEF Sending, Covered
  <2> QED
    BY <2>2, <2>3
<1>11. Disjoint(tasks' \cup sent')
  BY <1>3, <1>8 DEF Sending, Disjoint
<1>12. tasks' \subseteq TaskShape /\ sent' \subseteq TaskShape /\ tasks' \cap sent' = {}
  BY <1>1, <1>2, <1>3 DEF Sending
<1>13. Sending'
  BY <1>3, <1>9, <1>10, <1>11, <1>12 DEF Sending, Disjoint, Spared, Covered
<1> QED
  BY <1>2, <1>5, <1>7, <1>13 DEF Inv, Bounded, PlanShape, Targets

LEMMA StepInv ==
    ASSUME Inv, [Next]_vars
    PROVE  Inv'
<1>1. CASE Unicast
  <2>1. /\ phase = "send" /\ phase' = "done" /\ tasks = {}
        /\ UNCHANGED <<report, todo, plan, tasks, sent>>
    BY <1>1 DEF Unicast
  <2>2. Sending'
    BY <2>1 DEF Inv, Sending, Disjoint, Spared, Covered, missing
  <2> QED
    BY <2>1, <2>2 DEF Inv, Bounded, PlanShape, Targets
<1>2. CASE UNCHANGED vars
  <2>1. UNCHANGED <<report, phase, todo, plan, tasks, sent>> /\ missing' = missing
    BY <1>2 DEF vars, missing
  <2>2. phase = "assign" => Assigning'
    BY <2>1 DEF Inv, Assigning, Apart, OnlyScattered, InPlan
  <2>3. phase # "assign" => Sending'
    BY <2>1 DEF Inv, Sending, Disjoint, Spared, Covered
  <2> QED
    BY <2>1, <2>2, <2>3 DEF Inv, Bounded, PlanShape, Targets
<1> QED
  BY <1>1, <1>2, AssignPairInv, PlanEndsInv, SendTaskInv, SendFailsInv DEF Next, Over

\* At every step of re_to_re each scattered block has at most one sender for each
\* target, and it has one as soon as it left the loops.
THEOREM Invariance == Spec => []Inv
<1> QED
  BY InitInv, StepInv, PTL DEF Spec

\* MissingIsServedOnce of RepairPlanning: at the end of a round of re_to_re every
\* block reported missing is on its way exactly once, whatever the reports, the
\* limits and the control connections that failed.
THEOREM EveryBlockServedOnce == Spec => []MissingIsServedOnce
<1>1. Inv => MissingIsServedOnce
  <2> SUFFICES ASSUME Inv PROVE MissingIsServedOnce
    OBVIOUS
  <2>1. CASE phase = "assign"
    <3>1. sent = {}
      BY <2>1 DEF Inv, Assigning
    <3> QED
      BY <2>1, <3>1 DEF MissingIsServedOnce
  <2>2. CASE phase # "assign"
    <3>1. Sending /\ (phase = "done" => tasks \cup sent = sent)
      BY <2>2 DEF Inv
    <3>2. phase = "done" => Covered(sent, plan)
      BY <3>1 DEF Sending
    <3>3. Disjoint(sent) /\ Spared(sent, plan)
      BY <3>1 DEF Sending, Disjoint, Spared
    <3> QED
      BY <3>2, <3>3 DEF MissingIsServedOnce, Covered, Disjoint, Spared
  <2> QED
    BY <2>1, <2>2
<1> QED
  BY <1>1, Invariance, PTL

\* LoadIsBounded of RepairPlanning: no receiver is made to serve more targets than
\* kMaxPeerTargetsPerSource, in whatever order the blocks come.
THEOREM NobodyOverloaded == Spec => []LoadIsBounded
<1>1. Inv => LoadIsBounded
  <2> SUFFICES ASSUME Inv, NEW s \in Receivers
               PROVE  Cardinality(Targets(plan, s)) <= MaxTargetsPerSource
    BY DEF LoadIsBounded, Targets
  <2>1. /\ Cardinality(Targets(plan, s)) <= plan.load[s]
        /\ plan.load[s] <= MaxTargetsPerSource /\ plan.load[s] \in Nat
    BY DEF Inv, Bounded, PlanShape
  <2> QED
    BY <2>1, TargetsFinite, RepairPlanAssumption
<1> QED
  BY <1>1, Invariance, PTL
=============================================================================
