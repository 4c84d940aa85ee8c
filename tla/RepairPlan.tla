----------------------------- MODULE RepairPlan ------------------------------
(***************************************************************************)
(* How the proxy decides, at the start of a repair round, who sends which  *)
(* missing block to whom: re_to_re (peer mode) and send_repair_round       *)
(* (baseline mode) of src/src/sender.cpp.                                  *)
(*                                                                         *)
(* `missing' maps a block of the section to the receivers that reported it *)
(* missing (aggregate_missing_blocks); `has' maps a receiver to the blocks *)
(* the proxy believes it holds (source_has_block).  Receivers are the      *)
(* indices of the receiver vector, which is why their order matters: the   *)
(* first receiver that fits is taken.                                      *)
(***************************************************************************)
EXTENDS Integers, FiniteSets, Sequences, SequencesExt, FiniteSetsExt

CONSTANTS NumReceivers,
          MulticastThreshold,    \* kMulticastRepairThreshold
          MinPeerBlocks,         \* kMinPeerBlocks
          MaxTargetsPerSource,   \* kMaxPeerTargetsPerSource
          MaxTaskBlocks          \* srcast::kMaxPeerRepairBlocks

ASSUME RepairPlanAssumption ==
    /\ NumReceivers \in Nat \ {0}
    /\ MulticastThreshold \in Nat \ {0}
    /\ MinPeerBlocks \in Nat
    /\ MaxTargetsPerSource \in Nat
    /\ MaxTaskBlocks \in Nat \ {0}

Receivers == 1 .. NumReceivers

\* The elements of a finite set, in the order `Before' (a strict total order on
\* it).  SetToSortSeq is the same sequence; it is defined by SortSeq, of which the
\* provers know nothing.
InOrder(S, Before(_, _)) ==
    [i \in 1 .. Cardinality(S) |->
        CHOOSE x \in S : Cardinality({y \in S : Before(y, x)}) = i - 1]

\* A block missing at several receivers is multicast once, in either mode.
Multicast(missing) ==
    {b \in DOMAIN missing : Cardinality(missing[b]) >= MulticastThreshold}

\* The <<block, target>> pairs left, in the order of the two loops.
Scattered(missing) ==
    {p \in (DOMAIN missing \ Multicast(missing)) \X Receivers :
        p[2] \in missing[p[1]]}

ScatteredSeq(missing) ==
    InOrder(Scattered(missing),
            LAMBDA p, q : p[1] < q[1] \/ (p[1] = q[1] /\ p[2] < q[2]))

\* peer[s][t]: blocks s will send to t; load[s]: targets s serves;
\* fallback[t]: blocks the proxy unicasts to t itself.
EmptyPlan == [peer     |-> [s \in Receivers |-> [t \in Receivers |-> {}]],
              load     |-> [s \in Receivers |-> 0],
              fallback |-> [t \in Receivers |-> {}]]

\* A source that already serves t and holds b.
ServingSources(has, plan, b, t) ==
    {s \in Receivers \ {t} : plan.peer[s][t] # {} /\ b \in has[s]}

\* MUTANT: the cap on the targets of one source is tested with <=.
FreshSourcesNoCap(has, plan, b, t) ==
    {s \in Receivers \ {t} : plan.load[s] <= MaxTargetsPerSource /\ b \in has[s]}

\* A source that may take one more target and holds b.
FreshSources(has, plan, b, t) ==
    {s \in Receivers \ {t} : plan.load[s] < MaxTargetsPerSource /\ b \in has[s]}

Assign(has, plan, b, t) ==
    LET serving == ServingSources(has, plan, b, t)
        fresh   == FreshSources(has, plan, b, t)
    IN  IF serving # {}
        THEN [plan EXCEPT !.peer[Min(serving)][t] = @ \cup {b}]
        ELSE IF fresh # {}
        THEN [plan EXCEPT !.peer[Min(fresh)][t] = @ \cup {b},
                          !.load[Min(fresh)] = @ + 1]
        ELSE [plan EXCEPT !.fallback[t] = @ \cup {b}]

\* A plan too small to be worth a task goes back to the proxy.
DropSmall(plan) ==
    LET small(s, t) == Cardinality(plan.peer[s][t]) < MinPeerBlocks
    IN  [plan EXCEPT
           !.peer = [s \in Receivers |-> [t \in Receivers |->
                        IF small(s, t) THEN {} ELSE plan.peer[s][t]]],
           !.fallback = [t \in Receivers |-> plan.fallback[t] \cup
                           UNION {plan.peer[s][t] : s \in {q \in Receivers : small(q, t)}}]]

PeerPlan(missing, has) ==
    DropSmall(FoldLeft(LAMBDA plan, p : Assign(has, plan, p[1], p[2]),
                       EmptyPlan, ScatteredSeq(missing)))

\* Baseline mode: the proxy unicasts every scattered block.
BaselinePlan(missing) ==
    [EmptyPlan EXCEPT !.fallback =
        [t \in Receivers |-> {b \in DOMAIN missing :
                                <<b, t>> \in Scattered(missing)}]]

\* The tasks of one source to one target: blocks in order, MaxTaskBlocks each.
Rank(b, S) == Cardinality({c \in S : c < b})

Chunks(S) ==
    {{b \in S : Rank(b, S) \div MaxTaskBlocks = k} :
        k \in {Rank(b, S) \div MaxTaskBlocks : b \in S}}

Tasks(plan, source) ==
    UNION {{[target |-> t, blocks |-> c] : c \in Chunks(plan.peer[source][t])} :
              t \in Receivers}

TasksFrom(plan, source) ==
    InOrder(Tasks(plan, source),
            LAMBDA x, y : \/ x.target < y.target
                          \/ x.target = y.target /\ Min(x.blocks) < Min(y.blocks))
==============================================================================
