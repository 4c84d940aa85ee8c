--------------------------- MODULE RepairPlanning ----------------------------
(***************************************************************************)
(* One peer repair round of the proxy, step by step (re_to_re of           *)
(* src/src/sender.cpp): the blocks missing at one receiver only are        *)
(* assigned in order to a source or to the proxy, small plans go back to   *)
(* the proxy, the rest is cut into tasks, and a task that cannot be sent   *)
(* goes back to the proxy as well.  RepairPlan has the same decisions as   *)
(* one operator, which SectionRepair uses.                                 *)
(***************************************************************************)
EXTENDS RepairPlan

CONSTANT SectionBlocks   \* the blocks of the section

ASSUME SectionBlocksAssumption == SectionBlocks \subseteq Nat /\ IsFiniteSet(SectionBlocks)

VARIABLES
    report,   \* what the proxy knows of a receiver: [known, missing]
    phase,
    todo,     \* pairs <<block, target>> not assigned yet
    plan,     \* peer_plan, source_target_count, fallback
    tasks,    \* tasks still to be sent
    sent,     \* tasks sent
    broken    \* receivers without a control connection (control_fd < 0)

vars == <<report, phase, todo, plan, tasks, sent, broken>>

\* aggregate_missing_blocks and source_has_block; a receiver that is out of the
\* main group or did not report is not `known'.  One that reported and lost its
\* connection since is served, and is no source.
missing == [b \in SectionBlocks |->
               {r \in Receivers : report[r].known /\ b \in report[r].missing}]
has == [r \in Receivers |->
           IF report[r].known /\ r \notin broken THEN SectionBlocks \ report[r].missing
           ELSE {}]

Reports == [known : {TRUE}, missing : SUBSET SectionBlocks]
           \cup [known : {FALSE}, missing : {{}}]

\* The order of the two loops over blocks and targets.
Before(p, q) == p[1] < q[1] \/ (p[1] = q[1] /\ p[2] < q[2])

Init ==
    /\ report \in [Receivers -> Reports]
    /\ broken \in SUBSET {r \in Receivers : report[r].known}
    /\ phase = "assign" /\ plan = EmptyPlan
    /\ todo = Scattered(missing)
    /\ tasks = {} /\ sent = {}

\* The inner loop: one missing block of one target.
AssignPair ==
    /\ phase = "assign"
    /\ \E p \in todo :
          /\ \A q \in todo \ {p} : Before(p, q)
          /\ todo' = todo \ {p}
          /\ plan' = Assign(has, plan, p[1], p[2])
    /\ UNCHANGED <<report, phase, tasks, sent, broken>>

TasksOf(p) == {k \in [source : Receivers, target : Receivers, blocks : SUBSET SectionBlocks] :
                  k.blocks \in Chunks(p.peer[k.source][k.target])}

PlanEnds ==
    /\ phase = "assign" /\ todo = {}
    /\ phase' = "send"
    /\ plan' = DropSmall(plan) /\ tasks' = TasksOf(DropSmall(plan))
    /\ UNCHANGED <<report, todo, sent, broken>>

\* A task goes out over the control connection of its source.
SendTask ==
    /\ phase = "send"
    /\ \E k \in tasks :
          /\ k.source \notin broken
          /\ tasks' = tasks \ {k} /\ sent' = sent \cup {k}
    /\ UNCHANGED <<report, phase, todo, plan, broken>>

\* MUTANT: a task that was not sent is taken for sent.
FailureIgnored ==
    /\ phase = "send"
    /\ \E k \in tasks : tasks' = tasks \ {k} /\ broken' = broken \cup {k.source}
    /\ UNCHANGED <<report, phase, todo, plan, sent>>

\* send_receiver_frame fails and closes the connection: its blocks fall back
\* to the proxy, those of the later tasks of this source too.
SendFails ==
    /\ phase = "send"
    /\ \E k \in tasks :
          /\ tasks' = tasks \ {k} /\ broken' = broken \cup {k.source}
          /\ plan' = [plan EXCEPT !.fallback[k.target] = @ \cup k.blocks]
    /\ UNCHANGED <<report, phase, todo, sent>>

\* The proxy sends what fell back to it, and SECTION_END.
Unicast ==
    /\ phase = "send" /\ tasks = {}
    /\ phase' = "done"
    /\ UNCHANGED <<report, todo, plan, tasks, sent, broken>>

Over == phase = "done" /\ UNCHANGED vars

Next == AssignPair \/ PlanEnds \/ SendTask \/ SendFails \/ Unicast \/ Over

Spec == Init /\ [][Next]_vars

------------------------------------------------------------------------------
(* Properties *)

\* At the end of a round every block that somebody reported missing is on its
\* way to him exactly once: by multicast, in one task that was sent, or from
\* the proxy itself.
MissingIsServedOnce ==
    /\ phase = "done" =>
          \A b \in SectionBlocks : \A t \in missing[b] :
              \/ b \in Multicast(missing)
              \/ b \in plan.fallback[t]
              \/ \E k \in sent : k.target = t /\ b \in k.blocks
    /\ \A j, k \in sent : j # k /\ j.target = k.target => j.blocks \cap k.blocks = {}
    /\ \A k \in sent :
          k.blocks \cap (plan.fallback[k.target] \cup Multicast(missing)) = {}

\* No receiver serves more targets in a round than the limit, whatever the
\* order in which the blocks were assigned.
LoadIsBounded ==
    \A s \in Receivers :
        Cardinality({t \in Receivers : plan.peer[s][t] # {}}) <= MaxTargetsPerSource
==============================================================================
