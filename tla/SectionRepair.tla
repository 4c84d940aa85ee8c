---------------------------- MODULE SectionRepair ----------------------------
(***************************************************************************)
(* One file attempt between the site proxy and its receivers: the body of  *)
(* send_file_attempt in src/src/sender.cpp from the moment every receiver  *)
(* is META_READY, against the event loop of src/src/receiver.cpp.          *)
(*                                                                         *)
(* The proxy is one sequential program (pc); the TCP backfill runs one     *)
(* task per isolated receiver.  Every receiver is an event loop: one       *)
(* action per event.  TCP control connections are FIFO queues and stay up; *)
(* UDP datagrams are a set: they can be lost, late and reordered, and a    *)
(* duplicate changes nothing, so a set loses nothing.  REPAIR_BEGIN and    *)
(* BACKFILL_BEGIN are only logged by the receiver and are left out.        *)
(***************************************************************************)
EXTENDS SectionMath, RepairPlan

CONSTANTS
    TotalBlocks, SectionLimit,  \* total_blocks, section_block_count of the META
    MaxRepairRounds,            \* --max-repair-rounds
    BackfillAfter,              \* backfill_rounds(): SRCAST_BACKFILL_ROUNDS
    BackfillThreads,            \* kBackfillThreadCount
    PeerMode,                   \* active_repair_mode = Peer
    InitialHave,                \* what a receiver's .part may hold at META_READY
    MaxLosses,                  \* bound: datagrams the network may lose
    MaxTimeouts                 \* bound: proxy deadlines that pass on a live peer

None == -1
AllBlocks == 0 .. TotalBlocks - 1
SectionCount == SectionCountForBlocks(TotalBlocks, SectionLimit)
Sections == 0 .. SectionCount - 1
Blocks(s) == SectionBlocks(TotalBlocks, s, SectionLimit)
IsFinal(s) == s + 1 = SectionCount

\* A block of the .part file: "none" is a clear bit of the received bitmap;
\* a set bit goes with the right bytes ("good") or wrong ones ("bad", which
\* only a stale recovered .state brings in: network payloads are CRC-checked).
Content == {"none", "good", "bad"}

ASSUME SectionRepairAssumption ==
    /\ TotalBlocks \in Nat
    /\ SectionLimit \in Nat \ {0}
    /\ MaxRepairRounds \in Nat
    /\ BackfillAfter \in Nat
    /\ BackfillThreads \in Nat \ {0}
    /\ PeerMode \in BOOLEAN
    /\ InitialHave \subseteq [AllBlocks -> Content]
    /\ MaxLosses \in Nat
    /\ MaxTimeouts \in Nat

VARIABLES
    \* the proxy
    pc, section, round, result,
    completed, isolated, abandoned, ready,  \* flags of ReceiverConnection, as sets
    status,                                 \* the SECTION_STATUS of this round
    backfill,                               \* backfill_blocks
    task,                                   \* the backfill task of a receiver
    \* the network
    toRcv, toProxy, udp,
    \* the receivers
    phase, have, active, lastEnd, lastReported, draining, drainRound, stored,
    \* what is left of the fault bounds
    losses, timeouts

proxyVars == <<pc, section, round, result, completed, isolated, abandoned, ready,
               status, backfill, task>>
rcvVars   == <<phase, have, active, lastEnd, lastReported, draining, drainRound, stored>>
netVars   == <<toRcv, toProxy, udp>>
vars      == <<proxyVars, rcvVars, netVars, losses, timeouts>>

------------------------------------------------------------------------------
(* Messages *)

NoStatus == [code |-> "NO_REPORT", section |-> None, round |-> None, missing |-> {}]

Codes == {"Missing", "Complete", "Failed"}

SectionStatus(s, k, code, missing) ==
    [type |-> "SECTION_STATUS", section |-> s, round |-> k, code |-> code,
     missing |-> missing]

Bare(type) == [type |-> type]

Pending(queue) == queue # <<>>

------------------------------------------------------------------------------
(* The proxy: what it knows about its receivers *)

\* Receivers still in the main group: neither done, nor isolated, nor given up.
Watched == Receivers \ (completed \cup isolated \cup abandoned)

\* MUTANT: isolated receivers count as served.
AllCompletedOrIsolated(c) == c \cup abandoned \cup isolated = Receivers

\* all_receivers_completed
AllCompleted(c) == c \cup abandoned = Receivers

\* MUTANT: the last section does not wait for RECEIVER_COMPLETE either.
ResponsesWithoutComplete == \A r \in Watched : status[r].code # "NO_REPORT"

\* round_responses_complete.  A receiver that is Complete in the last section
\* still owes its RECEIVER_COMPLETE, and it is watched until that arrives.
ResponsesComplete ==
    \A r \in Watched :
        /\ status[r].code # "NO_REPORT"
        /\ ~(IsFinal(section) /\ status[r].code = "Complete")

\* receiver_reported_sha_mismatch
ShaMismatch(st) == \E r \in Receivers : st[r].code = "Failed"

\* isolate_slow_receivers
Slow == IF round < BackfillAfter THEN {}
        ELSE {r \in Watched : status[r].code = "Missing"}

\* MUTANT: a receiver is isolated without noting what it lacks.
BackfillForgotten == backfill

BackfillAfterIsolation ==
    [r \in Receivers |-> IF r \in Slow THEN backfill[r] \cup status[r].missing
                         ELSE backfill[r]]

\* The test that ends a section: section_done and section_delivered.
SectionDone == \A r \in Watched \ Slow : status[r].code = "Complete"

\* aggregate_missing_blocks, after isolation
MissingAt == [b \in Blocks(section) |->
                 {r \in Watched \ Slow : /\ status[r].code = "Missing"
                                         /\ b \in status[r].missing}]

\* MUTANT: a receiver that did not report is taken for a source.
HasBlockUnchecked == [r \in Receivers |->
                         IF r \notin Watched \ Slow THEN {}
                         ELSE Blocks(section) \ status[r].missing]

\* source_has_block, for the section being repaired
HasBlock == [r \in Receivers |->
                IF r \notin Watched \ Slow THEN {}
                ELSE CASE status[r].code = "Complete" -> Blocks(section)
                       [] status[r].code = "Missing"  -> Blocks(section) \ status[r].missing
                       [] OTHER                       -> {}]

Plan == IF PeerMode THEN PeerPlan(MissingAt, HasBlock) ELSE BaselinePlan(MissingAt)

------------------------------------------------------------------------------
(* Sending *)

\* A datagram matters only at a receiver that would still write the block.
Wants(r, b) == phase[r] = "active" /\ have[r][b] = "none"

\* The network carries `sent', a set of <<receiver, block, content>>, and
\* loses a part of it within the bound.
Deliver(sent) ==
    \E lost \in SUBSET {d \in sent : Wants(d[1], d[2])} :
        /\ Cardinality(lost) <= losses
        /\ losses' = losses - Cardinality(lost)
        /\ udp' = [r \in Receivers |-> udp[r] \cup
                     {<<d[2], d[3]>> : d \in {e \in sent \ lost :
                                                e[1] = r /\ Wants(e[1], e[2])}}]

\* send_end_round: SECTION_END over TCP to the receivers in `to'; `first' is
\* what each receiver is sent before it.
SendEndRound(to, s, k, first) ==
    toRcv' = [r \in Receivers |->
                toRcv[r] \o first[r] \o
                (IF r \in to
                 THEN <<[type |-> "SECTION_END", section |-> s, round |-> k]>>
                 ELSE <<>>)]

NoFrames == [r \in Receivers |-> <<>>]

PeerTasks(plan) ==
    [r \in Receivers |->
        LET tasks == TasksFrom(plan, r)
        IN  [i \in 1 .. Len(tasks) |->
               [type |-> "PEER_REPAIR_TASK", section |-> section,
                target |-> tasks[i].target, blocks |-> tasks[i].blocks]]]
------------------------------------------------------------------------------
(* The proxy: distribute_section *)

Unreported == [r \in Receivers |-> NoStatus]

\* The section loop of send_file_attempt and the initial multicast of a
\* section, up to the start of the round-0 collection (reset_round_state).
\* The multicast reaches every member of the group, isolated ones included.
SendSection ==
    /\ pc = "section" /\ section < SectionCount /\ ~AllCompleted(completed)
    /\ Deliver({<<r, b, "good">> : r \in Receivers, b \in Blocks(section)})
    /\ SendEndRound(Watched, section, 0, NoFrames)
    /\ pc' = "collect" /\ round' = 0 /\ status' = Unreported
    /\ UNCHANGED <<section, result, completed, isolated, abandoned, ready, backfill,
                   task, toProxy, rcvVars, timeouts>>

\* handle_control_frame: a status of another section or round is stale.
Accepts(f) == f.type = "SECTION_STATUS" /\ f.section = section /\ f.round = round

\* A RECEIVER_COMPLETE counts only after this round's Complete status.
Confirms(r, f) == f.type = "RECEIVER_COMPLETE" /\ status[r].code = "Complete"

HandleControlFrame(r) ==
    LET f == Head(toProxy[r])
    IN  /\ pc = "collect" /\ ~ResponsesComplete
        /\ r \in Watched /\ Pending(toProxy[r])
        /\ toProxy' = [toProxy EXCEPT ![r] = Tail(@)]
        /\ status' = IF Accepts(f)
                     THEN [status EXCEPT ![r] = [code |-> f.code, section |-> f.section,
                                                 round |-> f.round, missing |-> f.missing]]
                     ELSE status
        /\ IF Confirms(r, f)
           THEN /\ completed' = completed \cup {r}
                /\ toRcv' = [toRcv EXCEPT ![r] = Append(@, Bare("COMPLETE_ACK"))]
           ELSE UNCHANGED <<completed, toRcv>>
        /\ UNCHANGED <<pc, section, round, result, isolated, abandoned, ready, backfill,
                       task, udp, rcvVars, losses, timeouts>>

\* No receiver we wait for has anything left to say in this round.
Quiet(r) == ~Pending(toRcv[r]) /\ ~Pending(toProxy[r]) /\ ~draining[r]

\* MUTANT: the collection has no deadline of its own.
NoDeadline == timeouts > 0 /\ timeouts' = timeouts - 1

\* The 30 s deadline of collect_round_reports: it passes when nobody has
\* anything to say, and, within the bound, on receivers that are only slow.
DeadlinePasses ==
    \/ /\ \A r \in Watched : Quiet(r)
       /\ UNCHANGED timeouts
    \/ /\ timeouts > 0
       /\ timeouts' = timeouts - 1

CollectionEnds ==
    /\ pc = "collect"
    /\ IF ResponsesComplete THEN UNCHANGED timeouts ELSE DeadlinePasses

\* A receiver reported FAILED: distribute_section returns Sha256Mismatch, and
\* send_file_attempt skips the backfill and tells the incomplete receivers.
CollectMismatch ==
    /\ CollectionEnds /\ ShaMismatch(status)
    /\ result' = "Sha256Mismatch" /\ pc' = "ready" /\ ready' = {}
    /\ toRcv' = [r \in Receivers |->
                    IF r \in completed \cup abandoned THEN toRcv[r]
                    ELSE Append(toRcv[r], Bare("TRANSFER_FAILED"))]
    /\ UNCHANGED <<section, round, completed, isolated, abandoned, status, backfill, task,
                   toProxy, udp, rcvVars, losses>>

Isolate ==
    /\ isolated' = isolated \cup Slow
    /\ backfill' = BackfillAfterIsolation

\* Every receiver of the main group has the section: on to the next one.
CloseSection ==
    /\ CollectionEnds /\ ~ShaMismatch(status) /\ SectionDone
    /\ Isolate
    /\ pc' = "section" /\ section' = section + 1
    /\ UNCHANGED <<round, result, completed, abandoned, ready, status, task, netVars,
                   rcvVars, losses>>

\* MUTANT: one round too many.
OneRoundTooMany == round <= MaxRepairRounds

\* The bound of the repair loop of distribute_section.
MoreRounds == round < MaxRepairRounds

\* One more repair round: multicast what several miss, hand scattered blocks
\* to peers, unicast the rest, then SECTION_END and a new collection.
RepairRound ==
    LET plan == Plan
        group == Watched \ Slow
    IN  /\ CollectionEnds /\ ~ShaMismatch(status) /\ ~SectionDone
        /\ MoreRounds
        /\ Isolate
        /\ Deliver({<<r, b, "good">> : r \in Receivers, b \in Multicast(MissingAt)}
                   \cup UNION {{<<r, b, "good">> : b \in plan.fallback[r]} : r \in Receivers})
        /\ SendEndRound(group, section, round + 1, PeerTasks(plan))
        /\ pc' = "collect" /\ round' = round + 1 /\ status' = Unreported
        /\ UNCHANGED <<section, result, completed, abandoned, ready, task, toProxy, rcvVars>>

\* The last round is over and somebody has neither finished nor been isolated.
RoundsExhausted ==
    /\ CollectionEnds /\ ~ShaMismatch(status) /\ ~SectionDone
    /\ ~MoreRounds
    /\ Isolate
    /\ result' = "Failed" /\ pc' = "backfill"
    /\ task' = [r \in Receivers |-> IF r \in isolated' \ (completed \cup abandoned)
                                    THEN "todo" ELSE "done"]
    /\ UNCHANGED <<section, round, completed, abandoned, ready, status, netVars, rcvVars,
                   losses>>

\* The section loop ends: every section was sent, or everybody is done.
SectionsEnd ==
    /\ pc = "section" /\ (section >= SectionCount \/ AllCompleted(completed))
    /\ pc' = "backfill"
    /\ task' = [r \in Receivers |-> IF r \in isolated \ (completed \cup abandoned)
                                    THEN "todo" ELSE "done"]
    /\ UNCHANGED <<section, round, result, completed, isolated, abandoned, ready, status,
                   backfill, netVars, rcvVars, losses, timeouts>>

------------------------------------------------------------------------------
(* The proxy: TCP backfill of the isolated receivers, one task each *)

BackfillFrames(blocks) ==
    LET ordered == InOrder(blocks, <)
    IN  [i \in 1 .. Len(ordered) |-> [type |-> "BACKFILL_DATA", block |-> ordered[i]]]
        \o <<Bare("BACKFILL_END")>>

\* A pool thread takes the task of receiver r: backfill_one_receiver.
BackfillStart(r) ==
    /\ pc = "backfill" /\ task[r] = "todo"
    /\ Cardinality({q \in Receivers : task[q] = "waiting"}) < BackfillThreads
    /\ task' = [task EXCEPT ![r] = "waiting"]
    /\ toRcv' = [toRcv EXCEPT ![r] = @ \o BackfillFrames(backfill[r])]
    /\ UNCHANGED <<pc, section, round, result, completed, isolated, abandoned, ready,
                   status, backfill, toProxy, udp, rcvVars, losses, timeouts>>

\* The answer to BACKFILL_END; a status that is not FAILED is stale.
BackfillFrame(r) ==
    LET f == Head(toProxy[r])
    IN  /\ task[r] = "waiting" /\ Pending(toProxy[r])
        /\ toProxy' = [toProxy EXCEPT ![r] = Tail(@)]
        /\ CASE f.type = "RECEIVER_COMPLETE" ->
                   /\ completed' = completed \cup {r}
                   /\ isolated' = isolated \ {r}
                   /\ toRcv' = [toRcv EXCEPT ![r] = Append(@, Bare("COMPLETE_ACK"))]
                   /\ task' = [task EXCEPT ![r] = "done"]
                   /\ UNCHANGED status
             [] f.type = "SECTION_STATUS" /\ f.code = "Failed" ->
                   /\ status' = [status EXCEPT ![r] =
                                    [code |-> f.code, section |-> f.section,
                                     round |-> f.round, missing |-> f.missing]]
                   /\ task' = [task EXCEPT ![r] = "done"]
                   /\ UNCHANGED <<completed, isolated, toRcv>>
             [] OTHER -> UNCHANGED <<completed, isolated, toRcv, task, status>>
        /\ UNCHANGED <<pc, section, round, result, abandoned, ready, backfill, udp,
                       rcvVars, losses, timeouts>>

\* 30 s without an answer: the receiver is abandoned, its connection closed.
BackfillTimeout(r) ==
    /\ task[r] = "waiting"
    /\ \/ Quiet(r) /\ UNCHANGED timeouts
       \/ timeouts > 0 /\ timeouts' = timeouts - 1
    /\ abandoned' = abandoned \cup {r}
    /\ task' = [task EXCEPT ![r] = "done"]
    /\ UNCHANGED <<pc, section, round, result, completed, isolated, ready, status,
                   backfill, netVars, rcvVars, losses>>

\* Every task is joined: the verdict of send_file_attempt.
Verdict ==
    IF AllCompleted(completed) THEN "Success"
    ELSE IF ShaMismatch(status) THEN "Sha256Mismatch"
    ELSE "Failed"

BackfillEnds ==
    /\ pc = "backfill" /\ \A r \in Receivers : task[r] = "done"
    /\ result' = Verdict /\ pc' = "ready" /\ ready' = {}
    /\ toRcv' = [r \in Receivers |->
                    IF Verdict = "Success" \/ r \in completed \cup abandoned THEN toRcv[r]
                    ELSE Append(toRcv[r], Bare("TRANSFER_FAILED"))]
    /\ UNCHANGED <<section, round, completed, isolated, abandoned, status, backfill, task,
                   toProxy, udp, rcvVars, losses, timeouts>>

------------------------------------------------------------------------------
(* The proxy: wait_for_receivers_ready, the barrier between two files *)

\* MUTANT: a completed receiver is taken for a ready one.
BarredIncomplete == Receivers \ (abandoned \cup ready \cup completed)

\* The receivers whose RECEIVER_READY is awaited.
Barred == Receivers \ (abandoned \cup ready)

ReadReady(r) ==
    /\ pc = "ready" /\ r \in Barred /\ Pending(toProxy[r])
    /\ toProxy' = [toProxy EXCEPT ![r] = Tail(@)]
    /\ ready' = IF Head(toProxy[r]).type = "RECEIVER_READY" THEN ready \cup {r} ELSE ready
    /\ UNCHANGED <<pc, section, round, result, completed, isolated, abandoned, status,
                   backfill, task, toRcv, udp, rcvVars, losses, timeouts>>

BarrierOpens ==
    /\ pc = "ready" /\ Barred = {}
    /\ pc' = "done"
    /\ UNCHANGED <<section, round, result, completed, isolated, abandoned, ready, status,
                   backfill, task, netVars, rcvVars, losses, timeouts>>

\* 10 s: wait_for_receivers_ready throws.
BarrierTimeout ==
    /\ pc = "ready" /\ Barred # {}
    /\ \/ (\A r \in Barred : Quiet(r)) /\ UNCHANGED timeouts
       \/ timeouts > 0 /\ timeouts' = timeouts - 1
    /\ pc' = "threw"
    /\ UNCHANGED <<section, round, result, completed, isolated, abandoned, ready, status,
                   backfill, task, netVars, rcvVars, losses>>

------------------------------------------------------------------------------
(* A receiver *)

Received(r) == {b \in AllBlocks : have[r][b] # "none"}

\* A DATA datagram arrives: written when the block is still missing.
RcvData(r) ==
    \E d \in udp[r] :
        /\ udp' = [udp EXCEPT ![r] = @ \ {d}]
        /\ have' = IF Wants(r, d[1]) THEN [have EXCEPT ![r][d[1]] = d[2]] ELSE have
        /\ UNCHANGED <<proxyVars, toRcv, toProxy, phase, active, lastEnd, lastReported,
                       draining, drainRound, stored, losses, timeouts>>

\* begin_drain_for_round: the early returns that drop an END.
StartsDrain(r, s, k) ==
    LET sameSection == s = active[r]
    IN  /\ phase[r] = "active"
        /\ s >= active[r]
        /\ sameSection => /\ k > lastReported[r]
                          /\ k >= lastEnd[r]
                          /\ ~(k = lastEnd[r] /\ draining[r])

RcvSectionEnd(r, f) ==
    IF StartsDrain(r, f.section, f.round)
    THEN /\ active' = [active EXCEPT ![r] = f.section]
         /\ lastEnd' = [lastEnd EXCEPT ![r] = f.round]
         /\ lastReported' = [lastReported EXCEPT ![r] =
                                IF f.section = active[r] THEN @ ELSE None]
         /\ draining' = [draining EXCEPT ![r] = TRUE]
         /\ drainRound' = [drainRound EXCEPT ![r] = f.round]
    ELSE UNCHANGED <<active, lastEnd, lastReported, draining, drainRound>>

\* finalize_transfer: every bit set, then SHA-256 of the whole file, then the
\* rename to the final name.
\* MUTANT: the file is renamed without comparing its digest.
ShaUnchecked(r) == TRUE

AllReceived(r) == Received(r) = AllBlocks
ShaMatches(r) == \A b \in AllBlocks : have[r][b] = "good"

Finalize(r) ==
    /\ phase' = [phase EXCEPT ![r] = CASE ~AllReceived(r) -> @
                                         [] ShaMatches(r)   -> "awaiting"
                                         [] OTHER           -> "shafailed"]
    /\ stored' = IF AllReceived(r) /\ ShaMatches(r) THEN stored \cup {r} ELSE stored

Answer(r, frames) == toProxy' = [toProxy EXCEPT ![r] = @ \o frames]

\* finish_drain_and_report: the quiet period (200 ms, 1 s at most) is over.
RcvDrainEnds(r) ==
    LET s == active[r]
        k == drainRound[r]
        missing == Blocks(s) \ Received(r)
        report(code) == SectionStatus(s, k, code, {})
    IN  /\ draining[r]
        /\ draining' = [draining EXCEPT ![r] = FALSE]
        /\ lastReported' = [lastReported EXCEPT ![r] = k]
        /\ IF missing # {}
           THEN /\ Answer(r, <<SectionStatus(s, k, "Missing", missing)>>)
                /\ UNCHANGED <<phase, stored>>
           ELSE /\ Finalize(r)
                /\ Answer(r, CASE ~AllReceived(r) -> <<report("Complete")>>
                               [] ShaMatches(r)   -> <<report("Complete"),
                                                       Bare("RECEIVER_COMPLETE")>>
                               [] OTHER           -> <<report("Failed")>>)
        /\ UNCHANGED <<proxyVars, toRcv, udp, have, active, lastEnd, drainRound, losses,
                       timeouts>>

\* execute_peer_repair_task: send what this receiver really holds.
RcvPeerTask(r, f) ==
    Deliver({<<f.target, b, have[r][b]>> :
                b \in {c \in f.blocks : phase[r] = "active" /\ have[r][c] # "none"}})

RcvBackfillData(r, f) ==
    have' = IF Wants(r, f.block) THEN [have EXCEPT ![r][f.block] = "good"] ELSE have

\* BACKFILL_END: no section is named, the whole file must be there.
RcvBackfillEnd(r) ==
    IF phase[r] # "active" THEN UNCHANGED <<phase, stored, lastReported, toProxy>>
    ELSE /\ Finalize(r)
         /\ IF AllReceived(r) /\ ShaMatches(r)
            THEN Answer(r, <<Bare("RECEIVER_COMPLETE")>>) /\ UNCHANGED lastReported
            ELSE /\ Answer(r, <<SectionStatus(IF active[r] = None THEN 0 ELSE active[r],
                                  IF lastReported[r] = None THEN 0 ELSE lastReported[r],
                                  "Failed", {})>>)
                 /\ lastReported' = [lastReported EXCEPT ![r] = IF @ = None THEN 0 ELSE @]

\* The TransferState is dropped and the receiver is free for the next file.
RcvReset(r) ==
    /\ phase' = [phase EXCEPT ![r] = "idle"]
    /\ draining' = [draining EXCEPT ![r] = FALSE]
    /\ Answer(r, <<Bare("RECEIVER_READY")>>)

\* One control frame: handle_control_message.
RcvControl(r) ==
    LET f == Head(toRcv[r])
        pop == toRcv' = [toRcv EXCEPT ![r] = Tail(@)]
    IN  /\ Pending(toRcv[r]) /\ pop
        /\ UNCHANGED <<proxyVars, timeouts>>
        /\ \/ /\ f.type = "SECTION_END"
              /\ RcvSectionEnd(r, f)
              /\ UNCHANGED <<toProxy, udp, phase, have, stored, losses>>
           \/ /\ f.type = "PEER_REPAIR_TASK"
              /\ RcvPeerTask(r, f)
              /\ UNCHANGED <<toProxy, rcvVars>>
           \/ /\ f.type = "BACKFILL_DATA"
              /\ RcvBackfillData(r, f)
              /\ UNCHANGED <<toProxy, udp, phase, active, lastEnd, lastReported, draining,
                             drainRound, stored, losses>>
           \/ /\ f.type = "BACKFILL_END"
              /\ RcvBackfillEnd(r)
              /\ UNCHANGED <<udp, have, active, lastEnd, draining, drainRound, losses>>
           \/ /\ f.type = "COMPLETE_ACK"
              /\ IF phase[r] = "awaiting" THEN RcvReset(r)
                 ELSE UNCHANGED <<phase, draining, toProxy>>
              /\ UNCHANGED <<udp, have, active, lastEnd, lastReported, drainRound, stored,
                             losses>>
           \/ /\ f.type = "TRANSFER_FAILED"
              /\ RcvReset(r)
              /\ UNCHANGED <<udp, have, active, lastEnd, lastReported, drainRound, stored,
                             losses>>

------------------------------------------------------------------------------
(* The specification *)

Init ==
    /\ pc = "section" /\ section = 0 /\ round = 0 /\ result = "Success"
    /\ completed = {} /\ isolated = {} /\ abandoned = {} /\ ready = {}
    /\ status = Unreported
    /\ backfill = [r \in Receivers |-> {}]
    /\ task = [r \in Receivers |-> "done"]
    /\ toRcv = NoFrames /\ toProxy = NoFrames
    /\ udp = [r \in Receivers |-> {}]
    /\ phase = [r \in Receivers |-> "active"]
    /\ have \in [Receivers -> InitialHave]
    /\ active = [r \in Receivers |-> None]
    /\ lastEnd = [r \in Receivers |-> None]
    /\ lastReported = [r \in Receivers |-> None]
    /\ draining = [r \in Receivers |-> FALSE]
    /\ drainRound = [r \in Receivers |-> 0]
    /\ stored = {}
    /\ losses = MaxLosses /\ timeouts = MaxTimeouts

ProxyStep ==
    \/ SendSection \/ CollectMismatch \/ CloseSection \/ RepairRound
    \/ RoundsExhausted \/ SectionsEnd \/ BackfillEnds \/ BarrierOpens \/ BarrierTimeout
    \/ \E r \in Receivers : HandleControlFrame(r) \/ ReadReady(r)

BackfillStep(r) == BackfillStart(r) \/ BackfillFrame(r) \/ BackfillTimeout(r)

ReceiverStep(r) == RcvData(r) \/ RcvDrainEnds(r) \/ RcvControl(r)

\* The attempt is over and every queue has been read.
Finished ==
    /\ pc \in {"done", "threw"}
    /\ UNCHANGED vars

Next ==
    \/ ProxyStep
    \/ \E r \in Receivers : BackfillStep(r) \/ ReceiverStep(r)
    \/ Finished

\* The proxy thread and the pool threads keep running and their deadlines
\* come; a receiver keeps serving its sockets and its drain timer.
Fairness ==
    /\ WF_vars(ProxyStep)
    /\ \A r \in Receivers :
          /\ WF_vars(BackfillStep(r))
          /\ WF_vars(RcvData(r))
          /\ WF_vars(RcvDrainEnds(r))
          /\ WF_vars(RcvControl(r))

Spec == Init /\ [][Next]_vars /\ Fairness

------------------------------------------------------------------------------
(* Properties *)

Messages(queue) == {queue[i] : i \in 1 .. Len(queue)}
Types(queue) == {f.type : f \in Messages(queue)}

Frames ==
    [type : {"SECTION_STATUS"}, section : Sections, round : 0 .. MaxRepairRounds,
     code : Codes, missing : SUBSET AllBlocks]
    \cup [type : {"RECEIVER_COMPLETE", "RECEIVER_READY"}]

Orders ==
    [type : {"SECTION_END"}, section : Sections, round : 0 .. MaxRepairRounds]
    \cup [type : {"PEER_REPAIR_TASK"}, section : Sections, target : Receivers,
          blocks : SUBSET AllBlocks]
    \cup [type : {"BACKFILL_DATA"}, block : AllBlocks]
    \cup [type : {"BACKFILL_END", "COMPLETE_ACK", "TRANSFER_FAILED"}]

\* The shape of every variable.
TypeOK ==
    /\ pc \in {"section", "collect", "backfill", "ready", "done", "threw"}
    /\ section \in 0 .. SectionCount /\ round \in 0 .. MaxRepairRounds
    /\ result \in {"Success", "Sha256Mismatch", "Failed"}
    /\ completed \subseteq Receivers /\ isolated \subseteq Receivers
    /\ abandoned \subseteq Receivers /\ ready \subseteq Receivers
    /\ status \in [Receivers ->
          [code : Codes \cup {"NO_REPORT"}, section : Sections \cup {None},
           round : (0 .. MaxRepairRounds) \cup {None}, missing : SUBSET AllBlocks]]
    /\ backfill \in [Receivers -> SUBSET AllBlocks]
    /\ task \in [Receivers -> {"todo", "waiting", "done"}]
    /\ \A r \in Receivers : /\ Messages(toRcv[r]) \subseteq Orders
                             /\ Messages(toProxy[r]) \subseteq Frames
    /\ udp \in [Receivers -> SUBSET (AllBlocks \X {"good", "bad"})]
    /\ phase \in [Receivers -> {"active", "awaiting", "shafailed", "idle"}]
    /\ have \in [Receivers -> [AllBlocks -> Content]]
    /\ active \in [Receivers -> Sections \cup {None}]
    /\ lastEnd \in [Receivers -> (0 .. MaxRepairRounds) \cup {None}]
    /\ lastReported \in [Receivers -> (0 .. MaxRepairRounds) \cup {None}]
    /\ draining \in [Receivers -> BOOLEAN]
    /\ drainRound \in [Receivers -> 0 .. MaxRepairRounds]
    /\ stored \subseteq Receivers
    /\ losses \in 0 .. MaxLosses /\ timeouts \in 0 .. MaxTimeouts

\* The proxy counts a receiver as completed only when that receiver has
\* renamed the file into place and every byte of it is right, whatever was
\* lost, late, repaired by a peer, backfilled or recovered from an old .part.
ConfirmedIsStored ==
    \A r \in completed : r \in stored /\ \A b \in AllBlocks : have[r][b] = "good"

\* What the planner believes a source holds, and what a queued peer task asks
\* a source to send, that source really holds: a repair round is never spent
\* on a task whose source has to skip its blocks.
SourcesHoldTheirBlocks ==
    \A r \in Receivers :
        /\ pc = "collect" => HasBlock[r] \subseteq Received(r)
        /\ \A f \in Messages(toRcv[r]) :
              f.type = "PEER_REPAIR_TASK" => f.blocks \subseteq Received(r)

\* A SHA-256 mismatch is charged to a receiver only when wrong bytes lie under
\* the bits of some .part: an honest receiver never makes the attempt look
\* corrupt.
MismatchMeansWrongBytes ==
    result = "Sha256Mismatch" =>
        \E r \in Receivers, b \in AllBlocks : have[r][b] = "bad"

\* The barrier between two files (wait_for_receivers_ready): once it opens, no
\* receiver still holds the old transfer and no control frame of the old
\* transfer is left to be mistaken for one of the next.
BarrierLeavesNothing ==
    pc = "done" => \A r \in Receivers \ abandoned :
                      /\ phase[r] = "idle" /\ ~draining[r]
                      /\ ~Pending(toRcv[r]) /\ ~Pending(toProxy[r])

\* A receiver that waits for COMPLETE_ACK is never forgotten while no deadline
\* was missed by a live receiver: its RECEIVER_COMPLETE is still to be read, or the
\* answer is on its way.  (A late one is rejected with its round.)
FinalisedIsAnswered ==
    \A r \in Receivers \ abandoned :
        timeouts = MaxTimeouts /\ phase[r] = "awaiting" =>
            \/ "RECEIVER_COMPLETE" \in Types(toProxy[r])
            \/ Types(toRcv[r]) \cap {"COMPLETE_ACK", "TRANSFER_FAILED"} # {}

\* When the TCP backfill of an isolated receiver starts, the blocks it is going
\* to send are all that the receiver still lacks.
BackfillSuffices ==
    \A r \in Receivers :
        task[r] = "todo" => Received(r) \cup backfill[r] = AllBlocks

\* The attempt always comes to an end: every wait of the proxy is bounded.
AttemptTerminates == <>(pc \in {"done", "threw"})

\* With a single section, no deadline missed by a live receiver and no wrong bytes
\* recovered, whatever the network loses, every receiver ends with the file.
EveryReceiverServed ==
    (\A r \in Receivers, b \in AllBlocks : have[r][b] # "bad") /\ [](timeouts = MaxTimeouts) =>
        <>(pc = "done" /\ result = "Success" /\ stored = Receivers)

\* The attempt implements the promise of FileDelivery: the proxy learns of a
\* stored file after it is stored, decides once, and says success exactly when
\* all receivers are completed or given up.
Delivery == INSTANCE FileDelivery WITH
    files <- stored, confirmed <- completed, dropped <- abandoned,
    verdict <- IF pc \in {"ready", "done", "threw"} THEN result ELSE "open"

ImplementsDelivery == Delivery!Spec
==============================================================================
