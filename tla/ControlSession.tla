---------------------------- MODULE ControlSession ----------------------------
(***************************************************************************)
(* The TCP control sessions between the site proxy and its receivers while *)
(* they break and come back: registration, reconnection in the middle of a *)
(* transfer, the waits for META_READY, reports, backfill and READY, the    *)
(* retries of a file under a new transfer id, abandoned receivers, and the *)
(* outer loops of main for direct and for central mode (sender.cpp), with  *)
(* the control half of the receiver (receiver.cpp).                        *)
(*                                                                         *)
(* What is inside a file is not modelled here (SectionRepair does that):   *)
(* whether a receiver reports a section Missing or Complete, and whether   *)
(* its file is whole, is left open.  A transfer id is <<file, attempt>>.   *)
(***************************************************************************)
EXTENDS Integers, Sequences, FiniteSets

CONSTANTS
    Receivers,      \* the fixed members, known by address and peer UDP port
    Modes,          \* "direct" (files named on the command line), "central"
    FileSections,   \* the files of the session: a sequence of section counts
    MaxRepairRounds, BackfillAfter,  \* --max-repair-rounds, backfill_rounds()
    MaxRetries,     \* kMaxTransferRetries
    Survivors,      \* bound: receivers that may have lived through an earlier proxy
    MaxFaults,      \* bound: broken links, dead receivers, late answers, corrupt files
    MaxCentrals     \* bound: connections the central sender makes

ASSUME SessionAssumption ==
    /\ Receivers # {} /\ IsFiniteSet(Receivers) /\ Survivors \subseteq Receivers
    /\ Modes \subseteq {"direct", "central"}
    /\ FileSections \in Seq(Nat \ {0}) /\ FileSections # <<>>
    /\ {MaxRepairRounds, BackfillAfter, MaxRetries, MaxFaults, MaxCentrals} \subseteq Nat

VARIABLES
    \* the proxy: where it is, and the attempt it is at
    mode, pc, file, attempt, section, round, result, after, cached,
    batch,      \* indexes returned by wait_for_receiver_events, still to be read
    task,       \* the backfill task of a receiver
    info,       \* ReceiverConnection, without its descriptor
    conn,       \* control_fd, and the bytes under way in both directions
    \* the receivers
    link, cur, phase, drain, stored,
    \* what is left of the bounds
    faults, centrals

attemptVars == <<mode, file, attempt, section, round, result, after, cached>>
rcvVars     == <<link, cur, phase, drain, stored>>
vars == <<attemptVars, pc, batch, task, info, conn, rcvVars, faults, centrals>>

NoId  == <<0, 0>>   \* no transfer
OldId == <<0, 1>>   \* a transfer left over from an earlier run of the proxy
Tid   == <<file, attempt>>
Files == Len(FileSections)
SectionCount == FileSections[file]
IsFinal(s) == s + 1 = SectionCount
Messages(queue) == {queue[i] : i \in DOMAIN queue}

------------------------------------------------------------------------------
(* Frames *)

Frame(type, id) == [type |-> type, id |-> id]
SectionEnd(id, s, k) == [type |-> "SECTION_END", id |-> id, section |-> s, round |-> k]
SectionStatus(id, s, k, code) ==
    [type |-> "SECTION_STATUS", id |-> id, section |-> s, round |-> k, code |-> code]
NoFrames == [r \in Receivers |-> <<>>]

------------------------------------------------------------------------------
(* Connections *)

\* `open' is control_fd >= 0.  A broken connection stays open at the proxy until
\* it reads the end of the stream (`eof', when the peer's FIN or RST arrived at
\* all), fails to send, or a reconnect replaces it.
Closed(c) == [c EXCEPT !.open = FALSE, !.eof = FALSE, !.toProxy = <<>>]

\* Both ends of the connection the proxy holds are there.
Live(r) == conn[r].open /\ link[r] = "up"

\* send_receiver_frame: into a broken connection a frame is lost, and the
\* descriptor is closed when send reports it.
Sent(c, up, frames, fails) ==
    IF ~c.open THEN c
    ELSE IF up THEN [c EXCEPT !.toRcv = @ \o frames]
    ELSE IF fails THEN Closed(c) ELSE c

\* Sends `frames' on the connections `cs', whose receivers are at `links'.
SendOn(cs, links, frames) ==
    \E fails \in SUBSET {r \in Receivers : /\ frames[r] # <<>> /\ cs[r].open
                                           /\ links[r] # "up"} :
        conn' = [r \in Receivers |->
                    Sent(cs[r], links[r] = "up", frames[r], r \in fails)]

Send(frames) == SendOn(conn, link, frames)

------------------------------------------------------------------------------
(* Registration and reconnection *)

\* make_registration
Registration(r) ==
    [state |-> CASE phase[r] = "idle"     -> "Idle"
                 [] phase[r] = "awaiting" -> "Completed"
                 [] OTHER                 -> "Receiving",
     id |-> cur[r]]

Known(i, reg) == [i EXCEPT !.state = reg.state, !.id = reg.id]

\* MUTANT: a receiver that registers as Completed is believed whatever its id.
AnyCompletion(i, reg) == i.meta # NoId /\ reg.state = "Completed"

\* The cases of install_receiver_connection, in the order of the code.
RecoversCompletion(i, reg) ==
    i.meta # NoId /\ reg.state = "Completed" /\ reg.id = i.meta
IsReset(i, reg)     == i.completed /\ reg.state = "Idle"
IsReopened(i, reg)  ==
    /\ i.meta # NoId /\ ~RecoversCompletion(i, reg) /\ ~IsReset(i, reg) /\ ~i.abandoned
IsRefused(i, reg)   ==
    /\ i.meta # NoId /\ ~RecoversCompletion(i, reg) /\ ~IsReset(i, reg) /\ i.abandoned
    /\ reg.state # "Idle"

\* MUTANT: a completed receiver that comes back starts over.
InstalledAnew(i, reg) ==
    CASE RecoversCompletion(i, reg) ->
             [Known(i, reg) EXCEPT !.abandoned = FALSE, !.metaReady = TRUE,
                                   !.completed = TRUE]
      [] OTHER -> [Known(i, reg) EXCEPT !.metaReady = FALSE, !.completed = FALSE]

\* install_receiver_connection: the flags of a receiver that registers again.
Installed(i, reg) ==
    CASE i.meta = NoId -> Known(i, reg)
      [] RecoversCompletion(i, reg) ->
             [Known(i, reg) EXCEPT !.abandoned = FALSE, !.metaReady = TRUE,
                                   !.completed = TRUE]
      [] IsReopened(i, reg) ->
             [i EXCEPT !.metaReady = FALSE, !.completed = FALSE, !.ready = FALSE,
                       !.isolated = FALSE, !.status = "NO_REPORT",
                       !.state = "Receiving", !.id = i.meta]
      [] OTHER -> [Known(i, reg) EXCEPT !.ready = @ \/ reg.state = "Idle"]

\* MUTANT: only a transfer that is complete is closed.
StaleIfCompleted(state, id) ==
    IF state = "Completed" THEN <<Frame("COMPLETE_ACK", id)>> ELSE <<>>

\* What closes a transfer the proxy is no longer interested in.
Stale(state, id) ==
    CASE state = "Completed" -> <<Frame("COMPLETE_ACK", id)>>
      [] state = "Receiving" -> <<Frame("TRANSFER_FAILED", id)>>
      [] OTHER               -> <<>>

\* The frames it is sent.
InstallFrames(i, reg) ==
    CASE RecoversCompletion(i, reg) -> <<Frame("COMPLETE_ACK", i.meta)>>
      [] IsReopened(i, reg) ->
             (IF reg.id = i.meta THEN <<>> ELSE Stale(reg.state, reg.id))
             \o <<Frame("FILE_META", i.meta)>>
      [] IsRefused(i, reg) -> <<Frame("TRANSFER_FAILED", i.meta)>>
      [] OTHER -> <<>>

Fresh(frames) == [open |-> TRUE, eof |-> FALSE, toProxy |-> <<>>, toRcv |-> frames]

\* The proxy's data after it accepted the registrations of `from'.
InfoAfter(from) ==
    [r \in Receivers |-> IF r \in from THEN Installed(info[r], Registration(r)) ELSE info[r]]
ConnAfter(from) ==
    [r \in Receivers |-> IF r \in from THEN Fresh(InstallFrames(info[r], Registration(r)))
                         ELSE conn[r]]
LinkAfter(from) == [r \in Receivers |-> IF r \in from THEN "up" ELSE link[r]]

\* Registrations waiting in the listener's queue.
Pending == {r \in Receivers : link[r] = "pending"}

\* accept_receivers: the proxy starts when every member has registered once.
\* The first FILE_META is sent, and the first central is read, after that.
Register(r) ==
    /\ pc = "register" /\ r \in Pending
    /\ info' = InfoAfter({r}) /\ conn' = ConnAfter({r}) /\ link' = LinkAfter({r})
    /\ pc' = IF \E q \in Receivers : info'[q].state = "Unknown" THEN "register"
             ELSE IF mode = "central" THEN "away" ELSE "begin"
    /\ UNCHANGED <<attemptVars, batch, task, cur, phase, drain, stored, faults, centrals>>

------------------------------------------------------------------------------
(* Waiting for receivers: wait_for_receiver_events and its three callers *)

AllCompleted(i) == \A r \in Receivers : i[r].completed \/ i[r].abandoned
InGroup(r) == ~(info[r].completed \/ info[r].isolated \/ info[r].abandoned)

\* The receivers a loop watches: those whose answer it still needs.
Watched(r) ==
    \/ pc = "meta"    /\ ~(info[r].completed \/ info[r].abandoned \/ info[r].metaReady)
    \/ pc = "collect" /\ InGroup(r)
    \/ pc = "barrier" /\ ~(info[r].abandoned \/ info[r].ready)

\* The loop is over: everybody answered.  In the last section a Complete status
\* is not enough, RECEIVER_COMPLETE must follow (round_responses_complete).
Answered(r) ==
    IF pc = "collect"
    THEN /\ info[r].status # "NO_REPORT"
         /\ ~(IsFinal(section) /\ info[r].status = "Complete")
    ELSE FALSE

AllAnswered == \A r \in Receivers : Watched(r) => Answered(r)

Waiting == pc \in {"meta", "collect", "barrier"} /\ batch = <<>> /\ ~AllAnswered

Readable(r) == conn[r].open /\ (conn[r].toProxy # <<>> \/ conn[r].eof)

Orders(S) == {q \in [1 .. Cardinality(S) -> S] : \A x \in S : \E i \in DOMAIN q : q[i] = x}

\* One epoll_wait: the readable descriptors are noted, then one pending
\* registration is accepted, and it may replace a descriptor just noted.
Poll ==
    LET readable == {r \in Receivers : Watched(r) /\ Readable(r)}
    IN  /\ Waiting /\ readable \cup Pending # {}
        /\ batch' \in Orders(readable)
        /\ \/ Pending = {} /\ UNCHANGED <<info, conn, link>>
           \/ \E r \in Pending : /\ info' = InfoAfter({r})
                                 /\ conn' = ConnAfter({r})
                                 /\ link' = LinkAfter({r})
        /\ UNCHANGED <<attemptVars, pc, task, cur, phase, drain, stored, faults, centrals>>

Front == Head(batch)
HasFrame == batch # <<>> /\ conn[Front].open /\ conn[Front].toProxy # <<>>
Got == Head(conn[Front].toProxy)
Popped == [conn EXCEPT ![Front].toProxy = Tail(@)]

\* receive_receiver_frame fails: no descriptor, or the stream has ended.
ReadNothing ==
    /\ batch # <<>> /\ ~HasFrame
    /\ \/ ~conn[Front].open /\ UNCHANGED conn
       \/ conn[Front].eof /\ conn' = [conn EXCEPT ![Front] = Closed(@)]
    /\ batch' = Tail(batch)
    /\ UNCHANGED <<attemptVars, pc, task, info, rcvVars, faults, centrals>>

\* The read of a live connection with nothing in it: it has no time limit.
Blocked ==
    /\ batch # <<>> /\ ~HasFrame
    /\ conn[Front].open /\ ~conn[Front].eof

\* The flags of a receiver whose RECEIVER_COMPLETE is believed (meta_ready and
\* isolated are not looked at again once it is completed).
Confirmed(i) == [i EXCEPT !.metaReady = TRUE, !.completed = TRUE, !.isolated = FALSE,
                          !.state = "Completed", !.id = Tid]

Ack(r) == [NoFrames EXCEPT ![r] = <<Frame("COMPLETE_ACK", Tid)>>]

\* MUTANT: a wait that fails starts again.
ThrowIgnored == UNCHANGED pc

Throws == pc' = IF mode = "direct" THEN "exited" ELSE "away"

\* wait_for_meta_ready
ReadMetaReady ==
    /\ pc = "meta" /\ HasFrame
    /\ CASE Got.type = "META_READY" ->
              /\ conn' = Popped
              /\ IF Got.id = Tid
                 THEN /\ info' = [info EXCEPT ![Front].metaReady = TRUE,
                                    ![Front].state = "Receiving", ![Front].id = Tid]
                      /\ batch' = Tail(batch) /\ UNCHANGED pc
                 ELSE Throws /\ batch' = <<>> /\ UNCHANGED info
         [] Got.type = "RECEIVER_COMPLETE" /\ Got.id = Tid ->
              /\ info' = [info EXCEPT ![Front] = Confirmed(@)]
              /\ SendOn(Popped, link, Ack(Front))
              /\ batch' = Tail(batch) /\ UNCHANGED pc
         [] OTHER -> conn' = Popped /\ batch' = Tail(batch) /\ UNCHANGED <<pc, info>>
    /\ UNCHANGED <<attemptVars, task, rcvVars, faults, centrals>>

\* handle_control_frame
ReadReport ==
    /\ pc = "collect" /\ HasFrame
    /\ batch' = Tail(batch)
    /\ CASE /\ Got.type = "SECTION_STATUS" /\ Got.id = Tid
            /\ Got.section = section /\ Got.round = round ->
              /\ info' = [info EXCEPT ![Front].status = Got.code]
              /\ conn' = Popped
         [] /\ Got.type = "RECEIVER_COMPLETE" /\ Got.id = Tid
            /\ info[Front].status = "Complete" ->
              /\ info' = [info EXCEPT ![Front] = Confirmed(@)]
              /\ SendOn(Popped, link, Ack(Front))
         [] OTHER -> conn' = Popped /\ UNCHANGED info
    /\ UNCHANGED <<attemptVars, pc, task, rcvVars, faults, centrals>>

\* wait_for_receivers_ready
ReadReady ==
    /\ pc = "barrier" /\ HasFrame
    /\ batch' = Tail(batch) /\ conn' = Popped
    /\ info' = IF Got = Frame("RECEIVER_READY", Tid)
               THEN [info EXCEPT ![Front].ready = TRUE, ![Front].state = "Idle",
                                 ![Front].id = NoId, ![Front].meta = NoId]
               ELSE info
    /\ UNCHANGED <<attemptVars, pc, task, rcvVars, faults, centrals>>

\* Receiver r has nothing under way and will not come back by itself.
Quiet(r) ==
    \/ link[r] = "gone"
    \/ Live(r) /\ conn[r].toRcv = <<>> /\ conn[r].toProxy = <<>> /\ drain[r] = <<>>

\* A deadline passes when no receiver that is waited for has anything to say,
\* and, as a fault, on receivers that are only late.
DeadlinePasses(waitedFor) ==
    \/ (\A r \in waitedFor : Quiet(r)) /\ UNCHANGED faults
    \/ faults > 0 /\ faults' = faults - 1

WaitExpires == Waiting /\ DeadlinePasses({r \in Receivers : Watched(r)})

\* "timed out waiting for META_READY", "... to reset transfer state"
WaitThrows ==
    /\ pc \in {"meta", "barrier"} /\ WaitExpires
    /\ Throws
    /\ UNCHANGED <<attemptVars, batch, task, info, conn, rcvVars, centrals>>

------------------------------------------------------------------------------
(* An attempt: begin_receiver_transfer, the sections, the verdict *)

\* In central mode the first attempt is driven by the central sender's sections.
FromCentral == mode = "central" /\ attempt = 0

BeginFrames(i) ==
    IF i.state = "Completed" /\ i.id = Tid THEN <<Frame("COMPLETE_ACK", Tid)>>
    ELSE (IF i.id = Tid THEN <<>> ELSE Stale(i.state, i.id)) \o <<Frame("FILE_META", Tid)>>

\* reset_transfer_state, and what becomes of a receiver that finished already.
Begun(i) ==
    LET done == i.state = "Completed" /\ i.id = Tid
    IN  [metaReady |-> done, completed |-> done, status |-> "NO_REPORT",
         ready |-> FALSE, isolated |-> FALSE, abandoned |-> FALSE,
         state |-> IF done THEN "Completed" ELSE "Receiving", id |-> Tid, meta |-> Tid]

Begin ==
    LET known == InfoAfter(Pending)
    IN  /\ pc = "begin" /\ ~(FromCentral /\ cached)
        /\ info' = [r \in Receivers |-> Begun(known[r])]
        /\ link' = LinkAfter(Pending)
        /\ SendOn(ConnAfter(Pending), link', [r \in Receivers |-> BeginFrames(known[r])])
        /\ pc' = "meta" /\ section' = 0 /\ round' = 0 /\ result' = "Success"
        /\ UNCHANGED <<mode, file, attempt, after, cached, batch, task, cur, phase, drain,
                       stored, faults, centrals>>

AllReady ==
    /\ pc = "meta" /\ batch = <<>> /\ AllAnswered
    /\ pc' = "section"
    /\ UNCHANGED <<attemptVars, batch, task, info, conn, rcvVars, faults, centrals>>

EndRound(to, k) == [r \in Receivers |-> IF to[r] THEN <<SectionEnd(Tid, section, k)>> ELSE <<>>]

\* reset_round_state
RoundReset(i) == [r \in Receivers |-> [i[r] EXCEPT !.status = "NO_REPORT", !.ready = FALSE]]

\* distribute_section up to the first collection.  Without a central sender the
\* loop stops when everybody is served.
SendSection ==
    /\ pc = "section" /\ section < SectionCount
    /\ FromCentral \/ ~AllCompleted(info)
    /\ Send(EndRound([r \in Receivers |-> InGroup(r)], 0))
    /\ pc' = "collect" /\ round' = 0 /\ info' = RoundReset(info)
    /\ UNCHANGED <<mode, file, attempt, section, result, after, cached, batch, task, rcvVars,
                   faults, centrals>>

\* collect_round_reports returns.
CollectionEnds ==
    /\ pc = "collect" /\ batch = <<>>
    /\ IF AllAnswered THEN UNCHANGED faults ELSE WaitExpires

ShaMismatch(i) == \E r \in Receivers : i[r].status = "Failed"

\* isolate_slow_receivers
Slow(r) == InGroup(r) /\ info[r].status = "Missing" /\ round >= BackfillAfter
Isolated == [r \in Receivers |-> [info[r] EXCEPT !.isolated = @ \/ Slow(r)]]

SectionDone == \A r \in Receivers : InGroup(r) /\ ~Slow(r) => info[r].status = "Complete"

\* wait_for_receivers_ready starts; `then' is what follows it.
EnterBarrier(i, then) ==
    /\ pc' = "barrier" /\ after' = then
    /\ info' = [r \in Receivers |-> [i[r] EXCEPT !.ready = FALSE]]

\* notify_failed_receivers
FailedFrames(i) ==
    [r \in Receivers |-> IF i[r].completed \/ i[r].abandoned THEN <<>>
                         ELSE <<Frame("TRANSFER_FAILED", Tid)>>]

\* distribute_section returns Sha256Mismatch: a first attempt for the central
\* sender goes on with the next section, any other is over.
CollectMismatch ==
    /\ CollectionEnds /\ ShaMismatch(info)
    /\ result' = "Sha256Mismatch"
    /\ IF FromCentral
       THEN pc' = "section" /\ section' = section + 1 /\ UNCHANGED <<after, info, conn>>
       ELSE EnterBarrier(info, "verdict") /\ Send(FailedFrames(info)) /\ UNCHANGED section
    /\ UNCHANGED <<mode, file, attempt, round, cached, batch, task, rcvVars, centrals>>

CloseSection ==
    /\ CollectionEnds /\ ~ShaMismatch(info) /\ SectionDone
    /\ info' = Isolated /\ result' = "Success"
    /\ pc' = "section" /\ section' = section + 1
    /\ UNCHANGED <<mode, file, attempt, round, after, cached, batch, task, conn, rcvVars,
                   centrals>>

\* MUTANT: one repair round too many.
OneRoundMore == round <= MaxRepairRounds

RoundsLeft == round < MaxRepairRounds

RepairRound ==
    /\ CollectionEnds /\ ~ShaMismatch(info) /\ ~SectionDone /\ RoundsLeft
    /\ Send(EndRound([r \in Receivers |-> InGroup(r) /\ ~Slow(r)], round + 1))
    /\ info' = RoundReset(Isolated) /\ round' = round + 1
    /\ UNCHANGED <<mode, pc, file, attempt, section, result, after, cached, batch, task,
                   rcvVars, centrals>>

\* The tasks of backfill_isolated_receivers.
BackfillTasks(i) ==
    [r \in Receivers |-> IF i[r].isolated /\ ~i[r].completed /\ ~i[r].abandoned
                         THEN "todo" ELSE "none"]

\* Somebody has neither finished nor been isolated: send_file_attempt goes on to
\* the backfill, and the central sender's dispatch worker fails.
RoundsExhausted ==
    /\ CollectionEnds /\ ~ShaMismatch(info) /\ ~SectionDone /\ ~RoundsLeft
    /\ result' = "Failed"
    /\ IF FromCentral
       THEN EnterBarrier(Isolated, "rethrow") /\ Send(FailedFrames(Isolated)) /\ UNCHANGED task
       ELSE /\ pc' = "backfill" /\ task' = BackfillTasks(Isolated) /\ info' = Isolated
            /\ UNCHANGED <<conn, after>>
    /\ UNCHANGED <<mode, file, attempt, section, round, cached, batch, rcvVars, centrals>>

\* Every section was distributed.  The file a central sender sent is committed
\* to the cache, unless a receiver reported a mismatch: then the barrier is first.
SectionsEnd ==
    /\ pc = "section" /\ (section = SectionCount \/ (~FromCentral /\ AllCompleted(info)))
    /\ IF FromCentral /\ result = "Sha256Mismatch"
       THEN EnterBarrier(info, "verdict") /\ Send(FailedFrames(info))
            /\ UNCHANGED <<task, cached>>
       ELSE /\ pc' = "backfill" /\ task' = BackfillTasks(info)
            /\ cached' = (cached \/ FromCentral)
            /\ UNCHANGED <<after, info, conn>>
    /\ UNCHANGED <<mode, file, attempt, section, round, result, batch, rcvVars, faults, centrals>>

\* The central sender's connection breaks, or its file is rejected, while the
\* sections are under way: the catch of receive_cached_file_from_central.
CentralFails ==
    /\ pc = "section" /\ FromCentral
    /\ EnterBarrier(info, "rethrow") /\ Send(FailedFrames(info))
    /\ UNCHANGED <<mode, file, attempt, section, round, result, cached, batch, task, rcvVars,
                   faults, centrals>>

------------------------------------------------------------------------------
(* TCP backfill of the isolated receivers, one pool task each *)

Abandon(r) ==
    /\ info' = [info EXCEPT ![r].abandoned = TRUE]
    /\ conn' = [conn EXCEPT ![r] = Closed(@)]
    /\ task' = [task EXCEPT ![r] = "done"]

\* BACKFILL_BEGIN, the blocks and BACKFILL_END, taken as one frame.
BackfillSend(r) ==
    /\ pc = "backfill" /\ task[r] = "todo"
    /\ \/ ~Live(r) /\ Abandon(r)
       \/ /\ conn[r].open
          /\ conn' = [conn EXCEPT ![r] =
                        Sent(@, link[r] = "up", <<Frame("BACKFILL", Tid)>>, FALSE)]
          /\ task' = [task EXCEPT ![r] = "waiting"]
          /\ UNCHANGED info
    /\ UNCHANGED <<attemptVars, pc, batch, rcvVars, faults, centrals>>

BackfillRead(r) ==
    LET f == Head(conn[r].toProxy)
        popped == [conn EXCEPT ![r].toProxy = Tail(@)]
    IN  /\ pc = "backfill" /\ task[r] = "waiting" /\ conn[r].toProxy # <<>>
        /\ CASE f.type = "SECTION_STATUS" /\ f.id = Tid /\ f.code = "Failed" ->
                  /\ info' = [info EXCEPT ![r].status = "Failed"]
                  /\ conn' = popped /\ task' = [task EXCEPT ![r] = "done"]
             [] f.type = "RECEIVER_COMPLETE" /\ f.id = Tid ->
                  /\ info' = [info EXCEPT ![r] = Confirmed(@)]
                  /\ SendOn(popped, link, Ack(r)) /\ task' = [task EXCEPT ![r] = "done"]
             [] OTHER -> conn' = popped /\ UNCHANGED <<info, task>>
        /\ UNCHANGED <<attemptVars, pc, batch, rcvVars, faults, centrals>>

\* The stream ends (POLLHUP may hide the last frames), or 30 s pass.
BackfillGivesUp(r) ==
    /\ pc = "backfill" /\ task[r] = "waiting"
    /\ IF conn[r].eof \/ (~Live(r) /\ conn[r].toProxy = <<>>) THEN UNCHANGED faults
       ELSE conn[r].toProxy = <<>> /\ DeadlinePasses({r})
    /\ Abandon(r)
    /\ UNCHANGED <<attemptVars, pc, batch, rcvVars, centrals>>

\* The tasks are joined; only when there were some, the registrations that came
\* in meanwhile are accepted.
Rejoining == IF \E r \in Receivers : task[r] = "done" THEN Pending ELSE {}

Joined == pc = "backfill" /\ \A r \in Receivers : task[r] \in {"none", "done"}

Verdict(i) ==
    IF AllCompleted(i) /\ ~(FromCentral /\ ShaMismatch(i)) THEN "Success"
    ELSE IF ShaMismatch(i) THEN "Sha256Mismatch" ELSE "Failed"

BackfillEnds ==
    LET known == InfoAfter(Rejoining)
        verdict == Verdict(known)
    IN  /\ Joined
        /\ link' = LinkAfter(Rejoining)
        /\ result' = verdict
        /\ EnterBarrier(known, IF FromCentral /\ verdict = "Success" THEN "return" ELSE "verdict")
        /\ SendOn(ConnAfter(Rejoining), link',
                  IF verdict = "Success" THEN NoFrames ELSE FailedFrames(known))
        /\ task' = [r \in Receivers |-> "none"]
        /\ UNCHANGED <<mode, file, attempt, section, round, cached, batch, cur, phase, drain,
                       stored, faults, centrals>>

\* The file is delivered, but CENTRAL_STATUS cannot be sent: the exception skips
\* the barrier.
StatusLost ==
    LET known == InfoAfter(Rejoining)
    IN  /\ Joined /\ FromCentral /\ Verdict(known) = "Success"
        /\ info' = known /\ conn' = ConnAfter(Rejoining) /\ link' = LinkAfter(Rejoining)
        /\ result' = "Success" /\ pc' = "away"
        /\ task' = [r \in Receivers |-> "none"]
        /\ UNCHANGED <<mode, file, attempt, section, round, after, cached, batch, cur, phase,
                       drain, stored, faults, centrals>>

------------------------------------------------------------------------------
(* Between two attempts, two files, two sessions of the central sender *)

FileDone ==
    /\ pc' = IF file = Files THEN "end" ELSE "begin"
    /\ file' = IF file = Files THEN file ELSE file + 1
    /\ attempt' = 0 /\ cached' = FALSE

\* abandon_incomplete_receivers
Abandoned(r) == ~info[r].completed

BarrierPassed == pc = "barrier" /\ batch = <<>> /\ AllAnswered

\* The barrier of a failed dispatch: the proxy waits for another central.
Rethrow ==
    /\ BarrierPassed /\ after = "rethrow"
    /\ pc' = "away"
    /\ UNCHANGED <<attemptVars, batch, task, info, conn, rcvVars, faults, centrals>>

RetriesLeft == attempt < MaxRetries

\* Only a file whose digest a receiver disputes is sent again, under a new id.
Retry ==
    /\ BarrierPassed /\ after = "verdict" /\ result = "Sha256Mismatch" /\ RetriesLeft
    /\ attempt' = attempt + 1 /\ pc' = "begin"
    /\ cached' = (cached \/ FromCentral)
    /\ UNCHANGED <<mode, file, section, round, result, after, batch, task, info, conn, rcvVars,
                   faults, centrals>>

\* The status of a file that not everybody got, or that was sent again, follows
\* the barrier; when it cannot be sent the central sender offers the file again.
FileEnds ==
    /\ BarrierPassed
    /\ after = "return" \/ (after = "verdict" /\ ~(result = "Sha256Mismatch" /\ RetriesLeft))
    /\ IF result = "Success" THEN UNCHANGED <<info, conn>>
       ELSE /\ info' = [r \in Receivers |-> [info[r] EXCEPT !.abandoned = @ \/ Abandoned(r)]]
            /\ conn' = [r \in Receivers |-> IF Abandoned(r) THEN Closed(conn[r]) ELSE conn[r]]
    /\ \/ FileDone
       \/ /\ mode = "central" /\ after = "verdict"
          /\ pc' = "away" /\ cached' = TRUE /\ UNCHANGED <<file, attempt>>
    /\ UNCHANGED <<mode, section, round, result, after, batch, task, rcvVars, faults, centrals>>

\* A central sender connects and offers the first file that is not done.
CentralConnects ==
    /\ pc = "away" /\ centrals > 0
    /\ centrals' = centrals - 1
    /\ pc' = "begin" /\ attempt' = 0
    /\ UNCHANGED <<mode, file, section, round, result, after, cached, batch, task, info, conn,
                   rcvVars, faults>>

\* The file is in the cache already: the receivers that finished it are told so,
\* nothing is distributed, and the central is told that the file is done.  When
\* CENTRAL_RESUME cannot be sent the next central sender offers the file again.
CachedFile ==
    LET known == InfoAfter(Pending)
        finished == {r \in Receivers : known[r].state = "Completed" /\ known[r].id = Tid}
    IN  /\ pc = "begin" /\ FromCentral /\ cached
        /\ link' = LinkAfter(Pending)
        /\ info' = [r \in Receivers |->
                       IF r \in finished
                       THEN [known[r] EXCEPT !.meta = Tid, !.metaReady = TRUE, !.completed = TRUE]
                       ELSE [known[r] EXCEPT !.meta = Tid]]
        /\ SendOn(ConnAfter(Pending), link',
                  [r \in Receivers |-> IF r \in finished
                                       THEN <<Frame("COMPLETE_ACK", Tid)>> ELSE <<>>])
        /\ \/ FileDone
           \/ pc' = "away" /\ UNCHANGED <<file, attempt, cached>>
        /\ UNCHANGED <<mode, section, round, result, after, batch, task, cur, phase, drain,
                       stored, faults, centrals>>

\* SESSION_END to everybody the proxy is connected to; it exits.
SessionEnd ==
    /\ pc = "end"
    /\ pc' = "over"
    /\ info' = InfoAfter(Pending) /\ link' = LinkAfter(Pending)
    /\ SendOn(ConnAfter(Pending), link',
              [r \in Receivers |-> <<Frame("SESSION_END", NoId)>>])
    /\ UNCHANGED <<attemptVars, batch, task, cur, phase, drain, stored, faults, centrals>>

\* CENTRAL_SESSION_END is sent once; when it is lost nobody connects again.
SessionEndLost ==
    /\ pc = "end" /\ mode = "central"
    /\ pc' = "away" /\ centrals' = 0
    /\ UNCHANGED <<attemptVars, batch, task, info, conn, rcvVars, faults>>

------------------------------------------------------------------------------
(* A receiver: handle_control_message, the drain timer, reconnect_proxy *)

ProxyUp == pc \notin {"over", "exited"}

\* The receiver's transfer becomes <<id, ph>>; it answers `frames' on the
\* connection it read from, if the proxy still has it.
Becomes(r, id, ph, frames) ==
    /\ cur' = [cur EXCEPT ![r] = id] /\ phase' = [phase EXCEPT ![r] = ph]
    /\ conn' = [conn EXCEPT ![r].toRcv = Tail(@),
                            ![r].toProxy = IF conn[r].open THEN @ \o frames ELSE @]

\* finalize_transfer: the file is renamed into place, or its digest is wrong.
Commits(r) == stored' = [stored EXCEPT ![r] = @ \cup {cur[r][1]}] /\ UNCHANGED faults

Corrupt == faults > 0 /\ faults' = faults - 1 /\ UNCHANGED stored

Receives(r, type) ==
    link[r] = "up" /\ conn[r].toRcv # <<>> /\ Head(conn[r].toRcv).type = type

\* A FILE_META for a receiver that has another transfer: it throws, closes the
\* connection and registers again.
Clashes(r) ==
    /\ Receives(r, "FILE_META")
    /\ cur[r] \notin {NoId, Head(conn[r].toRcv).id}

RcvFileMeta(r) ==
    LET id == Head(conn[r].toRcv).id
    IN  /\ Receives(r, "FILE_META") /\ ~Clashes(r)
        /\ IF cur[r] = id
           THEN /\ Becomes(r, id, phase[r], <<Frame(IF phase[r] = "awaiting"
                                                    THEN "RECEIVER_COMPLETE"
                                                    ELSE "META_READY", id)>>)
                /\ UNCHANGED drain
           ELSE /\ Becomes(r, id, "receiving", <<Frame("META_READY", id)>>)
                /\ drain' = [drain EXCEPT ![r] = <<>>]
        /\ UNCHANGED <<stored, faults>>

RcvClash(r) ==
    /\ Clashes(r)
    /\ conn' = [conn EXCEPT ![r].toRcv = <<>>, ![r].eof = @ \/ conn[r].open]
    /\ link' = [link EXCEPT ![r] = "down"]
    /\ drain' = [drain EXCEPT ![r] = <<>>]
    /\ UNCHANGED <<attemptVars, pc, batch, task, info, cur, phase, stored, faults, centrals>>

\* The drain of a round starts; a later SECTION_END takes its place.
RcvSectionEnd(r) ==
    LET f == Head(conn[r].toRcv)
    IN  /\ Receives(r, "SECTION_END")
        /\ Becomes(r, cur[r], phase[r], <<>>)
        /\ drain' = IF cur[r] = f.id /\ phase[r] = "receiving"
                    THEN [drain EXCEPT ![r] = <<f.section, f.round>>] ELSE drain
        /\ UNCHANGED <<stored, faults>>

\* BACKFILL_END: the file is whole and right, or the receiver says FAILED.
RcvBackfill(r) ==
    LET f == Head(conn[r].toRcv)
        failed == SectionStatus(cur[r], 0, 0, "Failed")
    IN  /\ Receives(r, "BACKFILL")
        /\ \/ /\ cur[r] # f.id \/ phase[r] # "receiving"
              /\ Becomes(r, cur[r], phase[r], <<>>) /\ UNCHANGED <<stored, faults>>
           \/ /\ cur[r] = f.id /\ phase[r] = "receiving"
              /\ Becomes(r, cur[r], "awaiting", <<Frame("RECEIVER_COMPLETE", cur[r])>>)
              /\ Commits(r)
           \/ /\ cur[r] = f.id /\ phase[r] = "receiving"
              /\ \E ph \in {"receiving", "shafailed"} : Becomes(r, cur[r], ph, <<failed>>)
              /\ Corrupt
        /\ UNCHANGED drain

\* The TransferState is dropped, RECEIVER_READY is sent.
Resets(r) ==
    LET id == Head(conn[r].toRcv).id
    IN  /\ Becomes(r, NoId, "idle", <<Frame("RECEIVER_READY", id)>>)
        /\ drain' = [drain EXCEPT ![r] = <<>>]
        /\ UNCHANGED <<stored, faults>>

Ignores(r) == Becomes(r, cur[r], phase[r], <<>>) /\ UNCHANGED <<drain, stored, faults>>

RcvCompleteAck(r) ==
    /\ Receives(r, "COMPLETE_ACK")
    /\ IF cur[r] = Head(conn[r].toRcv).id /\ phase[r] = "awaiting" THEN Resets(r) ELSE Ignores(r)

\* A receiver without a transfer answers too: the proxy only wants to know that
\* it is free.
RcvTransferResult(r) ==
    /\ Receives(r, "TRANSFER_FAILED")
    /\ IF cur[r] \in {NoId, Head(conn[r].toRcv).id} THEN Resets(r) ELSE Ignores(r)

RcvFrame(r) ==
    /\ \/ RcvFileMeta(r) \/ RcvSectionEnd(r) \/ RcvBackfill(r)
       \/ RcvCompleteAck(r) \/ RcvTransferResult(r)
    /\ UNCHANGED <<attemptVars, pc, batch, task, info, link, centrals>>

\* SESSION_END: the receiver process exits.
RcvSessionEnd(r) ==
    /\ Receives(r, "SESSION_END")
    /\ link' = [link EXCEPT ![r] = "gone"]
    /\ conn' = [conn EXCEPT ![r].toRcv = <<>>]
    /\ UNCHANGED <<attemptVars, pc, batch, task, info, cur, phase, drain, stored, faults, centrals>>

\* finish_drain_and_report.  What is in the file is open: the section lacks
\* blocks, or has them all, or the whole file is there, right or wrong.
RcvReport(r) ==
    LET s == drain[r][1]
        report(code) == SectionStatus(cur[r], s, drain[r][2], code)
        answers(ph, frames) == /\ phase' = [phase EXCEPT ![r] = ph]
                               /\ conn' = [conn EXCEPT ![r].toProxy =
                                              IF conn[r].open THEN @ \o frames ELSE @]
    IN  /\ link[r] = "up" /\ drain[r] # <<>>
        /\ drain' = [drain EXCEPT ![r] = <<>>]
        /\ \/ answers("receiving", <<report("Missing")>>) /\ UNCHANGED <<stored, faults>>
           \/ /\ FileSections[cur[r][1]] > 1
              /\ answers("receiving", <<report("Complete")>>) /\ UNCHANGED <<stored, faults>>
           \/ /\ answers("awaiting", <<report("Complete"), Frame("RECEIVER_COMPLETE", cur[r])>>)
              /\ Commits(r)
           \/ answers("shafailed", <<report("Failed")>>) /\ Corrupt
        /\ UNCHANGED <<attemptVars, pc, batch, task, info, link, cur, centrals>>

\* connect_and_register: it tries again every second until it succeeds.
Reconnect(r) ==
    /\ link[r] = "down" /\ ProxyUp
    /\ link' = [link EXCEPT ![r] = "pending"]
    /\ UNCHANGED <<attemptVars, pc, batch, task, info, conn, cur, phase, drain, stored, faults,
                   centrals>>

\* The proxy closed its end: the receiver notices, at the latest when it has read
\* what was sent before.
SeesClose(r) ==
    /\ link[r] = "up" /\ ~conn[r].open /\ ProxyUp
    /\ link' = [link EXCEPT ![r] = "down"]
    /\ conn' = [conn EXCEPT ![r].toRcv = <<>>]
    /\ drain' = [drain EXCEPT ![r] = <<>>]
    /\ UNCHANGED <<attemptVars, pc, batch, task, info, cur, phase, stored, faults, centrals>>

------------------------------------------------------------------------------
(* Faults *)

\* Frames that have certainly arrived: epoll has reported the first of them.
Arrived(r) == IF r \in Messages(batch) /\ conn[r].toProxy # <<>> THEN 1 ELSE 0

\* The end of the connection at the receiver fails; a part of what it sent still
\* reaches the proxy, and the proxy may or may not learn of the end.
Cut(r) ==
    \E kept \in Arrived(r) .. Len(conn[r].toProxy), seen \in BOOLEAN :
        conn' = [conn EXCEPT ![r].toRcv = <<>>, ![r].eof = seen,
                             ![r].toProxy = SubSeq(@, 1, kept)]

\* The connection breaks.
Break(r) ==
    /\ faults > 0 /\ faults' = faults - 1 /\ Live(r) /\ ProxyUp
    /\ Cut(r)
    /\ link' = [link EXCEPT ![r] = "down"]
    /\ drain' = [drain EXCEPT ![r] = <<>>]
    /\ UNCHANGED <<attemptVars, pc, batch, task, info, cur, phase, stored, centrals>>

\* The receiver process dies.  Started again it has another peer port, so it is
\* no longer one of the fixed members and is refused: it never comes back.
Die(r) ==
    /\ faults > 0 /\ faults' = faults - 1 /\ Live(r) /\ ProxyUp /\ pc # "register"
    /\ Cut(r)
    /\ link' = [link EXCEPT ![r] = "gone"]
    /\ drain' = [drain EXCEPT ![r] = <<>>]
    /\ cur' = [cur EXCEPT ![r] = NoId] /\ phase' = [phase EXCEPT ![r] = "idle"]
    /\ UNCHANGED <<attemptVars, pc, batch, task, info, stored, centrals>>

------------------------------------------------------------------------------
(* The specification *)

\* A receiver may have lived through an earlier run of the proxy: it is idle, or
\* still holds a transfer of that run, which in central mode may be the first
\* file of this one.
Init ==
    /\ mode \in Modes
    /\ pc = "register" /\ file = 1 /\ attempt = 0 /\ section = 0 /\ round = 0
    /\ result = "Success" /\ after = "verdict" /\ cached = FALSE
    /\ batch = <<>> /\ task = [r \in Receivers |-> "none"]
    /\ info = [r \in Receivers |->
                  [metaReady |-> FALSE, completed |-> FALSE, status |-> "NO_REPORT",
                   ready |-> FALSE, isolated |-> FALSE, abandoned |-> FALSE,
                   state |-> "Unknown", id |-> NoId, meta |-> NoId]]
    /\ conn = [r \in Receivers |-> Closed(Fresh(<<>>))]
    /\ link = [r \in Receivers |-> "pending"]
    /\ drain = [r \in Receivers |-> <<>>]
    /\ cur \in [Receivers -> {NoId, OldId} \cup (IF mode = "central" THEN {<<1, 0>>} ELSE {})]
    /\ phase \in [Receivers -> {"idle", "receiving", "awaiting"}]
    /\ \A r \in Receivers : /\ phase[r] = "idle" <=> cur[r] = NoId
                            /\ r \notin Survivors => cur[r] = NoId
    /\ stored = [r \in Receivers |-> IF phase[r] = "awaiting" THEN {cur[r][1]} ELSE {}]
    /\ faults = MaxFaults /\ centrals = MaxCentrals

ProxyStep ==
    \/ (\E r \in Receivers : Register(r))
    \/ Poll \/ ReadNothing \/ ReadMetaReady \/ ReadReport \/ ReadReady \/ WaitThrows
    \/ Begin \/ AllReady \/ SendSection \/ CollectMismatch \/ CloseSection \/ RepairRound
    \/ RoundsExhausted \/ SectionsEnd \/ CentralFails
    \/ (\E r \in Receivers : BackfillSend(r) \/ BackfillRead(r) \/ BackfillGivesUp(r))
    \/ BackfillEnds \/ StatusLost \/ Rethrow \/ Retry \/ FileEnds \/ CentralConnects
    \/ CachedFile \/ SessionEnd \/ SessionEndLost

ReceiverStep(r) ==
    \/ RcvFrame(r) \/ RcvClash(r) \/ RcvSessionEnd(r) \/ RcvReport(r) \/ Reconnect(r)
    \/ SeesClose(r)

\* The proxy has exited, waits for a central sender that does not come, or waits
\* in a read.
Over == pc \in {"over", "exited"} \/ (pc = "away" /\ centrals = 0)

Stopped == (Over \/ Blocked) /\ UNCHANGED vars

Next ==
    \/ ProxyStep
    \/ \E r \in Receivers : ReceiverStep(r) \/ Break(r) \/ Die(r)
    \/ Stopped

\* The proxy thread runs and its deadlines come; a receiver serves its control
\* connection and its drain timer, and keeps trying to connect.
Fairness ==
    /\ WF_vars(ProxyStep)
    /\ \A r \in Receivers : WF_vars(ReceiverStep(r))

Spec == Init /\ [][Next]_vars /\ Fairness

------------------------------------------------------------------------------
(* Properties *)

Ids == {NoId, OldId} \cup ((1 .. Files) \X (0 .. MaxRetries))
Rounds == 0 .. MaxRepairRounds

\* What a receiver is sent, and what it sends.
RcvFrames ==
    [type : {"FILE_META", "BACKFILL", "COMPLETE_ACK", "TRANSFER_FAILED", "SESSION_END"}, id : Ids]
    \cup [type : {"SECTION_END"}, id : Ids, section : Nat, round : Rounds]
ProxyFrames ==
    [type : {"META_READY", "RECEIVER_COMPLETE", "RECEIVER_READY"}, id : Ids]
    \cup [type : {"SECTION_STATUS"}, id : Ids, section : Nat, round : Rounds,
          code : {"Missing", "Complete", "Failed"}]

Infos ==
    [metaReady : BOOLEAN, completed : BOOLEAN, ready : BOOLEAN, isolated : BOOLEAN,
     abandoned : BOOLEAN, status : {"NO_REPORT", "Missing", "Complete", "Failed"},
     state : {"Unknown", "Idle", "Receiving", "Completed"}, id : Ids, meta : Ids]
Conns == [open : BOOLEAN, eof : BOOLEAN, toProxy : Seq(ProxyFrames), toRcv : Seq(RcvFrames)]

\* The shape of the variables.
TypeOK ==
    /\ mode \in Modes
    /\ pc \in {"register", "away", "begin", "meta", "section", "collect", "backfill",
               "barrier", "end", "over", "exited"}
    /\ file \in 1 .. Files /\ attempt \in 0 .. MaxRetries
    /\ section \in Nat /\ round \in Rounds
    /\ result \in {"Success", "Sha256Mismatch", "Failed"}
    /\ after \in {"verdict", "return", "rethrow"} /\ cached \in BOOLEAN
    /\ batch \in Seq(Receivers)
    /\ task \in [Receivers -> {"none", "todo", "waiting", "done"}]
    /\ info \in [Receivers -> Infos]
    /\ conn \in [Receivers -> Conns]
    /\ link \in [Receivers -> {"up", "down", "pending", "gone"}]
    /\ cur \in [Receivers -> Ids]
    /\ phase \in [Receivers -> {"idle", "receiving", "awaiting", "shafailed"}]
    /\ drain \in [Receivers -> {<<>>} \cup (Nat \X Rounds)]
    /\ stored \in [Receivers -> SUBSET (0 .. Files)]
    /\ faults \in 0 .. MaxFaults /\ centrals \in 0 .. MaxCentrals

\* Across broken links, reconnections, retries under a new id and central
\* senders that start over, a receiver is counted as completed only when it has
\* renamed this very file into place.
ConfirmedIsStored ==
    pc # "begin" => \A r \in Receivers : info[r].completed => file \in stored[r]

\* No transfer id is in use for the second time: ids are fresh, but a central
\* sender that comes back offers its file under the same one.
IdsAreFresh == mode = "direct" \/ centrals + 1 >= MaxCentrals

\* The barrier keeps the next FILE_META apart from what is left of the transfer
\* before: no receiver is handed a file while it holds another one.
NoClash == \A r \in Receivers : ~Clashes(r)

\* It does as long as ids are fresh.
NoClashFresh == IdsAreFresh => NoClash

\* Within an attempt a receiver that completed the file stays completed, however
\* often it reconnects (again as long as ids are fresh).
CompletedStays ==
    [][IdsAreFresh /\ pc \notin {"begin", "away"} =>
         \A r \in Receivers : info[r].completed => info'[r].completed]_vars

\* Every wait of the proxy ends: the session comes to its end, or the proxy waits
\* for a central sender, unless it is caught for good in a read without a limit.
SessionEnds == <>Over \/ <>[]Blocked

\* The proxy is never caught in a read of a receiver that has nothing to send:
\* the waits for META_READY, the reports and READY are bounded by deadlines.
WaitsAreBounded == Blocked => ~Quiet(Front)
==============================================================================
