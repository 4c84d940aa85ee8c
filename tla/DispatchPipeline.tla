-------------------------- MODULE DispatchPipeline ---------------------------
(***************************************************************************)
(* The two threads of the proxy that work on one file: the thread that     *)
(* reads the central connection and commits sections to the cache (the     *)
(* producer), and the dispatch worker that distributes them to the         *)
(* receivers, with the queue, the flags and the condition variable between *)
(* them (receive_cached_file_from_central in src/src/sender.cpp).          *)
(*                                                                         *)
(* A step that holds dispatch_mutex is one action.  dispatch_condition is  *)
(* the set of the threads asleep on it: a wait whose predicate is false    *)
(* falls asleep in the same step, and every notify is a step of its own,   *)
(* made after the mutex is released, so a wake-up can come too early.      *)
(***************************************************************************)
EXTENDS Integers, Sequences

CONSTANTS SectionCount,    \* section_count of the file
          ResumeSection,   \* resume_section: sections already in the cache
          FullBytes,       \* bytes of a section, the last one excepted
          LastBytes,       \* bytes of the last section
          Receivers        \* the receivers the sections are distributed to

ASSUME PipelineAssumption ==
    /\ SectionCount \in Nat \ {0}
    /\ ResumeSection \in 0 .. SectionCount - 1
    /\ FullBytes \in Nat \ {0}
    /\ LastBytes \in 1 .. FullBytes

Sections == 0 .. SectionCount - 1

\* section_bytes
Bytes(s) == IF s + 1 = SectionCount THEN LastBytes ELSE FullBytes

MaximumBytes == IF SectionCount = 1 THEN LastBytes ELSE FullBytes
HighWatermark == MaximumBytes * 4
LowWatermark == MaximumBytes * 2

VARIABLES
    producer, worker,     \* where each thread is
    asleep,               \* the threads asleep on dispatch_condition
    next,                 \* the section the producer hands over next
    queue,                \* dispatch_queue
    hand,                 \* the section the worker is distributing, or None
    pending,              \* pending_bytes
    producerDone, cancel, workerFailed,
    sectionResult,        \* section_result
    shaFailed             \* receivers whose FAILED was read and that hold the bad file

vars == <<producer, worker, asleep, next, queue, hand, pending, producerDone, cancel,
          workerFailed, sectionResult, shaFailed>>
producerVars == <<producer, next, producerDone>>
workerVars == <<worker, hand, workerFailed, sectionResult, shaFailed>>

None == SectionCount
Threads == {"producer", "worker"}

------------------------------------------------------------------------------
(* The producer *)

Throw == producer' = "cancel"

\* The top of the loop: a section committed in an earlier run is in the cache,
\* for a later one throw_if_worker_failed comes before the read.
Fetch ==
    /\ producer = "fetch"
    /\ \/ next < ResumeSection /\ producer' = "enqueue"
       \/ next >= ResumeSection /\ workerFailed /\ Throw
       \/ next >= ResumeSection /\ ~workerFailed /\ producer' = "reading"
    /\ UNCHANGED <<next, producerDone, workerVars, asleep, queue, pending, cancel>>

\* The frames of the section up to its FILE_END were read, synced and
\* checkpointed, and after every one of them the worker was looked at.
Read ==
    /\ producer = "reading"
    /\ IF workerFailed THEN Throw ELSE producer' = "enqueue"
    /\ UNCHANGED <<next, producerDone, workerVars, asleep, queue, pending, cancel>>

\* The connection breaks, at CENTRAL_RESUME or later, or a section does not end
\* cleanly.
FetchFails ==
    /\ \/ producer = "fetch" /\ next = 0
       \/ producer = "reading"
    /\ Throw
    /\ UNCHANGED <<next, producerDone, workerVars, asleep, queue, pending, cancel>>

\* MUTANT: the section itself is left out of the sum.
OverHighForgetsTask == pending > HighWatermark

OverHigh == pending + Bytes(next) > HighWatermark

\* The predicate a blocked producer waits for.
MayProceed == workerFailed \/ cancel \/ pending <= LowWatermark

\* The second half of enqueue_section, with the mutex held.
Push ==
    IF workerFailed \/ cancel
    THEN Throw /\ UNCHANGED <<queue, pending>>
    ELSE /\ producer' = "notify"
         /\ queue' = Append(queue, next)
         /\ pending' = pending + Bytes(next)

Enqueue ==
    /\ producer = "enqueue"
    /\ IF OverHigh /\ ~MayProceed
       THEN /\ producer' = "blocked" /\ asleep' = asleep \cup {"producer"}
            /\ UNCHANGED <<queue, pending>>
       ELSE Push /\ UNCHANGED asleep
    /\ UNCHANGED <<next, producerDone, workerVars, cancel>>

\* Woken: the predicate is tested again, the high watermark is not.
Woken ==
    /\ producer = "blocked" /\ "producer" \notin asleep
    /\ IF ~MayProceed
       THEN asleep' = asleep \cup {"producer"} /\ UNCHANGED <<producer, queue, pending>>
       ELSE Push /\ UNCHANGED asleep
    /\ UNCHANGED <<next, producerDone, workerVars, cancel>>

\* notify_one, then on to the next section.
NotifyOne ==
    /\ producer = "notify"
    /\ IF asleep = {} THEN UNCHANGED asleep
       ELSE \E t \in asleep : asleep' = asleep \ {t}
    /\ next' = next + 1
    /\ producer' = IF next + 1 = SectionCount THEN "finish" ELSE "fetch"
    /\ UNCHANGED <<producerDone, workerVars, queue, pending, cancel>>

\* complete_dispatch: set the flag, notify_all, join, look for a failure.
Finish ==
    /\ producer = "finish"
    /\ producerDone' = TRUE /\ producer' = "finish_notify"
    /\ UNCHANGED <<next, workerVars, asleep, queue, pending, cancel>>

FinishNotify ==
    /\ producer = "finish_notify"
    /\ asleep' = {} /\ producer' = "join"
    /\ UNCHANGED <<next, producerDone, workerVars, queue, pending, cancel>>

Join ==
    /\ producer = "join" /\ worker = "ended"
    /\ IF workerFailed THEN Throw ELSE producer' = "returned"
    /\ UNCHANGED <<next, producerDone, workerVars, asleep, queue, pending, cancel>>

\* stop_dispatch, from the catch block: set the flag, notify_all, join.
Cancel ==
    /\ producer = "cancel"
    /\ cancel' = TRUE /\ producer' = "cancel_notify"
    /\ UNCHANGED <<next, producerDone, workerVars, asleep, queue, pending>>

CancelNotify ==
    /\ producer = "cancel_notify"
    /\ asleep' = {} /\ producer' = "cancel_join"
    /\ UNCHANGED <<next, producerDone, workerVars, queue, pending, cancel>>

\* MUTANT: the worker is not joined.
CancelNotJoined ==
    /\ producer = "cancel_join"
    /\ producer' = "threw"
    /\ UNCHANGED <<next, producerDone, workerVars, asleep, queue, pending, cancel>>

CancelJoin ==
    /\ producer = "cancel_join" /\ worker = "ended"
    /\ producer' = "threw"
    /\ UNCHANGED <<next, producerDone, workerVars, asleep, queue, pending, cancel>>

------------------------------------------------------------------------------
(* The dispatch worker *)

\* The predicate an idle worker waits for.
HasNews == cancel \/ producerDone \/ queue # <<>>

\* MUTANT: an ended producer is enough to stop, whatever is queued.
StopsEarly == cancel \/ producerDone

Stops == cancel \/ queue = <<>>

\* MUTANT: the newest section first.
NewestTask == queue[Len(queue)]

OldestTask == Head(queue)

\* The top of the loop, or the return of the wait.
Take ==
    /\ worker = "idle" /\ "worker" \notin asleep
    /\ IF ~HasNews
       THEN asleep' = asleep \cup {"worker"} /\ UNCHANGED <<worker, hand, queue>>
       ELSE /\ UNCHANGED asleep
            /\ IF Stops THEN worker' = "ended" /\ UNCHANGED <<hand, queue>>
               ELSE /\ worker' = "busy"
                    /\ hand' = OldestTask /\ queue' = Tail(queue)
    /\ UNCHANGED <<producerVars, pending, cancel, workerFailed, sectionResult, shaFailed>>

\* How the receivers come out of a section: served (complete, isolated or
\* abandoned), with a file whose digest is wrong, or neither within the repair
\* rounds.  One that has reported a wrong digest drops every SECTION_END.
Answers == [Receivers \ shaFailed -> {"served", "wrong", "none"}]

\* MUTANT: a receiver that is silent since its mismatch counts as served.
SilentIsServed(answers) ==
    IF \E r \in DOMAIN answers : answers[r] = "wrong" THEN "Sha256Mismatch"
    ELSE IF \A r \in DOMAIN answers : answers[r] = "served" THEN "Success"
    ELSE "Failed"

\* What distribute_section returns.  A FAILED read in any round returns at once.
Outcome(answers) ==
    IF \E r \in DOMAIN answers : answers[r] = "wrong" THEN "Sha256Mismatch"
    ELSE IF shaFailed = {} /\ \A r \in DOMAIN answers : answers[r] = "served" THEN "Success"
    ELSE "Failed"

\* MUTANT: a section that failed stays accounted for.
AccountForgotten == pending

\* MUTANT: the bytes are taken off in both branches.
AccountTwice == pending - Bytes(hand) - Bytes(hand)

Account == pending - Bytes(hand)

\* distribute_section returns.
Distributed ==
    /\ worker = "busy"
    /\ pending' = Account /\ hand' = None
    /\ \E answers \in Answers :
          /\ sectionResult' = Outcome(answers)
          /\ shaFailed' = shaFailed \cup {r \in DOMAIN answers : answers[r] = "wrong"}
    /\ workerFailed' = (sectionResult' = "Failed")
    /\ cancel' = (cancel \/ sectionResult' = "Failed")
    /\ worker' = "notify"
    /\ UNCHANGED <<producerVars, asleep, queue>>

\* distribute_section throws.
DistributeThrows ==
    /\ worker = "busy"
    /\ pending' = Account /\ hand' = None
    /\ workerFailed' = TRUE /\ cancel' = TRUE
    /\ worker' = "notify"
    /\ UNCHANGED <<producerVars, asleep, queue, sectionResult, shaFailed>>

\* MUTANT: a blocked producer is not told that bytes have been worked off.
WorkerForgetsNotify ==
    /\ worker = "notify"
    /\ worker' = IF workerFailed THEN "ended" ELSE "idle"
    /\ UNCHANGED <<producerVars, asleep, hand, queue, pending, cancel, workerFailed,
                   sectionResult, shaFailed>>

WorkerNotify ==
    /\ worker = "notify"
    /\ asleep' = {}
    /\ worker' = IF workerFailed THEN "ended" ELSE "idle"
    /\ UNCHANGED <<producerVars, hand, queue, pending, cancel, workerFailed,
                   sectionResult, shaFailed>>

\* A receiver that held a bad file was started again and registered anew: it
\* answers the sections to come like any other.
ReceiverStartsOver ==
    /\ \E r \in shaFailed : shaFailed' = shaFailed \ {r}
    /\ UNCHANGED <<producerVars, worker, asleep, hand, queue, pending, cancel, workerFailed,
                   sectionResult>>

\* A condition variable may wake a thread for no reason.
Spurious ==
    /\ \E t \in asleep : asleep' = asleep \ {t}
    /\ UNCHANGED <<producerVars, workerVars, queue, pending, cancel>>

------------------------------------------------------------------------------
Init ==
    /\ producer = "fetch" /\ worker = "idle" /\ asleep = {}
    /\ next = 0 /\ queue = <<>> /\ hand = None /\ pending = 0
    /\ producerDone = FALSE /\ cancel = FALSE /\ workerFailed = FALSE
    /\ sectionResult = "Success" /\ shaFailed = {}

ProducerStep ==
    \/ Fetch \/ Read \/ FetchFails \/ Enqueue \/ Woken \/ NotifyOne \/ Finish \/ FinishNotify
    \/ Join \/ Cancel \/ CancelNotify \/ CancelJoin

WorkerStep == Take \/ Distributed \/ DistributeThrows \/ WorkerNotify

Ended == producer \in {"returned", "threw"} /\ worker = "ended"

Over == Ended /\ UNCHANGED vars

Next == ProducerStep \/ WorkerStep \/ ReceiverStartsOver \/ Spurious \/ Over

\* The steps of a thread that wait for nobody but the other thread.  A read of
\* the central connection (sender.cpp:2231) and a read of a receiver inside
\* distribute_section (sender.cpp:978) have no limit: nothing says they end.
ProducerRuns == producer # "reading" /\ ProducerStep
WorkerRuns == Take \/ WorkerNotify

\* Both threads are scheduled.
Fairness == WF_vars(ProducerRuns) /\ WF_vars(WorkerRuns)

Spec == Init /\ [][Next]_vars /\ Fairness

------------------------------------------------------------------------------
(* Properties *)

\* The shape of every variable.
TypeOK ==
    /\ producer \in {"fetch", "reading", "enqueue", "blocked", "notify", "finish",
                     "finish_notify", "join", "returned", "cancel", "cancel_notify", "cancel_join", "threw"}
    /\ worker \in {"idle", "busy", "notify", "ended"}
    /\ asleep \subseteq Threads
    /\ next \in 0 .. SectionCount
    /\ queue \in Seq(Sections)
    /\ hand \in Sections \cup {None}
    /\ pending \in Nat
    /\ producerDone \in BOOLEAN /\ cancel \in BOOLEAN /\ workerFailed \in BOOLEAN
    /\ sectionResult \in {"Success", "Sha256Mismatch", "Failed"}
    /\ shaFailed \subseteq Receivers

\* Sections handed over so far: the one being announced was pushed already.
Pushed == IF producer = "notify" THEN next + 1 ELSE next

\* Sections the worker has taken so far.
Taken == Pushed - Len(queue)

\* The bytes of the first k sections.
BytesBefore(k) == IF k = SectionCount THEN (k - 1) * FullBytes + LastBytes ELSE k * FullBytes

\* The queue holds the sections handed over and not yet taken, in order, and
\* the worker works on the last one it took: each section of the file is
\* distributed once, and none overtakes another.
InOrderOnce ==
    /\ Taken >= 0
    /\ queue = [i \in 1 .. Len(queue) |-> Taken + i - 1]
    /\ hand # None => hand = Taken - 1

\* pending_bytes is exactly what is queued or being distributed: the counter
\* the watermarks are compared with never drifts, on no error path either.
PendingIsExact ==
    pending = BytesBefore(Pushed) - BytesBefore(IF hand = None THEN Taken ELSE Taken - 1)

\* The backlog of the cache never exceeds four sections.
BacklogIsBounded == pending <= HighWatermark

\* The function is left, by return or by exception, only after the worker
\* ended: no thread is left behind on the locals and the descriptor it uses.
WorkerIsJoined == producer \in {"returned", "threw"} => worker = "ended"

\* It returns normally only after every section went through
\* distribute_section and none failed: what is renamed into the cache next was
\* offered to every receiver.
ReturnedMeansDistributed ==
    producer = "returned" => /\ Taken = SectionCount /\ queue = <<>> /\ hand = None
                             /\ ~workerFailed

\* When it returns normally and some receiver still holds a file with a wrong
\* digest, the decision to send the file again under a new transfer id knows it:
\* section_result is overwritten section by section, and what saves the decision
\* is that a section such a receiver does not answer cannot be a success.
MismatchIsRemembered ==
    producer = "returned" /\ shaFailed # {} => sectionResult = "Sha256Mismatch"

\* No lost wake-up and no deadlock between the two threads: the producer leaves,
\* whatever fails and in whatever order, unless a distribution or a read of the
\* central connection never ends.
PipelineEnds == \/ <>Ended
                \/ <>[](worker = "busy")
                \/ <>[](producer = "reading")
==============================================================================
