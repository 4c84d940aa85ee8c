------------------------ MODULE DispatchPipeline_proof ------------------------
(***************************************************************************)
(* Proofs about DispatchPipeline, for every number of sections, every      *)
(* resume point and every size of a section.                               *)
(***************************************************************************)
EXTENDS DispatchPipeline, SequenceTheorems, TLAPS

USE DEF Sections, None

------------------------------------------------------------------------------
(* The byte counts. *)

\* The bytes before a section and its own are the bytes before the next one.
LEMMA BytesAdd ==
  ASSUME NEW k \in Sections
  PROVE  /\ BytesBefore(k + 1) = BytesBefore(k) + Bytes(k)
         /\ Bytes(k) \in Nat \ {0}
         /\ Bytes(k) <= MaximumBytes
<1>1. CASE k + 1 = SectionCount
  BY <1>1, PipelineAssumption DEF BytesBefore, Bytes, MaximumBytes
<1>2. CASE k + 1 # SectionCount
  <2>1. (k + 1) * FullBytes = k * FullBytes + FullBytes
    BY PipelineAssumption
  <2> QED
    BY <1>2, <2>1, PipelineAssumption DEF BytesBefore, Bytes, MaximumBytes
<1> QED
  BY <1>1, <1>2

\* The bytes before a section are a number.
LEMMA BytesBeforeType == ASSUME NEW k \in 0 .. SectionCount PROVE BytesBefore(k) \in Nat
  BY PipelineAssumption DEF BytesBefore

------------------------------------------------------------------------------
(* The threads: who is where, and which flags it set. *)

Flags ==
    /\ producerDone \in BOOLEAN /\ cancel \in BOOLEAN /\ workerFailed \in BOOLEAN

Feeding == {"fetch", "reading", "enqueue", "blocked", "notify"}
Ending == {"finish", "finish_notify", "join", "returned"}
Cancelling == {"cancel", "cancel_notify", "cancel_join", "threw"}

\* A worker that failed works no more; a cancelled one was told so by itself or
\* by an exception of the producer; one that ended any other way saw an empty
\* queue after the last section.  While a receiver holds a bad file, no section
\* is a success.
Threads_OK ==
    /\ producer \in Feeding \cup Ending \cup Cancelling
    /\ worker \in {"idle", "busy", "notify", "ended"}
    /\ workerFailed => worker \in {"notify", "ended"}
    /\ cancel => workerFailed \/ producer \in Cancelling
    /\ producerDone => producer \in Ending \cup Cancelling
    /\ worker = "ended" => workerFailed \/ cancel \/ (producerDone /\ queue = <<>>)
    /\ producer \in {"returned", "threw"} => worker = "ended"
    /\ producer = "returned" => ~workerFailed
    /\ shaFailed # {} => workerFailed \/ sectionResult = "Sha256Mismatch"

\* The threads begin with all flags down.
LEMMA ThreadsInit == Init => Flags /\ Threads_OK
<1> SUFFICES ASSUME Init PROVE Flags /\ Threads_OK
  OBVIOUS
<1>1. Flags
  BY Zenon DEF Init, Flags
<1>2. Threads_OK
  BY DEF Init, Threads_OK, Feeding
<1> QED
  BY <1>1, <1>2

\* No step gives a flag another value.
LEMMA FlagsStep == Flags /\ [Next]_vars => Flags'
<1> SUFFICES ASSUME Flags, [Next]_vars PROVE Flags'
  OBVIOUS
<1> USE DEF Flags
<1>1. CASE ProducerStep
  BY Zenon, <1>1 DEF ProducerStep, Fetch, Read, FetchFails, Enqueue, Woken, NotifyOne, Finish,
     FinishNotify, Join, Cancel, CancelNotify, CancelJoin, workerVars
<1>2. CASE Take \/ DistributeThrows \/ WorkerNotify
  BY Zenon, <1>2 DEF Take, DistributeThrows, WorkerNotify, producerVars
<1>3. CASE Distributed
  BY Zenon, <1>3 DEF Distributed, producerVars
<1>4. CASE Spurious \/ ReceiverStartsOver
  BY Zenon, <1>4 DEF Spurious, ReceiverStartsOver, producerVars, workerVars
<1>5. CASE UNCHANGED vars
  BY Zenon, <1>5 DEF vars
<1> QED
  BY <1>1, <1>2, <1>3, <1>4, <1>5 DEF Next, WorkerStep, Over

\* Each step keeps who is where: the producer leaves by return only after a
\* worker that did not fail, and neither flag is raised by anybody else.
LEMMA ThreadsStep == Flags /\ Threads_OK /\ [Next]_vars => Threads_OK'
<1> SUFFICES ASSUME Flags, Threads_OK, [Next]_vars PROVE Threads_OK'
  OBVIOUS
<1> USE DEF Flags, Threads_OK, Feeding, Ending, Cancelling
<1>1. CASE Fetch \/ Read
  BY <1>1 DEF Fetch, Read, Throw, workerVars
<1>2. CASE FetchFails
  BY <1>2 DEF FetchFails, Throw, workerVars
<1>3. CASE Enqueue
  BY <1>3 DEF Enqueue, Push, Throw, workerVars
<1>4. CASE Woken
  BY <1>4 DEF Woken, Push, Throw, workerVars
<1>5. CASE NotifyOne
  BY <1>5 DEF NotifyOne, workerVars
<1>6. CASE Finish \/ FinishNotify
  BY <1>6 DEF Finish, FinishNotify, workerVars
<1>7. CASE Join
  BY <1>7 DEF Join, Throw, workerVars
<1>8. CASE Cancel \/ CancelNotify \/ CancelJoin
  BY <1>8 DEF Cancel, CancelNotify, CancelJoin, workerVars
<1>9. CASE Take
  BY <1>9 DEF Take, HasNews, Stops, producerVars
<1>10. CASE Distributed
  <2>1. PICK answers \in Answers :
          /\ sectionResult' = Outcome(answers)
          /\ shaFailed' = shaFailed \cup {r \in DOMAIN answers : answers[r] = "wrong"}
    BY <1>10 DEF Distributed
  <2>2. shaFailed' # {} => sectionResult' \in {"Sha256Mismatch", "Failed"}
    BY <2>1, Zenon DEF Outcome
  <2>3. shaFailed' # {} => workerFailed' \/ sectionResult' = "Sha256Mismatch"
    BY <1>10, <2>2, Zenon DEF Distributed
  <2>4. /\ worker = "busy" /\ worker' = "notify" /\ UNCHANGED <<producer, producerDone>>
        /\ cancel' = (cancel \/ sectionResult' = "Failed")
        /\ workerFailed' = (sectionResult' = "Failed")
    BY <1>10 DEF Distributed, producerVars
  <2> QED
    BY <2>3, <2>4
<1>11. CASE DistributeThrows
  BY <1>11 DEF DistributeThrows, producerVars
<1>12. CASE WorkerNotify
  BY <1>12 DEF WorkerNotify, producerVars
<1>13. CASE Spurious \/ ReceiverStartsOver
  BY <1>13 DEF Spurious, ReceiverStartsOver, producerVars, workerVars
<1>14. CASE UNCHANGED vars
  BY <1>14 DEF vars
<1> QED
  BY <1>1, <1>2, <1>3, <1>4, <1>5, <1>6, <1>7, <1>8, <1>9, <1>10, <1>11, <1>12, <1>13,
     <1>14 DEF Next, ProducerStep, WorkerStep, Over

\* The flags and the threads agree in every reachable state.
LEMMA ThreadsHold == Spec => [](Flags /\ Threads_OK)
  BY ThreadsInit, FlagsStep, ThreadsStep, PTL DEF Spec

\* The function is left only after the worker ended, whatever throws and
\* whenever: no thread is left behind on the locals it uses.
THEOREM NobodyLeftBehind == Spec => []WorkerIsJoined
<1>1. Threads_OK => WorkerIsJoined
  BY DEF Threads_OK, WorkerIsJoined
<1> QED
  BY <1>1, ThreadsHold, PTL

\* While a receiver holds a file with a wrong digest the function does not return
\* a success: whatever the other receivers answer, section by section.
THEOREM MismatchIsKnown == Spec => []MismatchIsRemembered
<1>1. Threads_OK => MismatchIsRemembered
  BY DEF Threads_OK, MismatchIsRemembered
<1> QED
  BY <1>1, ThreadsHold, PTL

------------------------------------------------------------------------------
(* The order of the sections. *)

\* The producer has a section to hand over until it ends, the queue holds the
\* sections pushed and not taken, and a busy worker works on the last it took.
Order ==
    /\ next \in 0 .. SectionCount
    /\ producer \in Feeding => next < SectionCount
    /\ producer \in Ending => next = SectionCount
    /\ queue \in Seq(Sections)
    /\ Taken >= 0
    /\ \A i \in 1 .. Len(queue) : queue[i] = Taken + i - 1
    /\ hand = None \/ (hand \in Sections /\ hand = Taken - 1)
    /\ hand # None <=> worker = "busy"

\* Nothing is pushed or taken at first.
LEMMA OrderInit == Init => Order
  BY PipelineAssumption DEF Init, Order, Feeding, Ending, Taken, Pushed

\* Pushing the next section leaves the count of the sections taken.
LEMMA PushKeepsTaken ==
  ASSUME Threads_OK, Order, producer \in {"enqueue", "blocked"}, Push,
         UNCHANGED <<next, worker, hand>>
  PROVE  Order' /\ Taken' = Taken
<1> USE DEF Order, Taken, Pushed, Feeding, Ending
<1>1. CASE workerFailed \/ cancel
  BY <1>1 DEF Push, Throw
<1>2. CASE ~(workerFailed \/ cancel)
  <2>1. /\ producer' = "notify" /\ queue' = Append(queue, next)
        /\ next < SectionCount /\ Taken = next - Len(queue)
    BY <1>2 DEF Push
  <2>2. /\ queue' \in Seq(Sections) /\ Len(queue') = Len(queue) + 1
        /\ \A i \in 1 .. Len(queue) : queue'[i] = queue[i]
        /\ queue'[Len(queue) + 1] = next
    BY <2>1, PipelineAssumption
  <2>3. Taken' = Taken
    BY <2>1, <2>2, PipelineAssumption
  <2>4. ASSUME NEW i \in 1 .. Len(queue') PROVE queue'[i] = Taken + i - 1
    <3>1. /\ next \in Nat /\ Len(queue) \in Nat
          /\ \A k \in 1 .. Len(queue) : queue[k] = Taken + k - 1
      BY PipelineAssumption
    <3> HIDE DEF Order, Taken, Pushed, Feeding, Ending
    <3>2. CASE i = Len(queue) + 1
      BY <2>1, <2>2, <3>1, <3>2
    <3>3. CASE i # Len(queue) + 1
      <4>1. i \in 1 .. Len(queue)
        BY <2>2, <3>1, <3>3
      <4> QED
        BY <2>2, <3>1, <4>1
    <3> QED
      BY <3>2, <3>3
  <2> HIDE DEF Taken, Pushed
  <2> QED
    BY <2>1, <2>2, <2>3, <2>4, PipelineAssumption
<1> QED
  BY <1>1, <1>2

\* The oldest of the queued sections, and what is left without it.
LEMMA OldestFirst ==
  ASSUME NEW q \in Seq(Sections), q # <<>>
  PROVE  /\ Len(q) \in Nat \ {0}
         /\ Head(q) = q[1] /\ Head(q) \in Sections
         /\ Tail(q) \in Seq(Sections) /\ Len(Tail(q)) = Len(q) - 1
         /\ \A i \in 1 .. Len(Tail(q)) : Tail(q)[i] = q[i + 1]
<1>1. Len(q) \in Nat \ {0}
  BY EmptySeq
<1>2. Head(q) = q[1]
  OBVIOUS
<1> HIDE DEF Sections
<1> QED
  BY <1>1, <1>2, HeadTailProperties

\* Taking the oldest section of a queue in order leaves it in order.
LEMMA TakeKeepsOrder ==
  ASSUME Order, Take
  PROVE  Order'
<1> USE DEF Order, Taken, Pushed, Feeding, Ending
<1>1. CASE worker' # "busy"
  BY <1>1 DEF Take, producerVars
<1>2. CASE worker' = "busy"
  <2>1. /\ queue # <<>> /\ hand' = Head(queue) /\ queue' = Tail(queue)
        /\ UNCHANGED <<producer, next>>
    BY <1>2 DEF Take, Stops, OldestTask, producerVars
  <2>2. /\ queue' \in Seq(Sections) /\ Len(queue') = Len(queue) - 1
        /\ \A i \in 1 .. Len(queue') : queue'[i] = queue[i + 1]
        /\ hand' = queue[1] /\ hand' \in Sections /\ Len(queue) \in Nat \ {0}
    BY <2>1, OldestFirst DEF Order
  <2>3. Taken \in Int /\ Taken' = Taken + 1 /\ hand' = Taken
    BY <2>1, <2>2, PipelineAssumption
  <2>4. \A i \in 1 .. Len(queue') : queue'[i] = Taken' + i - 1
    <3>1. \A k \in 1 .. Len(queue) : queue[k] = Taken + k - 1
      OBVIOUS
    <3> HIDE DEF Order, Taken, Pushed, Feeding, Ending
    <3> QED
      BY <2>2, <2>3, <3>1
  <2> HIDE DEF Taken, Pushed
  <2> QED
    BY <1>2, <2>1, <2>2, <2>3, <2>4, PipelineAssumption
<1> QED
  BY <1>1, <1>2

\* Every step keeps the order.
LEMMA OrderStep == Threads_OK /\ Order /\ [Next]_vars => Order'
<1> SUFFICES ASSUME Threads_OK, Order, [Next]_vars PROVE Order'
  OBVIOUS
<1>1. CASE Enqueue
  <2>1. CASE OverHigh /\ ~MayProceed
    BY <1>1, <2>1 DEF Enqueue, workerVars, Order, Taken, Pushed, Feeding, Ending
  <2>2. CASE ~(OverHigh /\ ~MayProceed)
    BY <1>1, <2>2, PushKeepsTaken DEF Enqueue, workerVars
  <2> QED
    BY <2>1, <2>2
<1>2. CASE Woken
  <2>1. CASE ~MayProceed
    BY <1>2, <2>1 DEF Woken, workerVars, Order, Taken, Pushed, Feeding, Ending
  <2>2. CASE MayProceed
    BY <1>2, <2>2, PushKeepsTaken DEF Woken, workerVars
  <2> QED
    BY <2>1, <2>2
<1>3. CASE Take
  BY <1>3, TakeKeepsOrder
<1> USE DEF Order, Taken, Pushed, Feeding, Ending
<1>4. CASE Fetch \/ Read \/ FetchFails
  BY <1>4 DEF Fetch, Read, FetchFails, Throw, workerVars
<1>5. CASE NotifyOne
  BY <1>5, PipelineAssumption DEF NotifyOne, workerVars
<1>6. CASE Finish \/ FinishNotify \/ Join
  BY <1>6 DEF Finish, FinishNotify, Join, Throw, workerVars
<1>7. CASE Cancel \/ CancelNotify \/ CancelJoin
  BY <1>7 DEF Cancel, CancelNotify, CancelJoin, workerVars
<1>8. CASE Distributed \/ DistributeThrows
  BY <1>8 DEF Distributed, DistributeThrows, producerVars
<1>9. CASE WorkerNotify
  BY <1>9 DEF WorkerNotify, producerVars
<1>10. CASE Spurious \/ ReceiverStartsOver
  BY <1>10 DEF Spurious, ReceiverStartsOver, producerVars, workerVars
<1>11. CASE UNCHANGED vars
  BY <1>11 DEF vars
<1> QED
  BY <1>1, <1>2, <1>3, <1>4, <1>5, <1>6, <1>7, <1>8, <1>9, <1>10, <1>11
     DEF Next, ProducerStep, WorkerStep, Over

\* The order holds in every reachable state.
LEMMA OrderHolds == Spec => []Order
  BY OrderInit, ThreadsHold, OrderStep, PTL DEF Spec

\* Each section of a file is distributed once, and none overtakes another.
THEOREM SectionsInOrder == Spec => []InOrderOnce
<1>1. Order => InOrderOnce
  <2> SUFFICES ASSUME Order PROVE InOrderOnce
    OBVIOUS
  <2>1. queue = [i \in 1 .. Len(queue) |-> Taken + i - 1]
    BY DEF Order
  <2> QED
    BY <2>1 DEF Order, InOrderOnce
<1> QED
  BY <1>1, OrderHolds, PTL

\* A normal return means that every section was distributed and none failed.
THEOREM AllDistributed == Spec => []ReturnedMeansDistributed
<1>1. Threads_OK /\ Order => ReturnedMeansDistributed
  BY PipelineAssumption
     DEF Threads_OK, Order, ReturnedMeansDistributed, Taken, Pushed, Ending, Cancelling
<1> QED
  BY <1>1, ThreadsHold, OrderHolds, PTL

------------------------------------------------------------------------------
(* The backlog. *)

\* Sections distributed so far.
Done == IF hand = None THEN Taken ELSE Taken - 1

\* The counter is exact, and below the high watermark.
Backlog ==
    /\ pending = BytesBefore(Pushed) - BytesBefore(Done)
    /\ BacklogIsBounded

\* What was handed over, taken and distributed, as numbers of sections.
LEMMA Counts ==
  ASSUME Order
  PROVE  /\ Pushed \in 0 .. SectionCount /\ Taken \in 0 .. Pushed
         /\ Done \in 0 .. Taken
         /\ hand # None => hand \in Sections /\ Done = hand /\ Taken = hand + 1
<1>1. Len(queue) \in Nat
  BY EmptySeq DEF Order
<1> QED
  BY <1>1, PipelineAssumption DEF Order, Done, Taken, Pushed, Feeding

\* Bytes that do not decrease with the number of sections.
LEMMA BytesGrow ==
  ASSUME NEW k \in 0 .. SectionCount, NEW j \in 0 .. k
  PROVE  BytesBefore(j) <= BytesBefore(k)
<1>1. j * FullBytes <= k * FullBytes
  BY PipelineAssumption
<1>2. CASE k # SectionCount \/ j = k
  BY <1>1, <1>2, PipelineAssumption DEF BytesBefore
<1>3. CASE k = SectionCount /\ j # k
  <2>1. j * FullBytes <= (k - 1) * FullBytes
    BY <1>3, PipelineAssumption
  <2> QED
    BY <1>3, <2>1, PipelineAssumption DEF BytesBefore
<1> QED
  BY <1>2, <1>3

\* The watermarks, in bytes.
LEMMA Watermarks ==
  /\ MaximumBytes \in Nat \ {0}
  /\ HighWatermark \in Nat /\ LowWatermark \in Nat
  /\ HighWatermark = LowWatermark + 2 * MaximumBytes
  BY PipelineAssumption DEF MaximumBytes, HighWatermark, LowWatermark

\* An exact counter is a number of bytes.
LEMMA PendingType == ASSUME Order, Backlog PROVE pending \in Nat
<1>1. /\ BytesBefore(Pushed) \in Nat /\ BytesBefore(Done) \in Nat
      /\ BytesBefore(Done) <= BytesBefore(Pushed)
  BY Counts, BytesBeforeType, BytesGrow, PipelineAssumption
<1> QED
  BY <1>1 DEF Backlog

\* Nothing is pending at first.
LEMMA BacklogInit == Init => Backlog
<1> SUFFICES ASSUME Init PROVE Backlog
  OBVIOUS
<1>1. Pushed = 0 /\ Done = 0 /\ pending = 0
  <2>1. Len(queue) = 0
    BY DEF Init
  <2>2. Pushed = 0 /\ hand = None /\ pending = 0
    BY DEF Init, Pushed
  <2>3. Done = 0
    BY <2>1, <2>2 DEF Done, Taken
  <2> QED
    BY <2>2, <2>3
<1>2. BytesBefore(0) \in Nat
  BY BytesBeforeType, PipelineAssumption
<1> QED
  BY <1>1, <1>2, Watermarks DEF Backlog, BacklogIsBounded

\* A section is pushed below the high watermark, or from a backlog that went
\* down to the low one.
LEMMA PushKeepsBacklog ==
  ASSUME Threads_OK, Order, Backlog, producer \in {"enqueue", "blocked"}, Push,
         ~OverHigh \/ MayProceed, UNCHANGED <<next, worker, hand>>
  PROVE  Backlog'
<1>1. Taken' = Taken /\ Done' = Done
  BY PushKeepsTaken DEF Done
<1>2. pending \in Nat /\ Pushed = next /\ next \in Sections
  BY PendingType, PipelineAssumption DEF Order, Pushed, Feeding
<1>3. CASE workerFailed \/ cancel
  <2>1. Pushed' = Pushed /\ pending' = pending
    BY <1>3 DEF Push, Throw, Pushed
  <2> QED
    BY <1>1, <2>1 DEF Backlog, BacklogIsBounded, HighWatermark, MaximumBytes
<1>4. CASE ~(workerFailed \/ cancel)
  <2>1. Pushed' = next + 1 /\ pending' = pending + Bytes(next)
    BY <1>4 DEF Push, Pushed
  <2>2. pending' <= HighWatermark
    BY <1>2, <1>4, <2>1, BytesAdd, Watermarks DEF OverHigh, MayProceed
  <2>3. BytesBefore(next) \in Nat /\ BytesBefore(Done) \in Nat
    BY <1>2, Counts, BytesBeforeType, PipelineAssumption
  <2>4. pending' = BytesBefore(next + 1) - BytesBefore(Done)
    BY <1>2, <2>1, <2>3, BytesAdd DEF Backlog
  <2> QED
    BY <1>1, <2>1, <2>2, <2>4 DEF Backlog, BacklogIsBounded, HighWatermark, MaximumBytes
<1> QED
  BY <1>3, <1>4

\* A section distributed, whatever became of it, is taken off the counter once.
LEMMA AccountKeepsBacklog ==
  ASSUME Order, Backlog, worker = "busy", pending' = Account, hand' = None,
         UNCHANGED <<producer, next, queue>>
  PROVE  Backlog'
<1>1. hand \in Sections /\ Done = hand /\ Taken = hand + 1
  BY Counts DEF Order
<1>2. Pushed' = Pushed /\ Done' = Done + 1
  BY <1>1 DEF Pushed, Taken, Done
<1>3. /\ BytesBefore(Pushed) \in Nat /\ BytesBefore(hand) \in Nat
      /\ BytesBefore(hand + 1) = BytesBefore(hand) + Bytes(hand)
      /\ Bytes(hand) \in Nat /\ pending \in Nat
  BY <1>1, Counts, BytesBeforeType, BytesAdd, PendingType, PipelineAssumption
<1>4. pending' = BytesBefore(Pushed) - BytesBefore(hand + 1)
  BY <1>1, <1>3 DEF Account, Backlog
<1>5. pending' <= HighWatermark
  BY <1>3, Watermarks DEF Account, Backlog, BacklogIsBounded
<1> QED
  BY <1>1, <1>2, <1>4, <1>5 DEF Backlog, BacklogIsBounded, HighWatermark, MaximumBytes

\* The counter is untouched where nothing is pushed, taken or distributed.
LEMMA OthersKeepBacklog ==
  ASSUME Backlog, UNCHANGED pending, Pushed' = Pushed, Done' = Done
  PROVE  Backlog'
  BY DEF Backlog, BacklogIsBounded, HighWatermark, MaximumBytes

\* Every step keeps the counter exact and bounded.
LEMMA BacklogStep == Threads_OK /\ Order /\ Backlog /\ [Next]_vars => Backlog'
<1> SUFFICES ASSUME Threads_OK, Order, Backlog, [Next]_vars PROVE Backlog'
  OBVIOUS
<1>1. CASE Enqueue
  <2>1. CASE OverHigh /\ ~MayProceed
    <3>1. UNCHANGED pending /\ Pushed' = Pushed /\ Done' = Done
      BY <1>1, <2>1 DEF Enqueue, workerVars, Pushed, Taken, Done
    <3> QED
      BY <3>1, OthersKeepBacklog
  <2>2. CASE ~(OverHigh /\ ~MayProceed)
    BY <1>1, <2>2, PushKeepsBacklog DEF Enqueue, workerVars
  <2> QED
    BY <2>1, <2>2
<1>2. CASE Woken
  <2>1. CASE ~MayProceed
    <3>1. UNCHANGED pending /\ Pushed' = Pushed /\ Done' = Done
      BY <1>2, <2>1 DEF Woken, workerVars, Pushed, Taken, Done
    <3> QED
      BY <3>1, OthersKeepBacklog
  <2>2. CASE MayProceed
    BY <1>2, <2>2, PushKeepsBacklog DEF Woken, workerVars
  <2> QED
    BY <2>1, <2>2
<1>3. CASE Take
  <2>1. UNCHANGED pending /\ Pushed' = Pushed
    BY <1>3 DEF Take, producerVars, Pushed
  <2>2. Done' = Done
    <3>1. CASE UNCHANGED <<hand, queue>>
      BY <2>1, <3>1 DEF Done, Taken
    <3>2. CASE ~UNCHANGED <<hand, queue>>
      <4>1. /\ worker = "idle" /\ queue # <<>>
            /\ hand' = Head(queue) /\ queue' = Tail(queue)
        BY <1>3, <3>2 DEF Take, Stops, OldestTask
      <4>2. Len(queue') = Len(queue) - 1 /\ hand' \in Sections /\ Len(queue) \in Nat
        BY <4>1, OldestFirst DEF Order
      <4>3. Pushed \in Int /\ hand = None
        BY <4>1, Counts DEF Order
      <4> QED
        BY <2>1, <4>2, <4>3, PipelineAssumption DEF Done, Taken
    <3> QED
      BY <3>1, <3>2
  <2> QED
    BY <2>1, <2>2, OthersKeepBacklog
<1>4. CASE Distributed \/ DistributeThrows
  BY <1>4, AccountKeepsBacklog DEF Distributed, DistributeThrows, producerVars
<1>5. CASE NotifyOne
  <2>1. UNCHANGED pending /\ Pushed' = Pushed /\ Done' = Done
    BY <1>5, PipelineAssumption DEF NotifyOne, workerVars, Order, Pushed, Taken, Done
  <2> QED
    BY <2>1, OthersKeepBacklog
<1>6. CASE \/ Fetch \/ Read \/ FetchFails \/ Finish \/ FinishNotify \/ Join
           \/ Cancel \/ CancelNotify \/ CancelJoin
  <2>1. /\ UNCHANGED <<pending, next, queue, hand>>
        /\ producer # "notify" /\ producer' # "notify"
    BY <1>6 DEF Fetch, Read, FetchFails, Throw, Finish, FinishNotify, Join, Cancel, CancelNotify,
       CancelJoin, workerVars
  <2> QED
    BY <2>1, OthersKeepBacklog DEF Pushed, Taken, Done
<1>7. CASE WorkerNotify \/ Spurious \/ ReceiverStartsOver \/ UNCHANGED vars
  <2>1. UNCHANGED <<pending, next, queue, hand, producer>>
    BY <1>7 DEF WorkerNotify, Spurious, ReceiverStartsOver, producerVars, workerVars, vars
  <2> QED
    BY <2>1, OthersKeepBacklog DEF Pushed, Taken, Done
<1> QED
  BY <1>1, <1>2, <1>3, <1>4, <1>5, <1>6, <1>7 DEF Next, ProducerStep, WorkerStep, Over

\* The counter is exact in every reachable state.
LEMMA BacklogHolds == Spec => []Backlog
  BY BacklogInit, ThreadsHold, OrderHolds, BacklogStep, PTL DEF Spec

\* pending_bytes never drifts, on no error path either.
THEOREM CounterIsExact == Spec => []PendingIsExact
<1>1. Backlog => PendingIsExact
  <2> SUFFICES ASSUME Backlog PROVE PendingIsExact
    OBVIOUS
  <2>1. Done = IF hand = None THEN Taken ELSE Taken - 1
    BY DEF Done
  <2> QED
    BY <2>1 DEF Backlog, PendingIsExact
<1> QED
  BY <1>1, BacklogHolds, PTL

\* The cache is never more than four sections ahead of the receivers.
THEOREM FourSectionsAhead == Spec => []BacklogIsBounded
<1>1. Backlog => BacklogIsBounded
  BY DEF Backlog
<1> QED
  BY <1>1, BacklogHolds, PTL

------------------------------------------------------------------------------
(* The types, which need the counter to be exact. *)

\* The variables no invariant above speaks of.
Rest ==
    /\ asleep \subseteq Threads
    /\ sectionResult \in {"Success", "Sha256Mismatch", "Failed"}
    /\ shaFailed \subseteq Receivers

\* They start well.
LEMMA RestInit == Init => Rest
  BY DEF Init, Rest

\* They keep their types.
LEMMA RestStep == Rest /\ [Next]_vars => Rest'
<1> SUFFICES ASSUME Rest, [Next]_vars PROVE Rest'
  OBVIOUS
<1> USE DEF Rest, Threads
<1>1. CASE ProducerStep
  BY <1>1 DEF ProducerStep, Fetch, Read, FetchFails, Enqueue, Woken, NotifyOne, Finish,
     FinishNotify, Join, Cancel, CancelNotify, CancelJoin, workerVars
<1>2. CASE Take \/ DistributeThrows \/ WorkerNotify
  BY <1>2 DEF Take, DistributeThrows, WorkerNotify
<1>3. CASE Distributed
  <2>1. PICK answers \in Answers :
          /\ sectionResult' = Outcome(answers)
          /\ shaFailed' = shaFailed \cup {r \in DOMAIN answers : answers[r] = "wrong"}
    BY <1>3 DEF Distributed
  <2>2. sectionResult' \in {"Success", "Sha256Mismatch", "Failed"}
    BY <2>1, Zenon DEF Outcome
  <2>3. DOMAIN answers \subseteq Receivers
    BY DEF Answers
  <2> QED
    BY <1>3, <2>1, <2>2, <2>3 DEF Distributed
<1>4. CASE Spurious \/ ReceiverStartsOver
  BY <1>4 DEF Spurious, ReceiverStartsOver, workerVars
<1>5. CASE UNCHANGED vars
  BY <1>5 DEF vars
<1> QED
  BY <1>1, <1>2, <1>3, <1>4, <1>5 DEF Next, WorkerStep, Over

\* Every variable keeps its type; pending_bytes never wraps below zero.
THEOREM TypesHold == Spec => []TypeOK
<1>1. Flags /\ Threads_OK /\ Order /\ Backlog /\ Rest => TypeOK
  <2> SUFFICES ASSUME Flags, Threads_OK, Order, Backlog, Rest PROVE TypeOK
    OBVIOUS
  <2>1. pending \in Nat
    BY PendingType
  <2>2. producerDone \in BOOLEAN /\ cancel \in BOOLEAN /\ workerFailed \in BOOLEAN
    BY Zenon DEF Flags
  <2> QED
    BY <2>1, <2>2 DEF TypeOK, Threads_OK, Feeding, Ending, Cancelling, Order, Rest
<1>2. Spec => []Rest
  BY RestInit, RestStep, PTL DEF Spec
<1> QED
  BY <1>1, <1>2, ThreadsHold, OrderHolds, BacklogHolds, PTL
------------------------------------------------------------------------------
(* The wake-ups. *)

\* A thread asleep has nothing to do, or somebody is about to notify it.
WakeUps ==
    /\ "producer" \in asleep => producer = "blocked" /\ (~MayProceed \/ worker = "notify")
    /\ "worker" \in asleep =>
          /\ worker = "idle"
          /\ ~HasNews \/ producer \in {"notify", "finish_notify", "cancel_notify"}
    /\ producer \in {"finish_notify", "join", "returned"} => producerDone
    /\ producer \in {"cancel_notify", "cancel_join", "threw"} => cancel

\* The two threads never wait for each other: they are not asleep together, a
\* producer asleep has a worker left to wake it, and a worker that is joined, or
\* whose producer has left, is not asleep.
NobodyWaitsInVain ==
    /\ asleep # Threads
    /\ "producer" \in asleep => worker # "ended"
    /\ "worker" \in asleep => producer \notin {"join", "cancel_join", "returned", "threw"}

\* Nobody sleeps at first.
LEMMA WakeUpsInit == Init => WakeUps
  BY DEF Init, WakeUps

\* A step of the producer wakes the worker before it is needed.
LEMMA ProducerKeepsWakeUps ==
  ASSUME Flags, Threads_OK, Rest, WakeUps, ProducerStep
  PROVE  WakeUps'
<1> USE DEF Flags, WakeUps, workerVars
<1>1. CASE Fetch \/ Read
  BY <1>1 DEF Fetch, Read, Throw, MayProceed, HasNews
<1>2. CASE FetchFails
  BY <1>2 DEF FetchFails, Throw, MayProceed, HasNews
<1>3. CASE Enqueue
  <2>1. CASE OverHigh /\ ~MayProceed
    BY <1>3, <2>1 DEF Enqueue, MayProceed, HasNews
  <2>2. CASE ~(OverHigh /\ ~MayProceed)
    BY <1>3, <2>2 DEF Enqueue, Push, Throw, HasNews
  <2> QED
    BY <2>1, <2>2
<1>4. CASE Woken
  <2>1. CASE ~MayProceed
    BY <1>4, <2>1 DEF Woken, MayProceed, HasNews
  <2>2. CASE MayProceed
    BY <1>4, <2>2 DEF Woken, Push, Throw, HasNews
  <2> QED
    BY <2>1, <2>2
<1>5. CASE NotifyOne
  <2>1. asleep \subseteq {"worker"}
    BY <1>5 DEF NotifyOne, Rest, Threads
  <2>2. asleep' = {}
    BY <1>5, <2>1 DEF NotifyOne
  <2> QED
    BY <1>5, <2>2 DEF NotifyOne
<1>6. CASE Finish \/ FinishNotify \/ Join
  BY <1>6 DEF Finish, FinishNotify, Join, Throw, MayProceed, HasNews
<1>7. CASE Cancel \/ CancelNotify \/ CancelJoin
  BY <1>7 DEF Cancel, CancelNotify, CancelJoin, MayProceed, HasNews
<1> QED
  BY <1>1, <1>2, <1>3, <1>4, <1>5, <1>6, <1>7 DEF ProducerStep

\* No wake-up is lost, whoever moves.
LEMMA WakeUpsStep == Flags /\ Threads_OK /\ Rest /\ WakeUps /\ [Next]_vars => WakeUps'
<1> SUFFICES ASSUME Flags, Threads_OK, Rest, WakeUps, [Next]_vars PROVE WakeUps'
  OBVIOUS
<1>1. CASE ProducerStep
  BY <1>1, ProducerKeepsWakeUps
<1> USE DEF Flags, WakeUps, producerVars
<1>2. CASE Take
  <2>1. CASE ~HasNews
    BY <1>2, <2>1 DEF Take, MayProceed, HasNews
  <2>2. CASE HasNews
    <3>1. UNCHANGED MayProceed
      BY <1>2 DEF Take, MayProceed
    <3> QED
      BY <1>2, <2>2, <3>1 DEF Take
  <2> QED
    BY <2>1, <2>2
<1>3. CASE Distributed \/ DistributeThrows
  <2>1. worker = "busy" /\ worker' = "notify" /\ asleep' = asleep
        /\ UNCHANGED <<producer, producerDone>> /\ (cancel => cancel')
    BY <1>3 DEF Distributed, DistributeThrows
  <2> QED
    BY <2>1
<1>4. CASE WorkerNotify
  BY <1>4 DEF WorkerNotify
<1>5. CASE Spurious \/ ReceiverStartsOver \/ UNCHANGED vars
  <2>1. asleep' \subseteq asleep
        /\ UNCHANGED <<producer, worker, producerDone, cancel, workerFailed, pending, queue>>
    BY <1>5 DEF Spurious, ReceiverStartsOver, producerVars, workerVars, vars
  <2> QED
    BY <2>1 DEF MayProceed, HasNews
<1> QED
  BY <1>1, <1>2, <1>3, <1>4, <1>5 DEF Next, WorkerStep, Over

\* When both would sleep the queue is empty, the hand too, and the counter is
\* zero: below the low watermark.
LEMMA OneIsAwake ==
  ASSUME Flags, Threads_OK, Order, Backlog, WakeUps
  PROVE  NobodyWaitsInVain
<1>1. "producer" \in asleep => worker # "ended"
  <2> SUFFICES ASSUME "producer" \in asleep, worker = "ended" PROVE FALSE
    OBVIOUS
  <2>1. producer = "blocked" /\ ~MayProceed
    BY DEF WakeUps
  <2>2. workerFailed \/ cancel \/ producerDone
    BY DEF Threads_OK
  <2>3. ~producerDone
    BY <2>1 DEF Threads_OK, Ending, Cancelling
  <2> QED
    BY <2>1, <2>2, <2>3 DEF MayProceed
<1>2. "worker" \in asleep => producer \notin {"join", "cancel_join", "returned", "threw"}
  BY DEF WakeUps, HasNews
<1>3. ~("producer" \in asleep /\ "worker" \in asleep)
  <2> SUFFICES ASSUME "producer" \in asleep, "worker" \in asleep PROVE FALSE
    OBVIOUS
  <2>1. worker = "idle" /\ producer = "blocked" /\ ~MayProceed /\ ~HasNews
    BY DEF WakeUps
  <2>2. queue = <<>> /\ hand = None
    BY <2>1 DEF HasNews, Order
  <2>3. Len(queue) = 0
    BY <2>2
  <2>4. Pushed \in 0 .. SectionCount /\ Done = Pushed
    BY <2>2, <2>3, Counts DEF Done, Taken
  <2>5. pending = 0
    BY <2>4, BytesBeforeType DEF Backlog
  <2>6. LowWatermark \in Nat
    BY PipelineAssumption DEF LowWatermark, MaximumBytes
  <2> QED
    BY <2>1, <2>5, <2>6 DEF MayProceed
<1> QED
  BY <1>1, <1>2, <1>3 DEF NobodyWaitsInVain, Threads

\* The producer that waits for space and the worker that waits for sections
\* never block each other, and no join waits for a thread that nobody wakes, for
\* every file, resume point and failure, and with notify_one on the hand-over.
THEOREM NoLostWakeUp == Spec => []NobodyWaitsInVain
<1>1. Spec => []Rest
  BY RestInit, RestStep, PTL DEF Spec
<1>2. Spec => []WakeUps
  BY <1>1, ThreadsHold, WakeUpsInit, WakeUpsStep, PTL DEF Spec
<1> QED
  BY <1>2, ThreadsHold, OrderHolds, BacklogHolds, OneIsAwake, PTL
==============================================================================
