--------------------------- MODULE ThreadPool_proof ---------------------------
(***************************************************************************)
(* Proofs about ThreadPool, for every number of threads and of tasks:      *)
(* every task added is queued, running or done, and when the pool is gone  *)
(* all of them have run.                                                   *)
(***************************************************************************)
EXTENDS ThreadPool, SequenceTheorems, FiniteSetTheorems, TLAPS

------------------------------------------------------------------------------
(* The inductive invariant *)

Elements(s) == {s[i] : i \in 1 .. Len(s)}

\* No task is in the queue twice.
NoRepeat(s) == \A i, j \in 1 .. Len(s) : s[i] = s[j] => i = j

\* A worker that runs has a task, and no two have the same one.
HandsDiffer ==
    /\ \A w \in Workers : at[w] = "busy" => hand[w] \in Tasks
    /\ \A v, w \in Workers : at[v] = "busy" /\ at[w] = "busy" /\ hand[v] = hand[w] => v = w

Conserved ==
    /\ Added = Queued \cup Running \cup finished
    /\ Queued \cap (Running \cup finished) = {} /\ Running \cap finished = {}

\* A worker leaves only a pool that is stopped and whose queue is empty; it is
\* stopped after the last task was added.
Leaving ==
    /\ stop <=> owner \in {"notify_all", "join", "gone"}
    /\ (\E w \in Workers : at[w] = "ended") => stop /\ q = <<>>
    /\ owner = "gone" => \A w \in Workers : at[w] = "ended"

Inv == TypeOK /\ NoRepeat(q) /\ HandsDiffer /\ Conserved /\ Leaving

------------------------------------------------------------------------------
(* Lemmas about queues *)

LEMMA AppendElements ==
    ASSUME NEW s \in Seq(Tasks), NEW e \in Tasks, e \notin Elements(s), NoRepeat(s)
    PROVE  /\ NoRepeat(Append(s, e)) /\ Elements(Append(s, e)) = Elements(s) \cup {e}
<1> DEFINE t == Append(s, e)
<1>1. /\ Len(s) \in Nat /\ Len(t) = Len(s) + 1
      /\ \A i \in 1 .. Len(s) : t[i] = s[i]
      /\ t[Len(s) + 1] = e
  BY AppendProperties, LenProperties
<1> HIDE DEF t
<1>2. Elements(t) = Elements(s) \cup {e}
  <2>1. \A i \in 1 .. Len(t) : i \in 1 .. Len(s) \/ i = Len(s) + 1
    BY <1>1
  <2>2. \A i \in 1 .. Len(s) : i \in 1 .. Len(t)
    BY <1>1
  <2>3. Len(s) + 1 \in 1 .. Len(t)
    BY <1>1
  <2> QED
    BY <1>1, <2>1, <2>2, <2>3 DEF Elements
<1>3. ASSUME NEW i \in 1 .. Len(t), NEW j \in 1 .. Len(t), t[i] = t[j] PROVE i = j
  <2>1. (i \in 1 .. Len(s) \/ i = Len(s) + 1) /\ (j \in 1 .. Len(s) \/ j = Len(s) + 1)
    BY <1>1
  <2> QED
    BY <1>1, <1>3, <2>1 DEF NoRepeat, Elements
<1>4. NoRepeat(t)
  BY <1>3 DEF NoRepeat
<1> QED
  BY <1>2, <1>4 DEF t

LEMMA TailElements ==
    ASSUME NEW s \in Seq(Tasks), s # <<>>, NoRepeat(s)
    PROVE  /\ Head(s) \in Tasks /\ Tail(s) \in Seq(Tasks) /\ NoRepeat(Tail(s))
           /\ Head(s) \notin Elements(Tail(s))
           /\ Elements(s) = {Head(s)} \cup Elements(Tail(s))
<1> DEFINE t == Tail(s)
           h == Head(s)
<1>1. /\ h \in Tasks /\ t \in Seq(Tasks) /\ Len(t) = Len(s) - 1 /\ h = s[1]
      /\ \A i \in 1 .. Len(t) : t[i] = s[i + 1]
      /\ Len(s) \in Nat /\ Len(s) # 0
  BY HeadTailProperties, LenProperties, EmptySeq
<1> HIDE DEF t, h
<1>2. 1 \in 1 .. Len(s) /\ \A i \in 1 .. Len(t) : i + 1 \in 1 .. Len(s) /\ i + 1 # 1
  BY <1>1
<1>3. ASSUME NEW i \in 1 .. Len(t), NEW j \in 1 .. Len(t), t[i] = t[j] PROVE i = j
  <2>1. i + 1 = j + 1
    BY <1>1, <1>2, <1>3 DEF NoRepeat
  <2> QED
    BY <2>1
<1>4. h \notin Elements(t)
  BY <1>1, <1>2 DEF NoRepeat, Elements
<1>5. Elements(s) = {h} \cup Elements(t)
  <2>1. ASSUME NEW k \in 1 .. Len(s) PROVE k = 1 \/ (k - 1 \in 1 .. Len(t) /\ s[k] = t[k - 1])
    BY <1>1
  <2>2. ASSUME NEW x \in Elements(s) PROVE x \in {h} \cup Elements(t)
    BY <1>1, <2>1 DEF Elements
  <2>3. ASSUME NEW x \in Elements(t) PROVE x \in Elements(s)
    <3>1. PICK i \in 1 .. Len(t) : x = t[i]
      BY DEF Elements
    <3> QED
      BY <1>1, <1>2, <3>1 DEF Elements
  <2>4. h \in Elements(s)
    BY <1>1, <1>2 DEF Elements
  <2> QED
    BY <2>2, <2>3, <2>4
<1> QED
  BY <1>1, <1>3, <1>4, <1>5 DEF NoRepeat, t, h

LEMMA ElementsCounted ==
    ASSUME NEW s \in Seq(Tasks), NoRepeat(s) PROVE Cardinality(Elements(s)) = Len(s)
<1>1. Len(s) \in Nat /\ s \in [1 .. Len(s) -> Tasks]
  BY LenProperties
<1>2. s \in [1 .. Len(s) -> Elements(s)]
  BY <1>1 DEF Elements
<1>3. s \in Bijection(1 .. Len(s), Elements(s))
  <2>1. s \in Injection(1 .. Len(s), Elements(s))
    BY <1>2 DEF Injection, IsInjective, NoRepeat
  <2>2. s \in Surjection(1 .. Len(s), Elements(s))
    BY <1>2 DEF Surjection, Elements
  <2> QED
    BY <2>1, <2>2 DEF Bijection
<1> QED
  BY <1>1, <1>3, FS_CountingElements DEF ExistsBijection

------------------------------------------------------------------------------
(* The steps *)

\* A step that leaves the tasks and the workers alone.
LEMMA TasksKept ==
    ASSUME Inv, UNCHANGED <<q, at, hand, finished, failed>>, Added' = Added
    PROVE  NoRepeat(q)' /\ HandsDiffer' /\ Conserved'
  BY DEF Inv, NoRepeat, HandsDiffer, Conserved, Queued, Running

LEMMA OwnerInv == ASSUME Inv, OwnerStep PROVE Inv'
<1>1. TypeOK /\ TaskCount \in Nat /\ 1 <= TaskCount
  BY ThreadPoolAssumption DEF Inv
<1>2. CASE Add
  <2>1. /\ owner = "add" /\ q' = Append(q, current) /\ owner' = "notify"
        /\ UNCHANGED <<current, stop, at, hand, finished, failed, asleep>>
    BY <1>2 DEF Add, workerVars
  <2>2. current \in Tasks /\ Tasks = 1 .. TaskCount /\ q \in Seq(Tasks)
    BY <1>1 DEF TypeOK, Tasks
  <2>3. Added = 1 .. current - 1 /\ Added' = 1 .. current
    BY <2>1 DEF Added
  <2>4. current \notin Added /\ Added' = Added \cup {current}
    BY <2>2, <2>3
  <2>5. current \notin Elements(q) /\ Queued = Elements(q) /\ Queued' = Elements(q')
    BY <2>4 DEF Queued, Elements, Inv, Conserved
  <2>6. NoRepeat(q') /\ Queued' = Queued \cup {current} /\ q' \in Seq(Tasks)
    BY <2>1, <2>2, <2>5, AppendElements, AppendProperties DEF Inv
  <2>7. Running' = Running /\ UNCHANGED <<finished, at, hand>>
    BY <2>1 DEF Running
  <2>8. Conserved'
    BY <2>4, <2>6, <2>7 DEF Inv, Conserved
  <2>9. HandsDiffer' /\ Leaving'
    BY <2>1 DEF Inv, HandsDiffer, Leaving
  <2>10. TypeOK'
    BY <1>1, <2>1, <2>6 DEF TypeOK
  <2> QED
    BY <2>6, <2>8, <2>9, <2>10 DEF Inv, NoRepeat
<1>3. CASE AddNotifies
  <2>1. /\ owner = "notify" /\ asleep' \in SUBSET asleep
        /\ \/ current = TaskCount /\ owner' = "get" /\ current' = 1
           \/ current # TaskCount /\ owner' = "add" /\ current' = current + 1
        /\ UNCHANGED <<q, stop, at, hand, finished, failed>>
    BY <1>3 DEF AddNotifies, WakeOne, workerVars
  <2>2. current \in 1 .. TaskCount
    BY <1>1 DEF TypeOK, Tasks
  <2>3. Added = 1 .. current
    BY <2>1 DEF Added
  <2>4. Added' = Added /\ current' \in Tasks
    BY <1>1, <2>1, <2>2, <2>3 DEF Added, Tasks
  <2>5. NoRepeat(q)' /\ HandsDiffer' /\ Conserved'
    BY <2>1, <2>4, TasksKept
  <2>6. Leaving'
    BY <2>1 DEF Inv, Leaving
  <2>7. TypeOK'
    BY <1>1, <2>1, <2>4 DEF TypeOK
  <2> QED
    BY <2>5, <2>6, <2>7 DEF Inv
<1>4. CASE Get
  <2>1. /\ owner = "get"
        /\ \/ owner' = "stop" /\ UNCHANGED current
           \/ current # TaskCount /\ current' = current + 1 /\ UNCHANGED owner
        /\ UNCHANGED <<q, stop, at, hand, finished, failed, asleep>>
    BY <1>4 DEF Get, workerVars
  <2>2. Added' = Added
    BY <2>1 DEF Added
  <2>3. current' \in Tasks
    BY <1>1, <2>1 DEF TypeOK, Tasks
  <2>4. NoRepeat(q)' /\ HandsDiffer' /\ Conserved'
    BY <2>1, <2>2, TasksKept
  <2>5. Leaving'
    BY <2>1 DEF Inv, Leaving
  <2>6. TypeOK'
    BY <1>1, <2>1, <2>3 DEF TypeOK
  <2> QED
    BY <2>4, <2>5, <2>6 DEF Inv
<1>5. CASE Stop \/ StopNotifies \/ Join
  <2>1. /\ asleep' \in {asleep, {}}
        /\ \/ owner = "stop" /\ stop' = TRUE /\ owner' = "notify_all"
           \/ owner = "notify_all" /\ owner' = "join" /\ UNCHANGED stop
           \/ /\ owner = "join" /\ owner' = "gone" /\ UNCHANGED stop
              /\ \A w \in Workers : at[w] = "ended"
        /\ UNCHANGED <<current, q, at, hand, finished, failed>>
    BY <1>5 DEF Stop, StopNotifies, Join, workerVars
  <2>2. Added' = Added
    BY <2>1 DEF Added
  <2>3. NoRepeat(q)' /\ HandsDiffer' /\ Conserved'
    BY <2>1, <2>2, TasksKept
  <2>4. Leaving'
    BY <2>1 DEF Inv, Leaving
  <2>5. TypeOK'
    BY <1>1, <2>1 DEF TypeOK
  <2> QED
    BY <2>3, <2>4, <2>5 DEF Inv
<1> QED
  BY <1>2, <1>3, <1>4, <1>5 DEF OwnerStep

LEMMA TakeInv == ASSUME Inv, NEW w \in Workers, Take(w) PROVE Inv'
<1>1. /\ at[w] = "idle" /\ UNCHANGED <<owner, current, stop, finished, failed>>
      /\ \/ asleep' = asleep \cup {w} /\ UNCHANGED <<at, hand, q>>
         \/ /\ UNCHANGED asleep /\ stop /\ q = <<>>
            /\ at' = [at EXCEPT ![w] = "ended"] /\ UNCHANGED <<hand, q>>
         \/ /\ UNCHANGED asleep /\ q # <<>>
            /\ at' = [at EXCEPT ![w] = "busy"]
            /\ hand' = [hand EXCEPT ![w] = Head(q)] /\ q' = Tail(q)
  BY DEF Take, Leaves, Popped, ownerVars
<1>2. TypeOK /\ Added' = Added
  BY <1>1 DEF Inv, Added
<1>3. CASE asleep' = asleep \cup {w} /\ UNCHANGED <<at, hand, q>>
  <2>1. NoRepeat(q)' /\ HandsDiffer' /\ Conserved'
    BY <1>1, <1>2, <1>3, TasksKept
  <2>2. Leaving' /\ TypeOK'
    BY <1>1, <1>2, <1>3 DEF Inv, Leaving, TypeOK
  <2> QED
    BY <2>1, <2>2 DEF Inv
<1>4. CASE /\ UNCHANGED asleep /\ stop /\ q = <<>>
           /\ at' = [at EXCEPT ![w] = "ended"] /\ UNCHANGED <<hand, q>>
  <2>1. Running' = Running /\ Queued' = Queued
    BY <1>1, <1>2, <1>4 DEF Running, Queued, TypeOK
  <2>2. Conserved' /\ NoRepeat(q)'
    BY <1>1, <1>2, <1>4, <2>1 DEF Inv, Conserved, NoRepeat
  <2>3. HandsDiffer' /\ TypeOK'
    BY <1>1, <1>2, <1>4 DEF Inv, HandsDiffer, TypeOK
  <2>4. Leaving'
    BY <1>1, <1>2, <1>4 DEF Inv, Leaving, TypeOK
  <2> QED
    BY <2>2, <2>3, <2>4 DEF Inv
<1>5. CASE /\ UNCHANGED asleep /\ q # <<>>
           /\ at' = [at EXCEPT ![w] = "busy"]
           /\ hand' = [hand EXCEPT ![w] = Head(q)] /\ q' = Tail(q)
  <2>1. /\ Head(q) \in Tasks /\ q' \in Seq(Tasks) /\ NoRepeat(q')
        /\ Head(q) \notin Elements(q') /\ Elements(q) = {Head(q)} \cup Elements(q')
    BY <1>2, <1>5, TailElements DEF Inv, TypeOK
  <2>2. Queued = Elements(q) /\ Queued' = Elements(q')
    BY DEF Queued, Elements
  <2>3. Running' = Running \cup {Head(q)}
    BY <1>1, <1>2, <1>5 DEF Running, TypeOK
  <2>4. Conserved'
    BY <1>1, <1>2, <2>1, <2>2, <2>3 DEF Inv, Conserved
  <2>5. \A v \in Workers : at[v] = "busy" => hand[v] # Head(q)
    BY <2>1, <2>2 DEF Inv, Conserved, Running
  <2>6. HandsDiffer'
    BY <1>1, <1>2, <1>5, <2>1, <2>5 DEF Inv, HandsDiffer, TypeOK
  <2>7. Leaving'
    BY <1>1, <1>2, <1>5 DEF Inv, Leaving, TypeOK
  <2>8. TypeOK'
    BY <1>1, <1>2, <1>5, <2>1 DEF TypeOK
  <2> QED
    BY <2>1, <2>4, <2>6, <2>7, <2>8 DEF Inv, NoRepeat
<1> QED
  BY <1>1, <1>3, <1>4, <1>5

LEMMA RunInv == ASSUME Inv, NEW w \in Workers, Run(w) PROVE Inv'
<1>1. /\ at[w] = "busy" /\ finished' = finished \cup {hand[w]}
      /\ (UNCHANGED failed \/ failed' = failed \cup {hand[w]})
      /\ at' = [at EXCEPT ![w] = "idle"] /\ hand' = [hand EXCEPT ![w] = None]
      /\ UNCHANGED <<owner, current, q, stop, asleep>>
  BY DEF Run, ownerVars
<1>2. /\ TypeOK /\ Added' = Added /\ Queued' = Queued /\ NoRepeat(q)'
      /\ hand[w] \in Tasks /\ hand[w] \in Running
  BY <1>1 DEF Inv, Added, Queued, NoRepeat, HandsDiffer, Running
<1>3. Running' = Running \ {hand[w]}
  BY <1>1, <1>2 DEF Inv, HandsDiffer, Running, TypeOK
<1>4. Conserved'
  BY <1>1, <1>2, <1>3 DEF Inv, Conserved
<1>5. HandsDiffer'
  BY <1>1, <1>2 DEF Inv, HandsDiffer, TypeOK
<1>6. Leaving'
  BY <1>1, <1>2 DEF Inv, Leaving, TypeOK
<1>7. TypeOK'
  BY <1>1, <1>2 DEF TypeOK
<1> QED
  BY <1>2, <1>4, <1>5, <1>6, <1>7 DEF Inv

LEMMA IdleInv == ASSUME Inv, Spurious \/ UNCHANGED vars PROVE Inv'
<1>1. /\ UNCHANGED <<owner, current, q, stop, at, hand, finished, failed>>
      /\ asleep' \in SUBSET asleep
  BY DEF Spurious, vars, ownerVars, workerVars
<1>2. Added' = Added
  BY <1>1 DEF Added
<1>3. NoRepeat(q)' /\ HandsDiffer' /\ Conserved'
  BY <1>1, <1>2, TasksKept
<1>4. Leaving' /\ TypeOK'
  BY <1>1 DEF Inv, Leaving, TypeOK
<1> QED
  BY <1>3, <1>4 DEF Inv

LEMMA InitInv == Init => Inv
<1> SUFFICES ASSUME Init PROVE Inv
  OBVIOUS
<1>1. q = <<>> /\ q \in Seq(Tasks) /\ Len(q) = 0 /\ finished = {} /\ failed = {}
  BY EmptySeq DEF Init
<1>2. /\ owner = "add" /\ current = 1 /\ stop = FALSE /\ asleep = {}
      /\ at = [w \in Workers |-> "idle"] /\ hand = [w \in Workers |-> None]
  BY DEF Init
<1>3. TypeOK
  <2>1. current \in Tasks
    BY <1>2, ThreadPoolAssumption DEF Tasks
  <2>2. /\ at \in [Workers -> {"idle", "busy", "ended"}]
        /\ hand \in [Workers -> Tasks \cup {None}]
    BY <1>2
  <2> QED
    BY <1>1, <1>2, <2>1, <2>2 DEF TypeOK
<1>4. Queued = {} /\ Running = {} /\ Added = {}
  BY <1>1, <1>2 DEF Queued, Running, Added
<1>5. NoRepeat(q)
  BY <1>1 DEF NoRepeat
<1>6. HandsDiffer /\ Conserved /\ Leaving
  BY <1>1, <1>2, <1>4 DEF HandsDiffer, Conserved, Leaving
<1> QED
  BY <1>3, <1>5, <1>6 DEF Inv

LEMMA NextInv == Inv /\ [Next]_vars => Inv'
<1> SUFFICES ASSUME Inv, [Next]_vars PROVE Inv'
  OBVIOUS
<1>1. CASE OwnerStep
  BY <1>1, OwnerInv
<1>2. ASSUME NEW w \in Workers, WorkerStep(w) PROVE Inv'
  BY <1>2, TakeInv, RunInv DEF WorkerStep
<1>3. CASE Spurious \/ Over \/ UNCHANGED vars
  BY <1>3, IdleInv DEF Over
<1> QED
  BY <1>1, <1>2, <1>3 DEF Next

------------------------------------------------------------------------------
(* The theorems *)

\* Whatever is thrown and whenever, each task added is in exactly one place of the
\* pool (queued, with one worker, done), and a worker leaves only a stopped pool
\* with an empty queue.
THEOREM Invariance == Spec => []Inv
  BY InitInv, NextInv, PTL DEF Spec

\* The shape of the variables of the pool.
THEOREM TypeCorrect == Spec => []TypeOK
<1>1. Inv => TypeOK
  BY DEF Inv
<1> QED
  BY <1>1, Invariance, PTL

\* Every task added is queued, in the hands of exactly one worker, or done.
THEOREM NoTaskLost == Spec => []EachTaskOnce
<1>1. Inv => EachTaskOnce
  <2>1. ASSUME Inv PROVE Cardinality(Queued) = Len(q)
    BY <2>1, ElementsCounted DEF Inv, TypeOK, Queued, Elements
  <2> QED
    BY <2>1 DEF Inv, Conserved, HandsDiffer, EachTaskOnce
<1> QED
  BY <1>1, Invariance, PTL

\* When the pool is gone every task has run, after an exception too, and no
\* worker is left.
THEOREM AllHaveRun == Spec => []GoneMeansDone
<1>1. ASSUME Inv, owner = "gone" PROVE finished = Tasks /\ \A w \in Workers : at[w] = "ended"
  <2>1. (\A w \in Workers : at[w] = "ended") /\ \E w \in Workers : at[w] = "ended"
    BY <1>1, ThreadPoolAssumption DEF Inv, Leaving
  <2>2. q = <<>> /\ Len(q) = 0
    BY <1>1, <2>1, EmptySeq DEF Inv, Leaving
  <2>3. Queued = {} /\ Running = {} /\ Added = Tasks
    BY <1>1, <2>1, <2>2 DEF Queued, Running, Added
  <2> QED
    BY <1>1, <2>1, <2>3 DEF Inv, Conserved
<1>2. Inv => GoneMeansDone
  BY <1>1 DEF GoneMeansDone
<1> QED
  BY <1>2, Invariance, PTL
------------------------------------------------------------------------------
(* The wake-ups *)

\* The workers that will look at the queue again without being notified.
Awake == {w \in Workers : at[w] # "ended" /\ w \notin asleep}

\* Only idle workers sleep; while something is queued one of them is awake, or
\* about to be notified; and nobody sleeps through the end of the pool.
WakeUps ==
    /\ \A w \in asleep : at[w] = "idle"
    /\ q # <<>> => owner = "notify" \/ Awake # {}
    /\ asleep # {} => ~stop \/ owner = "notify_all"

\* The owner waits for a future that is not ready, or for a worker to end.
OwnerWaits ==
    \/ owner = "get" /\ current \notin finished
    \/ owner = "join" /\ \E w \in Workers : at[w] # "ended"

\* What the owner waits for is up to a worker that is awake.
NobodyWaitsInVain == OwnerWaits => Awake # {}

\* Nobody sleeps at first, and nothing is queued.
LEMMA WakeUpsInit == Init => WakeUps
  BY DEF Init, WakeUps

\* Adding a task announces a notification, and that wakes one worker if none
\* was awake; the notify_all of the destructor wakes all.
LEMMA OwnerKeepsWakeUps == ASSUME Inv, WakeUps, OwnerStep PROVE WakeUps'
<1> USE DEF WakeUps, workerVars
<1>1. CASE Add
  BY <1>1 DEF Add, Awake
<1>2. CASE AddNotifies
  <2>1. /\ owner = "notify" /\ asleep' \subseteq asleep /\ asleep \subseteq Workers
        /\ UNCHANGED <<q, stop, at>>
    BY <1>2 DEF AddNotifies, WakeOne, Inv, TypeOK
  <2>2. \A w \in Workers : at[w] # "ended"
    BY <2>1 DEF Inv, Leaving
  <2>3. \E w \in Workers : w \notin asleep'
    <3>1. CASE asleep = {}
      BY <2>1, <3>1, ThreadPoolAssumption
    <3>2. CASE asleep # {}
      BY <1>2, <2>1, <3>2 DEF AddNotifies, WakeOne
    <3> QED
      BY <3>1, <3>2
  <2>4. Awake' # {}
    BY <2>1, <2>2, <2>3 DEF Awake
  <2>5. ~stop
    BY <2>1 DEF Inv, Leaving
  <2> QED
    BY <2>1, <2>4, <2>5
<1>3. CASE Get \/ Join
  BY <1>3 DEF Get, Join, Awake
<1>4. CASE Stop
  BY <1>4 DEF Stop, Awake
<1>5. CASE StopNotifies
  <2>1. asleep' = {} /\ UNCHANGED <<q, stop, at>> /\ Awake \subseteq Awake' /\ owner = "notify_all"
    BY <1>5 DEF StopNotifies, Awake
  <2> QED
    BY <2>1
<1> QED
  BY <1>1, <1>2, <1>3, <1>4, <1>5 DEF OwnerStep

\* A worker falls asleep only on an empty queue that will grow, and stays awake
\* after the task it took.
LEMMA WorkersKeepWakeUps ==
  ASSUME Inv, WakeUps, NEW w \in Workers, WorkerStep(w)
  PROVE  WakeUps'
<1> USE DEF WakeUps, ownerVars
<1>1. at \in [Workers -> {"idle", "busy", "ended"}] /\ asleep \subseteq Workers
  BY DEF Inv, TypeOK
<1>2. CASE Take(w)
  <2>1. CASE ~(stop \/ q # <<>>)
    BY <1>2, <2>1 DEF Take
  <2>2. CASE Leaves
    BY <1>1, <1>2, <2>2 DEF Take, Leaves
  <2>3. CASE q # <<>>
    <3>1. /\ at' = [at EXCEPT ![w] = "busy"] /\ w \notin asleep
          /\ UNCHANGED <<asleep, stop, owner>>
      BY <1>2, <2>3 DEF Take, Leaves
    <3>2. w \in Awake'
      BY <1>1, <3>1 DEF Awake
    <3> QED
      BY <1>1, <3>1, <3>2
  <2> QED
    BY <2>1, <2>2, <2>3 DEF Leaves
<1>3. CASE Run(w)
  <2>1. /\ at[w] = "busy" /\ at' = [at EXCEPT ![w] = "idle"]
        /\ UNCHANGED <<asleep, stop, owner, q>>
    BY <1>3 DEF Run
  <2>2. w \in Awake'
    BY <1>1, <2>1 DEF Awake
  <2> QED
    BY <1>1, <2>1, <2>2
<1> QED
  BY <1>2, <1>3 DEF WorkerStep

\* No wake-up is lost, whoever moves.
LEMMA WakeUpsStep == Inv /\ WakeUps /\ [Next]_vars => WakeUps'
<1> SUFFICES ASSUME Inv, WakeUps, [Next]_vars PROVE WakeUps'
  OBVIOUS
<1>1. CASE OwnerStep
  BY <1>1, OwnerKeepsWakeUps
<1>2. CASE \E w \in Workers : WorkerStep(w)
  BY <1>2, WorkersKeepWakeUps
<1>3. CASE Spurious \/ UNCHANGED vars
  <2>1. asleep' \subseteq asleep /\ UNCHANGED <<owner, q, stop, at>>
    BY <1>3 DEF Spurious, ownerVars, workerVars, vars
  <2> QED
    BY <2>1 DEF WakeUps, Awake
<1> QED
  BY <1>1, <1>2, <1>3 DEF Next, Over

\* The owner never waits for workers that are all asleep or gone: the safety half
\* of PoolEnds, for every number of workers and tasks, although add() wakes one
\* worker only and after the mutex is released.
THEOREM NoLostWakeUp == Spec => []NobodyWaitsInVain
<1>1. ASSUME Inv, WakeUps PROVE NobodyWaitsInVain
  <2>1. ASSUME owner = "get", current \notin finished PROVE Awake # {}
    <3>0. Added = Tasks /\ current \in Tasks
      BY <1>1, <2>1 DEF Inv, TypeOK, Added
    <3>1. current \in Queued \cup Running
      BY <1>1, <2>1, <3>0 DEF Inv, Conserved
    <3>2. CASE current \in Queued
      <4>1. q # <<>>
        BY <3>2, EmptySeq DEF Queued
      <4> QED
        BY <1>1, <2>1, <4>1 DEF WakeUps
    <3>3. CASE current \in Running
      BY <1>1, <3>3 DEF Running, Awake, WakeUps
    <3> QED
      BY <3>1, <3>2, <3>3
  <2>2. ASSUME owner = "join", \E w \in Workers : at[w] # "ended" PROVE Awake # {}
    BY <1>1, <2>2 DEF Inv, Leaving, WakeUps, Awake
  <2> QED
    BY <2>1, <2>2 DEF NobodyWaitsInVain, OwnerWaits
<1>2. Spec => []WakeUps
  BY Invariance, WakeUpsInit, WakeUpsStep, PTL DEF Spec
<1> QED
  BY <1>1, <1>2, Invariance, PTL
==============================================================================
