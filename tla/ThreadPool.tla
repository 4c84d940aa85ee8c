----------------------------- MODULE ThreadPool ------------------------------
(***************************************************************************)
(* The thread pool of src/include/thread_pool.hpp in its one use: the      *)
(* proxy makes a pool for the isolated receivers of a file, adds one       *)
(* backfill task per receiver, waits for the futures and destroys the pool *)
(* (backfill_isolated_receivers in src/src/sender.cpp).                    *)
(*                                                                         *)
(* A step that holds the mutex is one action; `asleep' is the set of the   *)
(* workers asleep on cv, and every notify is a step of its own, made after *)
(* the mutex is released.                                                  *)
(***************************************************************************)
EXTENDS Integers, Sequences, FiniteSets

CONSTANTS Workers,     \* the threads: min(kBackfillThreadCount, isolated_count)
          TaskCount    \* isolated_count

ASSUME ThreadPoolAssumption ==
    /\ IsFiniteSet(Workers) /\ Workers # {}
    /\ TaskCount \in Nat \ {0}

Tasks == 1 .. TaskCount

VARIABLES owner,      \* where the thread that made the pool is
          current,    \* the task it adds or waits for
          q, stop,
          at,         \* what each worker does
          hand,       \* the task a worker runs, or None
          asleep,     \* workers asleep on cv
          finished,   \* futures that are ready
          failed      \* those of them that hold an exception

vars == <<owner, current, q, stop, at, hand, asleep, finished, failed>>
ownerVars == <<owner, current>>
workerVars == <<at, hand, finished, failed>>

None == 0

------------------------------------------------------------------------------
(* The thread that owns the pool *)

\* add: the task is queued under the mutex ...
Add ==
    /\ owner = "add"
    /\ q' = Append(q, current) /\ owner' = "notify"
    /\ UNCHANGED <<current, stop, workerVars, asleep>>

WakeOne == IF asleep = {} THEN UNCHANGED asleep
           ELSE \E w \in asleep : asleep' = asleep \ {w}

\* ... and one worker is woken.
AddNotifies ==
    /\ owner = "notify"
    /\ WakeOne
    /\ IF current = TaskCount THEN owner' = "get" /\ current' = 1
       ELSE owner' = "add" /\ current' = current + 1
    /\ UNCHANGED <<q, stop, workerVars>>

\* task.get(): the first exception leaves the loop, and the destructor runs.
Get ==
    /\ owner = "get" /\ current \in finished
    /\ IF current \in failed \/ current = TaskCount
       THEN owner' = "stop" /\ UNCHANGED current
       ELSE current' = current + 1 /\ UNCHANGED owner
    /\ UNCHANGED <<q, stop, workerVars, asleep>>

\* The destructor: stop under the mutex, notify_all, join.
Stop ==
    /\ owner = "stop"
    /\ stop' = TRUE /\ owner' = "notify_all"
    /\ UNCHANGED <<current, q, workerVars, asleep>>

\* MUTANT: notify_one where the destructor needs notify_all.
StopNotifiesOne ==
    /\ owner = "notify_all"
    /\ WakeOne /\ owner' = "join"
    /\ UNCHANGED <<current, q, stop, workerVars>>

StopNotifies ==
    /\ owner = "notify_all"
    /\ asleep' = {} /\ owner' = "join"
    /\ UNCHANGED <<current, q, stop, workerVars>>

Join ==
    /\ owner = "join" /\ \A w \in Workers : at[w] = "ended"
    /\ owner' = "gone"
    /\ UNCHANGED <<current, q, stop, workerVars, asleep>>

------------------------------------------------------------------------------
(* A worker *)

\* MUTANT: a stopped pool leaves its queue behind.
LeavesOnStop == stop

Leaves == stop /\ q = <<>>

\* MUTANT: the front is read and not popped.
NotPopped == q

Popped == Tail(q)

\* The loop of a worker: the wait on cv, and what follows it under the mutex.
Take(w) ==
    /\ at[w] = "idle" /\ w \notin asleep
    /\ IF ~(stop \/ q # <<>>)
       THEN asleep' = asleep \cup {w} /\ UNCHANGED <<at, hand, q>>
       ELSE /\ UNCHANGED asleep
            /\ IF Leaves
               THEN at' = [at EXCEPT ![w] = "ended"] /\ UNCHANGED <<hand, q>>
               ELSE /\ at' = [at EXCEPT ![w] = "busy"]
                    /\ hand' = [hand EXCEPT ![w] = Head(q)] /\ q' = Popped
    /\ UNCHANGED <<ownerVars, stop, finished, failed>>

\* MUTANT: an exception leaves the future without a result.
RunLosesException(w) ==
    /\ at[w] = "busy"
    /\ \/ finished' = finished \cup {hand[w]} /\ UNCHANGED failed
       \/ failed' = failed \cup {hand[w]} /\ UNCHANGED finished
    /\ at' = [at EXCEPT ![w] = "idle"] /\ hand' = [hand EXCEPT ![w] = None]
    /\ UNCHANGED <<ownerVars, q, stop, asleep>>

\* The task returns or throws; the packaged_task makes its future ready.
Run(w) ==
    /\ at[w] = "busy"
    /\ finished' = finished \cup {hand[w]}
    /\ \/ UNCHANGED failed
       \/ failed' = failed \cup {hand[w]}
    /\ at' = [at EXCEPT ![w] = "idle"] /\ hand' = [hand EXCEPT ![w] = None]
    /\ UNCHANGED <<ownerVars, q, stop, asleep>>

\* A condition variable may wake a thread for no reason.
Spurious ==
    /\ \E w \in asleep : asleep' = asleep \ {w}
    /\ UNCHANGED <<ownerVars, q, stop, workerVars>>

------------------------------------------------------------------------------
Init ==
    /\ owner = "add" /\ current = 1 /\ q = <<>> /\ stop = FALSE
    /\ at = [w \in Workers |-> "idle"] /\ hand = [w \in Workers |-> None]
    /\ asleep = {} /\ finished = {} /\ failed = {}

OwnerStep == Add \/ AddNotifies \/ Get \/ Stop \/ StopNotifies \/ Join
WorkerStep(w) == Take(w) \/ Run(w)

Over == owner = "gone" /\ (\A w \in Workers : at[w] = "ended") /\ UNCHANGED vars

Next == OwnerStep \/ (\E w \in Workers : WorkerStep(w)) \/ Spurious \/ Over

\* Every thread is scheduled, and a backfill task ends: all its waits have
\* deadlines.
Fairness == WF_vars(OwnerStep) /\ \A w \in Workers : WF_vars(WorkerStep(w))

Spec == Init /\ [][Next]_vars /\ Fairness

------------------------------------------------------------------------------
(* Properties *)

\* The shape of every variable.
TypeOK ==
    /\ owner \in {"add", "notify", "get", "stop", "notify_all", "join", "gone"}
    /\ current \in Tasks
    /\ q \in Seq(Tasks)
    /\ stop \in BOOLEAN
    /\ at \in [Workers -> {"idle", "busy", "ended"}]
    /\ hand \in [Workers -> Tasks \cup {None}]
    /\ asleep \subseteq Workers
    /\ finished \subseteq Tasks /\ failed \subseteq finished

Queued == {q[i] : i \in 1 .. Len(q)}
Running == {hand[w] : w \in {v \in Workers : at[v] = "busy"}}
Added == CASE owner = "add"    -> 1 .. current - 1
           [] owner = "notify" -> 1 .. current
           [] OTHER            -> Tasks

\* Every task added is queued, or in the hands of exactly one worker, or done:
\* none is lost and none runs twice.
EachTaskOnce ==
    /\ Added = Queued \cup Running \cup finished
    /\ Cardinality(Queued) = Len(q)
    /\ Queued \cap (Running \cup finished) = {} /\ Running \cap finished = {}
    /\ \A v, w \in Workers : at[v] = "busy" /\ at[w] = "busy" /\ hand[v] = hand[w] => v = w

\* When the pool is gone, by the normal way or because a task threw, every
\* task has run and no thread is left that could touch a receiver.
GoneMeansDone ==
    owner = "gone" => finished = Tasks /\ \A w \in Workers : at[w] = "ended"

\* No wake-up is lost: the backfill of a file always comes to an end.
PoolEnds == <>(owner = "gone")
==============================================================================
