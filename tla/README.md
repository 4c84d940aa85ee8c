# TLA+ models of SiteRepairCast

SiteRepairCast distributes a list of files from one **central sender** to
**site proxies** over TCP; each proxy caches the file section by section and
multicasts it over UDP to the fixed set of **receivers** of its site, repairs
what was lost in rounds (multicast, receiver to receiver, unicast), completes
slow receivers over TCP and asks every receiver for a SHA-256 check before the
file counts as delivered. These modules model the parts of the program where the
order of events, losses, crashes and deadlines decide whether that works.

## 1. Inventory

| Component | State it keeps | Operations | Hard behaviour |
|---|---|---|---|
| Block and section arithmetic (`include/protocol.hpp`) | none | block to section, first block, section count and size | wrap-around of `std::uint32_t`, the short last section |
| Central sender (`src/central_sender.cpp`) | per proxy: connection, file index, section index | connect, META, RESUME, DATA, FILE_END, wait for STATUS, SESSION_END; a thread per proxy | proxy lost in mid-section, resume from the proxy's checkpoint |
| Proxy: cache (`receive_cached_file_from_central`) | `.part`, checkpoint, cached file, `received` bitmap | resume, store block, commit section, finish | crash between fsync, checkpoint and STATUS; stale checkpoint |
| Proxy: dispatch pipeline (same function) | queue of sections, `pending_bytes`, flags `producer_done`, `cancel_dispatch`, `worker_failed` under one mutex | enqueue, worker loop, complete, stop | back pressure between two threads, failure on either side |
| Proxy: distribution of a section (`distribute_section`) | per receiver: status, completed, isolated, abandoned, backfill blocks | multicast, END, collect reports, repair rounds, isolation | lost and late datagrams, deadlines, stale reports |
| Proxy: repair planner (`re_to_re`) | the plan of one round | multicast, choice of a source, fallback | limits of load and of task size, what a source really holds |
| Proxy: backfill and barrier | tasks on a thread pool, ready flags | BACKFILL_DATA/END, COMPLETE_ACK, RECEIVER_READY | deadlines against late answers, what is left in a connection |
| Proxy: control session, direct mode, retries | the fixed receiver table, a connection per receiver, the batch of readable connections | registration, reconnection, FILE_META / META_READY, retries under a new transfer id, abandoning, SESSION_END | a receiver that comes back in the middle of a file, frames and deadlines of the connection before |
| Receiver: control session | its transfer, `awaiting` and `shafailed` states, its link | registration, reconnection with what it holds, FILE_META, COMPLETE_ACK, TRANSFER_RESULT, SESSION_END | a lost answer, a second FILE_META, a proxy that was restarted |
| Receiver: event loop (`src/receiver.cpp`) | `TransferState`, drain flags | DATA, SECTION_END, drain timer, peer tasks, backfill, ACK, result | END of an old round, data after the report, finishing early |
| Receiver: files | `.part`, `.state`, the final file | open, write, sync, save, verify, rename, unlink, reload | crash at every step, stale state |
| Thread pool (`include/thread_pool.hpp`) | queue, stop flag | add, worker, destructor | stop with queued tasks, lost wake-up |
| Packet encoding, CRC, options, storage checks, test bench | none | pure functions and I/O | not a matter of order |

### How they interact

The central sender and the proxy exchange control frames over one TCP
connection: FILE_META, RESUME, then per section DATA*, FILE_END and one STATUS.
In the proxy the thread that reads the central connection hands committed
sections to a worker thread through a bounded queue; the worker runs
`distribute_section`. The proxy talks to each receiver over a TCP control
connection (META, SECTION_END, statuses, peer tasks, backfill, ACK, result,
READY), sends blocks over UDP, and receivers send blocks to each other over UDP.
A receiver is one event loop over its sockets and a drain timer. When its control
connection breaks it connects again and registers with what it holds; the proxy
accepts one registration after each wait, closes the descriptor it had for that
member and decides from the registration what the member still owes it.

### What makes each component correct

* arithmetic: sections partition the blocks of a file;
* distribution: the proxy counts a receiver as complete only when it stored the
  right file, never takes an old report for a new one, always comes to a
  verdict, and leaves nothing of one file in the connections for the next;
* planner: every missing block is served exactly once in a round, sources hold
  what they are asked for, nobody serves more targets or blocks than the limits;
* pipeline: each section is distributed once and in order, the backlog is
  bounded, no thread is left behind, and neither thread waits for ever for the other;
* cache: the checkpoint never runs ahead of the data, a kill of the proxy loses
  nothing confirmed, the cached file is right and was handed out completely;
* control session: a completed receiver has stored this very file and stays
  completed however often it reconnects; no receiver is handed a file while it holds
  another one; every wait has an end, and so has the session;
* thread pool: every task runs once, the destructor leaves nothing behind;
* receiver files: no set bit without its bytes, whatever crashes; the final
  name never shows an unverified file.

## 2. Plan

Done, in this order:

1. `SectionMath`, `RepairPlan`: the arithmetic and the planning decisions as operators.
2. `FileDelivery`: the abstract promise of one attempt.
3. `SectionRepair`: the proxy and the receivers of one attempt, composed over TCP
   channels and lossy UDP, refining `FileDelivery`.
4. `ReceiverStore` and `ReceiverStore_proof`: the files of a receiver, one step per
   system call; inductive invariant and five theorems.
5. `DispatchPipeline` (with `DispatchPipeline_proof`), `CentralCache`, `ThreadPool`,
   `RepairPlanning`: the other components, each on its own.
6. `ControlSession`: registration, reconnection in the middle of a file, the
   META_READY, report, backfill and READY waits over connections that break, retries
   under a new transfer id, abandoned receivers, several files, both modes. A module
   of its own for the retries was planned and became part of this one, because a
   retry only matters through what it leaves in the connections.
7. `SectionMath_proof`, `ControlSession_proof`, `ThreadPool_proof`,
   `CentralCache_proof`, `RepairPlanning_proof`, `SectionRepair_proof`: the safety
   invariants for all values of the constants, and the refinement of `FileDelivery`.
   The theorems of `SectionMath_proof` took the place of a model that walked through
   the sections of small files.

The proof modules state three properties more, of the verdict and of the wake-ups
(section 6). Every safety property of a passing run is proved, three of those of `SectionRepair` for
files of one section, where alone they hold (sections 4 and 6). What is left to TLC is
liveness, and the failing runs, which are counterexamples.

## 3. Modules

### SectionMath, SectionMath_proof

`SectionMath` has the functions of `include/protocol.hpp` under their names, over
unsigned integers of `Word` values; every other module computes with them. What
they promise together is proved in `SectionMath_proof` for every block count, section
size and word, where the sum in `section_count_for_blocks` does not wrap (`NoWrap`).
With the code's 32-bit word this excludes only a section size near 2^32, which the
options accept: a file of two blocks with `--section-blocks 4294967295` has a
section count of 0 and nothing is sent.

### SectionRepair, SectionRepair_proof, RepairPlan, FileDelivery

One attempt to deliver one file to the receivers of a site. The proxy is a
sequential program; `pc` is where it is: `section` (about to send), `collect`
(`collect_round_reports`), `backfill`, `ready` (`wait_for_receivers_ready`),
`done`, `threw`. `status`, `completed`, `isolated`, `abandoned`, `backfill`,
`task` and `ready` are the fields of `ReceiverConnection` and the backfill tasks.
Each receiver has the fields of `TransferState` that decide something: `phase`,
`have` (for each block nothing, right or wrong bytes under a set bit), `active`,
`lastEnd`, `lastReported`, `draining`, `drainRound`. `toRcv` and `toProxy` are the
two directions of a control connection, FIFO; `udp` is the set of datagrams on
their way to a receiver, delivered in any order or lost.

A handler is one action, with everything it sends. A receiver handles DATA from
the proxy or a peer, SECTION_END (`RcvSectionEnd`, `begin_drain_for_round`), the
end of its drain (`RcvDrainEnds`), peer tasks, backfill frames, COMPLETE_ACK and
TRANSFER_RESULT. The proxy's `wait_for_receiver_events` handles the frames that
are ready in one batch; the handlers of different receivers touch different
fields, so the batch is the sequence of its frames, each one an action.

`RepairPlan` is the decision of one round (`re_to_re` in peer mode,
`send_repair_round` in baseline mode) as one operator, `MinPeerBlocks`,
`MaxTargetsPerSource` and `MaxTaskBlocks` being parameters. The order of its loops and
of its tasks is `InOrder`: the element with i - 1 elements before it comes i-th.

`FileDelivery` is what an attempt promises: a receiver stores the file, the proxy
comes to know that or gives the receiver up, and there is one verdict, success
exactly when nobody is left out but those given up. `SectionRepair!ImplementsDelivery`
is the refinement: `files <- stored`, `confirmed <- completed`,
`dropped <- abandoned`, `verdict` is open until the proxy leaves the sections.

### RepairPlanning, RepairPlanning_proof

`re_to_re` step by step: one missing block of one target is assigned in the order
of the two loops, small plans fall back to the proxy, the rest is cut into tasks,
and a task whose source has lost its connection falls back too; a receiver without
a connection when the plan is made is no source. It assigns with
`Assign` and `DropSmall` of `RepairPlan`, the operators whose fold is the plan of
`SectionRepair`.

### ReceiverStore, ReceiverStore_proof

One transfer id of one receiver: `.part` (its size, the blocks with right bytes,
those of them that are synced), `.state`, the final file, the bitmap in memory,
and the sections reported complete. `step` is the next system call of the handler
that runs, and a kill or a power loss may come before any of them. A kill loses
nothing that was written. A power loss may lose every byte of `.part` that was not
synced, and everything about names and `.state`: the code syncs neither `.state` nor
its temporary file nor the directory (`save_receiver_state`). `disk` is what the
kernel has committed of them, `Writeback` the kernel committing more at any time, in
the order the changes were made as a journaling file system does. A power loss goes
back to it, to `.part` under its old name if the rename was not committed, and to a
`.state` that is the committed one or empty. What the code promises of a reported
section is accordingly about kills (`README.md:81` of the sources), and
`ReportedIsDurable` says no more: `reported` starts anew at a power loss. What must
survive a power loss is that no bitmap it leaves is ahead of the data (`StateSound`,
`BitmapSound`) and no wrong file gets the final name (`OutputVerified`).
`leftBehind` is a history variable: a `.state` file outlived the `.part` it
was written for, because a crash fell between the rename of `.part` and the
removal of `.state`, or because a META with another section size truncated
`.part` and left `.state`.

### DispatchPipeline, DispatchPipeline_proof

The producer and the dispatch worker of `receive_cached_file_from_central`. A
step that holds `dispatch_mutex` is one action; falling asleep on the condition
variable is part of the step that finds the predicate false; a notify is a step of
its own after the mutex is released; threads wake for no reason. What a section ends
in follows from the receivers (`Outcome`): each one not silent since an earlier
mismatch is served, finalises a wrong file, or does neither. One wrong file is a
mismatch, and another receiver may have one in a later section; a receiver whose
mismatch was read answers no SECTION_END any more (`shaFailed`), is not isolated for
that, and so makes every later section fail unless that one mismatches too, or until
the receiver was started again and installed anew (`ReceiverStartsOver`). A section
may also throw, or never end; the connection may break at any frame, or stay
silent: the producer looks at the worker before and after each read of the central
connection, not during it (`Fetch`, `Read`).

### ThreadPool, ThreadPool_proof

`include/thread_pool.hpp` in its one use, `backfill_isolated_receivers`: tasks are
added, the futures are waited for in order, the first exception leaves the loop
and runs the destructor while other tasks may still be queued.

### CentralCache, CentralCache_proof

One file from the central sender to the cache of one proxy: the two programs, the
TCP connection, and the disk of the proxy, with a step per system call that
matters (`ftruncate`, `fsync`, rename of the checkpoint, rename of `.part`,
removal of the checkpoint). The connection breaks with what is on its way, the
proxy is killed or loses power, the central sender is restarted, perhaps with
another `--section-blocks`, and the distribution of a section may fail, or hang
(`DistributionHangs`, the consequence of SessionHang here: a full queue or a join then
waits for ever). The distribution is one step (`EnqueueSection`); its threads are
`DispatchPipeline`. `leftBehind` is set when a refused checkpoint stays beside a
truncated `.part`.

Only `.part` is ever synced. `save_central_checkpoint` writes a temporary file and
renames it without a sync of either or of the directory, so `disk` and `Writeback` are
as in `ReceiverStore`: a power loss leaves the last committed checkpoint or none, and
the file under its last committed name. The comment of the function promises that a
*killed* proxy loses no committed section, and `ConfirmedIsNotResent` says that:
`powerLost` remembers a power loss until the next connection, which starts
`confirmed` anew.

Neither program sets a timeout or a keepalive on this connection. `deaf` is the set of
ends that a loss of it was not announced to: the host at the other end lost power, or
its FIN and RST were lost too. Such an end goes on waiting in its read. A write on the
dead connection fails in the end, so an end that has written since (`Notices`) is
not deaf any more.

### ControlSession, MCControlSession, ControlSession_proof

The proxy and the control half of its receivers over a whole session: several
files, several attempts of a file, both modes of `main`. `pc` is where the proxy is:
`register` (`accept_receivers`), `away` (waiting for a central sender), `begin`,
`meta` (`wait_for_meta_ready`), `section`, `collect`, `backfill`, `barrier`
(`wait_for_receivers_ready`), `end`, `over` or `exited`. `info[r]` is a
`ReceiverConnection` without its descriptor, `conn[r]` the connection the proxy
holds: `open` (the descriptor), `eof` (the end of the stream has arrived) and the
frames under way in both directions. `link[r]` is the receiver's end: `up`, `down`
(it will reconnect), `pending` (connected, its registration not yet read) or `gone`.
`cur`, `phase` and `drain` are the transfer of the receiver and what it is doing with
it; `stored` is the set of files it has renamed into place.

A transfer id is the pair of a file and an attempt. In direct mode, and for a
retry, `make_transfer_id` gives a fresh id; the first attempt of a central session
takes the id of the central sender, which is the same again when that sender comes
back, and so it is `<<file, 0>>` again here. `OldId` is any transfer of an earlier
run of the proxy.

`wait_for_receiver_events` is three steps, as in the code: `Poll` notes the readable
receivers in `batch` and may then accept one registration, which replaces a
descriptor; the `Read...` actions take one noted receiver each and read from the
connection that receiver has by then. `Blocked` is the state in which that read
never returns. A deadline is looked at only between two batches.

What is inside a file is left open here: a receiver reports Missing or Complete,
and its file is whole or corrupt, as it may. `SectionRepair` says when it does
what; the two modules describe the same functions of the proxy, the one with the
blocks over connections that stay up, the other without the blocks over
connections that do not.

Faults, `MaxFaults` of them: a connection breaks (what is on its way to the
receiver is lost, of what is on its way to the proxy the end is, and the proxy may
or may not be told), a receiver dies (started again it has another peer port and is
refused, so it never comes back), a deadline passes on a live receiver, a file is
corrupt. `MaxCentrals` bounds the connections of the central sender, `Survivors` the
receivers that may hold a transfer of an earlier run when the proxy starts.

## 4. Runs

| Run | What it asks | Bounds |
|---|---|---|
| RepairFresh | a new file, peer repair: sources hold what they are asked for, the barrier leaves nothing, the attempt implements `FileDelivery` | 2 receivers, 3 blocks in 2 sections (the last one short), 1 repair round, 1 lost datagram, 1 missed deadline |
| RepairOneSection | baseline repair from every recovered `.part`, wrong bytes included: only right files are confirmed, a mismatch needs wrong bytes, a finished receiver is always answered, repair and TCP backfill serve every receiver, the attempt ends | 1 section of 2 blocks, 81 initial contents, 2 losses, 1 missed deadline, 1 backfill thread |
| RepairLateSection | fails: the backfill of a receiver isolated early and losing more later | 2 sections, 3 losses |
| Planning | every missing block served once, no source above its limit | 3 receivers, 4 blocks, all reports, any connections gone at the start, any task fails |
| Store | bitmap and state across kills and power losses, reports across kills; the final name | 3 blocks, section sizes 1 and 2, any number of crashes and write-backs |
| StoreStaleState | fails: blocks are skipped after two crashes | 2 blocks |
| Pipeline | order, backlog, joins, mismatches of several sections, no lost wake-up | 8 sections, 5 of them resumed: the high watermark (4 sections) is passed with and without frames to read; 2 receivers |
| Pool | each task once, nothing left behind, the pool ends | 3 workers, 4 tasks |
| Cache | checkpoint, confirmation, hand-over, digest, and the file is confirmed in the end or somebody is never heard | 3 blocks, section sizes 1 and 2, 1 break, 2 crashes, 2 restarts, 1 distribution that fails or hangs, any end deaf |
| CacheEmpty | fails: an empty file is never confirmed | 0 blocks |
| Session | completed means stored and stays so, no receiver is handed a file while it holds another, the session ends | 2 receivers, 1 of them a survivor, 2 files of 2 and 1 sections, both modes, 1 repair round, 1 retry, 1 fault, 2 central connections |
| SessionHang | fails: a read of the proxy that no deadline ends | 1 file of 1 section, otherwise as Session |

The bounds are the smallest at which every branch is taken: two receivers make a
block common or scattered and give a scattered one a peer; two sections separate
"middle" from "last"; one repair round separates the first report from the last;
three receivers give the planner a choice of sources; one missed deadline meets each collection,
backfill and barrier in turn, because TLC tries it at each. One fault in `Session`
meets every state of both files in the same way, with the other receiver going on;
the second central connection is the one that finds what an interrupted one left.
The same session with one receiver, three faults and three central connections
passes as well, and is not kept as a run because it asks nothing new.

`kMinPeerBlocks`, `kMaxTargetsPerSource` and the task size are scaled down with the number of
blocks so that both sides of each limit occur.

### What the failing runs show

* **RepairLateSection.** `isolate_slow_receivers` records for the backfill the blocks
  missing in the section of the isolation. What the isolated receiver loses in
  later sections is not recorded, its backfill ends in FAILED, and the attempt ends in
  a mismatch, although the comment at `sender.cpp:1685` says the slow receiver is
  completed over TCP.
* **StoreStaleState.** A crash between the rename of `.part` and the removal of
  `.state` leaves a full bitmap; the next transfer of the same file truncates
  `.part` and keeps `.state`; one more crash makes it accepted, and blocks are
  skipped, which the comment at `receiver.cpp:1080` excludes. The SHA-256 check still
  keeps the wrong file from its final name (`OutputVerified`).
* **CacheEmpty.** The proxy answers the META of an empty file with section 0 of 0 and
  a zero digest; the central sender takes that for a cached file with a wrong
  digest, reconnects and repeats, and never comes to the next file.
* **SessionHang.** `wait_for_receiver_events` notes which connections are readable and
  then accepts a registration (`sender.cpp:948`), which may be of a receiver just noted.
  The caller reads the new connection instead of the old one. Nothing was sent on it,
  `accept_receivers` has cleared its receive timeout (`sender.cpp:592`), and the
  receiver waits for the proxy: the read does not return and the deadline of the loop
  is not looked at again, although the comment on `kReadyTimeout` (`sender.cpp:51`)
  calls it the longest wait. It takes one reconnection at the wrong moment.

### What limits the passing properties

Some properties carry a condition because the code needs it:

* `ReportedIsDurable` and `ConfirmedIsNotResent` hold across kills only. After a power
  loss a receiver may ask again for a section it had reported, and a central sender
  may have to send again what was confirmed to it; nothing is lost by that but time.
* `PipelineEnds` has three ends: both threads ended; or a distribution that never ends,
  as in SessionHang; or a read of the central connection that never returns
  (`sender.cpp:2231` has no limit, and a worker that failed meanwhile does not end it).
  What it shows is that the two threads do not lose a wake-up or wait for each other.
* `FileIsConfirmed` leaves out three things: a checkpoint that was left behind; a central
  sender or a proxy that waits for ever on a connection it does not know to be lost
  (`<>[]Unheard`: `central_sender.cpp:256` and `:304`, `sender.cpp:2231`), which also keeps
  the other one out, because the proxy serves one connection at a time; and a
  distribution that hangs. The file may be missing again from the cache when
  the proxy lost power after the rename and before the write-back.
* `leftBehind` in `ReceiverStore` and `CentralCache`: the refused checkpoint is left
  beside a truncated `.part`; if it is accepted later, the wrong bytes are found only
  by the final SHA-256, and since the checkpoint stays, each new try ends the same way.
* One section in `BackfillSuffices` and `FinalisedIsAnswered`: with two, a receiver that
  recovered the end of the file finishes in a middle section and its
  RECEIVER_COMPLETE may be read by nobody.
* `EveryReceiverServed` requires that no live receiver misses a deadline and that no
  wrong bytes were recovered: an abandoned receiver counts as served for the verdict,
  and wrong bytes end the attempt in a mismatch, as they should.
* `IdsAreFresh` in `NoClashFresh` and `CompletedStays`: a central sender that comes back
  offers its file under the id it had. When such a session was interrupted twice, a
  receiver may hold a transfer of the same id from the time before; it refuses the
  FILE_META, drops the connection, and the reconnection puts both sides right.
* `SessionEnds` ends in one of three ways: the proxy is over, it waits for a central
  sender, or it is caught as in SessionHang (`<>[]Blocked`). The second includes a lost
  SESSION_END, which `central_sender.cpp:368` sends once; the first includes the exit
  on an exception, as after a barrier that timed out or a META_READY of another id.
* When a file is already in the cache the proxy distributes nothing (`CachedFile`): a
  receiver that did not complete it before the interruption is not served, and
  `ConfirmedIsStored` only says that it is not counted either.
* Only the receivers that did not complete the file are abandoned, and only until
  they register again with a completed transfer of this id.

## 5. Fairness

* `SectionRepair`: every step of the proxy and of a receiver that stays possible is
  taken, and a deadline passes when nobody has anything to say: the waits are
  `poll` calls with a deadline and the receivers are running event loops. Losses
  and missed deadlines are not fair and are bounded.
* `DispatchPipeline`: the operating system schedules both threads, so each step that
  waits for nobody but the other thread is taken (`ProducerRuns`, `WorkerRuns`). No
  fairness makes a distribution end or a read of the central connection return: both
  are reads of sockets without a time limit.
* `ThreadPool`: every thread that can run is scheduled, and a task ends, by return or
  by exception: the contract of the pool with its users. The waits of a backfill
  have deadlines, but for the read that SessionHang shows.
* `ControlSession`: the proxy thread goes on and its deadlines come once nobody it waits
  for has anything to say; a receiver serves its connection and its drain timer, and
  `reconnect_proxy` tries again until it succeeds. Faults are not fair and are bounded,
  and so are the connections of the central sender.
* `CentralCache`: both programs go on while they can; `run_proxy_session` retries for
  ever and the proxy is started again after it died. An end notices a lost
  connection only if it is not deaf, and a distribution that hangs never ends. Faults
  and write-backs are not fair. Small frames are assumed to fit into the socket buffers: a
  write on a dead connection fails, now or at the next read, and does not block.

## 6. Proofs

Eight modules hold the proofs, one for each component. Each defines an inductive
invariant, proves that the initial states satisfy it and every step keeps it (one
lemma or one step per action), and derives the properties.

`ReceiverStore_proof` proves for every number of blocks and every set of section
sizes, with crashes at any step and in any number:

* `TypeCorrect`: the type invariant;
* `OutputIsVerified`: the final name never shows a wrong file. The invariant
  `Checked` says that between the digest and the rename all bytes are right and
  that no handler runs outside an open transfer;
* `BitmapIsSound`, `StateIsSound`, `ReportsAreDurable`, all from the inductive
  invariant `Durable`. `BitmapSound` alone is not inductive: it needs that `.state`
  never says more than what is synced (`StateOfPart`), and that the committed `.state` a
  power loss would bring back says no more than the `.part` it would find
  (`DiskOfPart`), a renamed one included. That needs that a handler
  saves only after it synced (`Saving`) and that the bits of an open transfer
  include those of `.state` of the same section size; `Closing` carries the
  completeness of a section from the end of the drain to the report.
  `ReportsAreDurable` is about kills, in any number and at any step; a power loss empties
  `reported`, because nothing makes `.state` survive it.

`DispatchPipeline_proof` proves for every number of sections, resume point and
section sizes:

* `NobodyLeftBehind` (`WorkerIsJoined`) and `MismatchIsKnown`
  (`MismatchIsRemembered`), from `Threads_OK`, which says who may have raised which
  flag: the worker is told to stop by itself or by an exception of the producer
  only, so a worker that ended without a failure saw an empty queue after the last
  section; and that a section with a silent receiver is no success: as long as the
  worker has not failed, `section_result` says mismatch while some receiver is in
  `shaFailed`. Any set of receivers may mismatch in any sections and start over;
* `SectionsInOrder` (`InOrderOnce`) from `Order`, which adds where the producer is
  in the file and that the queue is the interval of sections pushed and not taken;
* `AllDistributed` (`ReturnedMeansDistributed`) from both;
* `CounterIsExact` (`PendingIsExact`) and `FourSectionsAhead` (`BacklogIsBounded`)
  from `Backlog`: the counter is a difference of `BytesBefore`, which grows by
  `Bytes` of a section with each section (`BytesAdd`), the shorter last one
  included. A push happens below the high watermark, or after a wait that ended at
  the low one, and there is room for two more sections between them;
* `TypesHold`: the type invariant, which needs the exact counter: without it
  nothing keeps `pending_bytes`, an unsigned number, from wrapping;
* `NoLostWakeUp` (`NobodyWaitsInVain`): the two threads are never asleep together, a
  producer asleep has a worker left to wake it, and a thread that is joined is awake.
  From `WakeUps`, which says that a thread asleep has nothing to do or that a notify is
  due, and from the exact counter: with an empty queue and nothing in hand
  `pending_bytes` is zero, below the low watermark the producer waits for. It also
  shows why the `notify_one` of a hand-over is enough: only the worker can be asleep then.

`SectionRepair_proof` proves for every number of receivers, blocks, sections and
rounds, both repair modes, any recovered content and any losses and deadlines:

* `ConfirmedFilesAreRight` (`ConfirmedIsStored`), from `Knowledge`: a stored file is
  right and stays right, because nothing but a missing block is ever written
  (`WriteMissing`), and a RECEIVER_COMPLETE is on its way only from a receiver that has
  stored the file (`Honest`, kept by every answer and every read);
* `AttemptImplementsDelivery` (`ImplementsDelivery`): the refinement of `FileDelivery`.
  It needs `Verdicts` besides: nobody is abandoned before the backfill, a backfill
  task is about a receiver that is neither completed nor abandoned, and a completed
  receiver has no FAILED status, so that a mismatch always leaves somebody out;
* `SuccessIsDeserved` (`VerdictStands`), a consequence of the refinement: when an attempt
  ended with Success, every receiver that was not given up has the verified file. It is
  proved of `FileDelivery`, under the refinement mapping, and carried over, so it
  needs nothing of the attempt but that it keeps that promise;
* `TypeCorrect` (`TypeOK`) and `SourcesAreGrounded` (`SourcesHoldTheirBlocks`). They
  need the planner: what `re_to_re` decides for any reports (`PeerPlanSound`,
  `BaselinePlanSound`). The plan is a fold over the sorted pairs; that a property kept
  by each assignment holds at its end (`FoldSound`) is proved by hand, with the
  smallest prefix that lacks it, and that the pairs can be sorted at all from the ranks
  of a finite order (`RankExists`). On the receivers' side a report that is under way
  or was read must say what its receiver holds, and holding only grows
  (`StatusGrounded`, `FrameShape`);
* `BarrierIsClean` (`BarrierLeavesNothing`), from `Passage`: while its file is open a
  receiver has no RECEIVER_READY under way; after the verdict COMPLETE_ACK or
  TRANSFER_FAILED is the last frame of its connection, then RECEIVER_READY is the last
  frame of the other direction, then both are empty. FIFO order is what makes
  the answer to the verdict the last thing said. A connection that was dropped is the
  exception, and its receiver was abandoned or was completed.

Three more are about a file of one section, and have that as their hypothesis
(`OneSection`: one section, and the section count did not wrap). With two they are
false, as section 4 says: blocks of later sections are nobody's business at the
isolation, and a receiver that recovered the whole file may confirm in a section
that does not wait for it.

* `BackfillIsEnough` (`BackfillSuffices`) and `MismatchIsDeserved`
  (`MismatchMeansWrongBytes`), from `Served`: what an isolated receiver lacks was noted
  at its isolation, the blocks of a backfill are all in the connection before its
  BACKFILL_END (`Covered`), so a receiver says FAILED only over wrong bytes, and so
  does the proxy;
* `NobodyIsForgotten` (`FinalisedIsAnswered`), from `Lockstep`: as long as every live
  receiver has met its deadlines, each receiver of a round is at one stage of the
  exchange (asked, draining, reported, confirming, silent), and so a
  RECEIVER_COMPLETE is read in the round it belongs to and never with a later one.

`RepairPlanning_proof` proves for every set of reports, every limit and every order in
which tasks are sent or fail:

* `EveryBlockServedOnce` (`MissingIsServedOnce`): while pairs are assigned, those left
  are exactly those without a sender and no block has two (`Assigning`); from then on
  every missing block is in the multicast, with the proxy or in one task (`Sending`).
  `DropSmallGood` and `ChunksPartition` carry the one over into the other;
* `NobodyOverloaded` (`LoadIsBounded`), from `Bounded`: `source_target_count` is never
  below the number of targets, also because a source that is chosen for its spare
  capacity does not serve the target yet.

`SectionMath_proof` proves, when the section count does not wrap, that the loops over
the sections never ask for a section out of range (`NoSectionOutOfRange`), that the
blocks sent in a section are those a receiver counts to it (`SectionsAgree`), and that
every block is sent (`EveryBlockIsSent`).

`ControlSession_proof` proves for every set of receivers, list of files, number of
retries, faults and central connections:

* `TypeCorrect`: the type invariant;
* `CompletedIsStored` (`ConfirmedIsStored`). Its invariant `Inv` adds `Honest` to the
  types: what the proxy may see of a receiver, be it a frame on any connection or the
  state of a registration, speaks of completion only for a file that receiver has
  stored; and the flags the proxy keeps are about the file it is at, except between
  two files. Without the first a broken and replaced connection could bring in
  anything, without the second a flag of the last file would count for the next.
* `NoReceiverClashes` (`NoClashFresh`) and `CompletedStaysCompleted` (`CompletedStays`, an
  action property), both from a second invariant, `Orderly` (`SessionIsOrderly`). Neither
  is inductive: what makes a FILE_META safe lies in the frames before it and in what
  the receiver answered long ago. `Control` says where the proxy can be: when the
  cache may hold the file, when backfill tasks and noted receivers exist. `FitsAt(r)`
  says, while ids are fresh, what is under way between the proxy and receiver `r`, in
  three forms:
  * `Steady`, always: a FILE_META is alone of its kind in its queue and its receiver has no
    transfer, has this very one, or is made to drop its own by a frame before it
    (`Handed`); a receiver counted as completed is idle or waits for its
    COMPLETE_ACK, so that a registration of it is recognised;
  * `Unbegun`, before a transfer begins: its id is nowhere under way, and a receiver
    whose connection is open is as its record says, or idle, so that the begin sends
    the frame that closes what it holds;
  * `Underway`, while it is at one of its steps: a RECEIVER_READY or RECEIVER_COMPLETE on
    its way means a receiver that has let go of the file or stored it (`Way`); the record
    of a receiver that was abandoned, or was ready at the barrier, can be trusted
    (`Settled`); the SECTION_ENDs and reports on their way are of rounds that were
    started, and after the report of the current one nothing is left to report
    (`Numbers`, `Current`), so an isolated receiver has no report of its own under way when
    its backfill starts (`Spared`).

  The steps of the connection (a frame read, sent, lost, a registration) are proved
  once for the values of one receiver (`ReadFits`, `SentFits`, `LosesFits`,
  `InstallFits`, `BeginFits`), then each action uses them. TLC checks `Orderly` on the
  bounds of `Session` as well. Both theorems need `IdsAreFresh`, for the reason given in
  section 4.

`ThreadPool_proof` proves for every number of workers and tasks `TypeCorrect`,
`NoTaskLost` (`EachTaskOnce`) and `AllHaveRun` (`GoneMeansDone`). The invariant says that
the tasks added are split among queue, workers and finished (`Conserved`), that the
queue repeats nothing and no two workers have the same task (`NoRepeat`,
`HandsDiffer`), and that a worker leaves only a stopped pool with an empty queue
(`Leaving`). `NoLostWakeUp` (`NobodyWaitsInVain`) is the safety half of `PoolEnds`: when
the owner waits for a future or for a thread, some worker is awake that has not left.
Its invariant `WakeUps` says that while something is queued a worker is awake or about
to be notified: one `notify_one` for each task is enough, although it comes after
the mutex is released and the worker it wakes may find the queue empty.

`CentralCache_proof` proves for every number of blocks, section sizes and faults:

* `CacheIsVerified` (`CachedIsVerified`), from `CacheVerified`: only a verified and synced
  `.part` is renamed, and a cached file is never opened for writing again;
* `EverySectionHandedOut` (`CachedWasHandedOut`), from `HandedInOrder`, which says which
  sections were handed out at every step of a section;
* `CheckpointNeverAhead` (`CheckpointIsSound`), from `SyncedInOrder`: the bitmap never
  exceeds what is written, and the sections before the next one are synced; and from
  `Committed`, which says the same of the checkpoint a power loss would bring back, and
  that the final name is committed only for a file that has it;
* `TypeCorrect` (`TypeOK`) and `NothingConfirmedIsResent` (`ConfirmedIsNotResent`,
  an action property), from `Session`, whose conjunction with `Inv` and `Committed` is the
  inductive invariant (`SessionInvariance`): until the proxy loses power, what was
  confirmed, or is about to be by a STATUS under way, is in its files under the same
  cut (`AnsweredIsKept`), through any number of kills; a power loss takes that back and the
  next connection starts it anew, because no connection outlives the power loss
  (`InStep`); a session has one META and a section one FILE_END
  (`SentInOrder`); an answer is what the central sender waits for (`AnswersInOrder`);
  and while the connection is up each program is where the other expects it
  (`InStep`). Without the last the proxy could answer a META of the connection before.
  The section numbers in the frames stay below the section count even where that
  wraps, because neither program asks for a section beyond it.

The only assumptions are the named ones on the constants, which TLC evaluates in
the runs.

`VerdictStands` and the two `NobodyWaitsInVain` are stated in the proof modules and no run
checks them again: the first follows from `ImplementsDelivery`, the others are what
`PipelineEnds` and `PoolEnds`, which the runs check, cannot do without. That a thread that is awake
does move, and so that the threads end, is liveness.

Model-checked only: all liveness properties (`AttemptTerminates`, `EveryReceiverServed`,
`PipelineEnds`, `PoolEnds`, `FileIsConfirmed`, `SessionEnds`), which are outside what the
proof system does.

## 7. Not modelled

* The blocks of a file and the breaking of connections in one model: `SectionRepair`
  has the first, `ControlSession` the second, and their product is beyond TLC. A
  receiver that is isolated, breaks and returns with some blocks is thus only seen
  without the blocks.
* Several proxies of one central sender: they are independent threads that share
  nothing but the file list. Several files in `CentralCache`: a file begins there where
  the one before ended.
* Errors of system calls other than crashes; disk-space checks; packet encoding,
  CRC-32 and SHA-256, which are pure functions of bytes (right and wrong bytes are
  told apart); pacing, logging, metrics, options, and the scripts of the test bench.
* Test hooks in the environment (`SRCAST_STOP_AFTER_SECTIONS`, dropped blocks).
