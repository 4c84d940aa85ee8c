---------------------------- MODULE CentralCache -----------------------------
(***************************************************************************)
(* One file on its way from the central sender to the cache of one proxy:  *)
(* send_file and run_proxy_session of src/src/central_sender.cpp against   *)
(* the accept loop of main and receive_cached_file_from_central of         *)
(* src/src/sender.cpp, over TCP connections that break, a proxy that is    *)
(* killed or loses power between any two steps, and a central sender that  *)
(* is restarted, perhaps with another --section-blocks.                    *)
(*                                                                         *)
(* What the proxy keeps on disk under the transfer id is the .part file,   *)
(* the checkpoint (.state) and the cached file; the distribution to the    *)
(* receivers is a handing-over of sections (DispatchPipeline has its       *)
(* threads).  Only .part is ever synced: a power loss leaves the names and *)
(* the checkpoint as the kernel last committed them, and may lose any byte *)
(* of .part that was not synced.                                           *)
(*                                                                         *)
(* Neither end has a timeout or a keepalive on this connection: an end     *)
(* that a lost connection is not announced to, and that has nothing left   *)
(* to send, waits in its read for ever.                                    *)
(***************************************************************************)
EXTENDS SectionMath, Sequences

CONSTANTS TotalBlocks,   \* total_blocks of the file
          Limits,        \* --section-blocks of the runs of the central sender
          MaxBreaks,     \* bound: connections that break
          MaxCrashes,    \* bound: crashes of the proxy
          MaxRestarts,   \* bound: restarts of the central sender
          MaxFailures    \* bound: distributions that fail or never end

AllBlocks == 0 .. TotalBlocks - 1

ASSUME CentralCacheAssumption ==
    /\ TotalBlocks \in Nat /\ TotalBlocks < Word
    /\ Limits \subseteq Nat \ {0}
    /\ MaxBreaks \in Nat /\ MaxCrashes \in Nat
    /\ MaxRestarts \in Nat /\ MaxFailures \in Nat

VARIABLES
    \* the central sender
    central, limit, section, confirmed,
    \* the connection; the ends that its loss was not announced to
    up, toProxy, toCentral, deaf,
    \* the proxy process
    proxy, meta, next, received, rejected, handed,
    \* the disk of the proxy
    part, written, synced, checkpoint, cached,
    \* what is left of the bounds
    faults,
    \* history: a checkpoint was refused and outlived the .part it was written for
    leftBehind,
    \* what of it the kernel committed: the name of the file, and the checkpoint
    disk,
    \* history: the proxy lost power since the connection was made
    powerLost

centralVars == <<central, limit, section, confirmed>>
connVars == <<up, toProxy, toCentral, deaf>>
proxyVars == <<proxy, meta, next, received, rejected, handed>>
diskVars == <<part, written, synced, checkpoint, cached>>
lossVars == <<disk, powerLost>>
envVars == <<faults, leftBehind, lossVars>>
vars == <<centralVars, connVars, proxyVars, diskVars, envVars>>

SectionCount(l) == SectionCountForBlocks(TotalBlocks, l)
Blocks(s, l) == SectionBlocks(TotalBlocks, s, l)
BlocksBefore(s, l) == UNION {Blocks(i, l) : i \in 0 .. s - 1}

NoCheckpoint == [limit |-> 0, next |-> 0]

Budget == [break : 0 .. MaxBreaks, crash : 0 .. MaxCrashes,
           restart : 0 .. MaxRestarts, fail : 0 .. MaxFailures]

Spend(kind) == faults[kind] > 0 /\ faults' = [faults EXCEPT ![kind] = @ - 1]
               /\ UNCHANGED leftBehind

------------------------------------------------------------------------------
(* Frames *)

Meta(l) == [type |-> "META", limit |-> l]
Data(s, b) == [type |-> "DATA", section |-> s, block |-> b]
FileEnd(s) == [type |-> "FILE_END", section |-> s]
Resume(s, digest) == [type |-> "RESUME", next |-> s, digest |-> digest]
Status(code, digest) == [type |-> "STATUS", code |-> code, digest |-> digest]

\* A frame written to a connection that broke is lost; the writer throws, now
\* or at its next read, because TCP gives up on what is not acknowledged.
Send(queue, frames) == IF up THEN queue \o frames ELSE queue
Notices(end) == deaf' = deaf \ {end}

------------------------------------------------------------------------------
(* The central sender *)

\* connect_proxy succeeds while the proxy waits in accept4, and send_file
\* begins with CENTRAL_FILE_META.  What was confirmed before a power loss of the
\* proxy is not promised any more.
Connect ==
    /\ central = "connect" /\ proxy = "accept" /\ ~up
    /\ up' = TRUE /\ toProxy' = <<Meta(limit)>> /\ toCentral' = <<>> /\ deaf' = {}
    /\ central' = "resume" /\ proxy' = "meta"
    /\ confirmed' = IF powerLost THEN 0 ELSE confirmed
    /\ powerLost' = FALSE
    /\ UNCHANGED <<limit, section, meta, next, received, rejected, handed, diskVars,
                   faults, leftBehind, disk>>

\* MUTANT: an exception ends the session.
CentralGivesUp ==
    /\ central' = "exited" /\ up' = FALSE /\ toCentral' = <<>>
    /\ UNCHANGED <<limit, section, confirmed, toProxy, deaf>>

\* send_file throws: run_proxy_session closes the connection and tries again.
CentralThrows ==
    /\ central' = "connect" /\ up' = FALSE /\ toCentral' = <<>>
    /\ UNCHANGED <<limit, section, confirmed, toProxy, deaf>>

ReadResume ==
    /\ central = "resume" /\ toCentral # <<>>
    /\ LET f == Head(toCentral)
       IN  IF f.next = SectionCount(limit)
           THEN IF f.digest = "good"
                THEN /\ central' = "sent" /\ toCentral' = Tail(toCentral)
                     /\ UNCHANGED <<up, toProxy, deaf, limit, section, confirmed>>
                ELSE CentralThrows
           ELSE /\ central' = "send" /\ section' = f.next
                /\ toCentral' = Tail(toCentral)
                /\ UNCHANGED <<up, toProxy, deaf, limit, confirmed>>
    /\ UNCHANGED <<proxyVars, diskVars, envVars>>

\* MUTANT: the last section is not cut at the end of the file.
LastNotCut(s, l) ==
    LET first == SectionFirstBlock(s, l)
    IN  [i \in 1 .. l |-> Data(s, first + i - 1)] \o <<FileEnd(s)>>

\* All blocks of a section and CENTRAL_FILE_END.
SectionFrames(s, l) ==
    LET first == SectionFirstBlock(s, l)
    IN  [i \in 1 .. SectionBlockCount(TotalBlocks, s, l) |-> Data(s, first + i - 1)]
        \o <<FileEnd(s)>>

SendSection ==
    /\ central = "send"
    /\ toProxy' = Send(toProxy, SectionFrames(section, limit)) /\ Notices("central")
    /\ central' = "status"
    /\ UNCHANGED <<limit, section, confirmed, up, toCentral, proxyVars, diskVars,
                   envVars>>

\* The proxy's answer to a section.
ReadStatus ==
    /\ central = "status" /\ toCentral # <<>>
    /\ LET f == Head(toCentral)
           last == section + 1 = SectionCount(limit)
       IN  IF f.code # "Cached" \/ (last /\ f.digest # "good")
           THEN CentralThrows
           ELSE /\ central' = IF last THEN "sent" ELSE "send"
                /\ section' = section + 1 /\ confirmed' = section + 1
                /\ toCentral' = Tail(toCentral)
                /\ UNCHANGED <<up, toProxy, deaf, limit>>
    /\ UNCHANGED <<proxyVars, diskVars, envVars>>

\* A read from a closed connection, if the central sender gets to know of it.
CentralLosesConnection ==
    /\ central \in {"resume", "send", "status"} /\ ~up /\ toCentral = <<>>
    /\ "central" \notin deaf
    /\ CentralThrows
    /\ UNCHANGED <<proxyVars, diskVars, envVars>>

\* CENTRAL_SESSION_END, once and without an answer.
EndSession ==
    /\ central = "sent"
    /\ toProxy' = Send(toProxy, <<[type |-> "SESSION_END"]>>)
    /\ central' = "exited"
    /\ UNCHANGED <<limit, section, confirmed, up, toCentral, deaf, proxyVars, diskVars,
                   envVars>>

\* The central sender is stopped and started again; the proxy may not hear of it.
CentralRestart ==
    /\ central # "exited" /\ Spend("restart")
    /\ central' = "connect" /\ section' = 0
    /\ limit' \in Limits
    /\ confirmed' = IF limit' = limit THEN confirmed ELSE 0
    /\ up' = FALSE /\ toCentral' = <<>> /\ UNCHANGED toProxy
    /\ deaf' \in IF up THEN SUBSET {"proxy"} ELSE {deaf \ {"central"}}
    /\ UNCHANGED <<proxyVars, diskVars, lossVars>>

------------------------------------------------------------------------------
(* The proxy: CENTRAL_FILE_META *)

\* load_central_checkpoint: both files exist, .part has its size, every
\* parameter agrees and the section is not past the end.
Loaded(l) == IF /\ checkpoint.limit = l /\ part = "full"
                /\ checkpoint.next < SectionCount(l)
             THEN checkpoint.next ELSE 0

\* The function is left by an exception: the accept loop closes the connection.
ProxyThrows(frames) ==
    /\ proxy' = "accept" /\ up' = FALSE
    /\ toProxy' = <<>> /\ toCentral' = Send(toCentral, frames) /\ UNCHANGED deaf

\* open(2) of .part: truncated unless a checkpoint says where to go on.
OpenPart(l) ==
    IF Loaded(l) = 0
    THEN part' = "short" /\ written' = {} /\ synced' = {}
    ELSE UNCHANGED <<part, written, synced>>

ReadMeta ==
    /\ proxy = "meta" /\ toProxy # <<>> /\ Head(toProxy).type = "META"
    /\ LET l == Head(toProxy).limit
       IN  /\ toProxy' = Tail(toProxy)
           /\ IF cached
              THEN /\ toCentral' = Send(toCentral, <<Resume(SectionCount(l), "good")>>)
                   /\ Notices("proxy")
                   /\ UNCHANGED <<proxyVars, diskVars, leftBehind>>
              ELSE /\ proxy' = "size" /\ meta' = l /\ next' = Loaded(l)
                   /\ received' = {} /\ rejected' = FALSE /\ handed' = {}
                   /\ OpenPart(l)
                   /\ leftBehind' = (leftBehind \/ (checkpoint # NoCheckpoint /\ Loaded(l) = 0))
                   /\ UNCHANGED <<toCentral, deaf, checkpoint, cached>>
    /\ UNCHANGED <<centralVars, up, faults, lossVars>>

\* MUTANT: the sections of an earlier run are not handed out again.
SizePartOnly ==
    /\ proxy = "size"
    /\ part' = "full"
    /\ received' = BlocksBefore(next, meta) /\ handed' = {}
    /\ toCentral' = Send(toCentral, <<Resume(next, "none")>>) /\ Notices("proxy")
    /\ proxy' = "read"
    /\ UNCHANGED <<centralVars, up, toProxy, meta, next, rejected, written, synced,
                   checkpoint, cached, envVars>>

\* ftruncate(2), the bitmap, CENTRAL_RESUME, and the sections that are already
\* in the cache are handed to the receivers again.
SizePart ==
    /\ proxy = "size"
    /\ part' = "full"
    /\ received' = BlocksBefore(next, meta) /\ handed' = 0 .. next - 1
    /\ toCentral' = Send(toCentral, <<Resume(next, "none")>>) /\ Notices("proxy")
    /\ proxy' = "read"
    /\ UNCHANGED <<centralVars, up, toProxy, meta, next, rejected, written, synced,
                   checkpoint, cached, envVars>>

\* begin_receiver_transfer throws: the receivers are not ready for the file.
BeginFails ==
    /\ proxy = "size" /\ Spend("fail")
    /\ part' = "full"
    /\ ProxyThrows(<<>>)
    /\ UNCHANGED <<centralVars, meta, next, received, rejected, handed, written, synced,
                   checkpoint, cached, lossVars>>

------------------------------------------------------------------------------
(* The proxy: blocks and sections *)

ReadData ==
    /\ proxy = "read" /\ toProxy # <<>> /\ Head(toProxy).type = "DATA"
    /\ LET f == Head(toProxy)
           fits == /\ f.block < TotalBlocks /\ f.section = next
                   /\ f.section = SectionIdForBlock(f.block, meta)
       IN  /\ rejected' = (rejected \/ ~fits)
           /\ IF fits /\ f.block \notin received
              THEN received' = received \cup {f.block} /\ written' = written \cup {f.block}
              ELSE UNCHANGED <<received, written>>
    /\ toProxy' = Tail(toProxy)
    /\ UNCHANGED <<centralVars, up, toCentral, deaf, proxy, meta, next, handed, part,
                   synced, checkpoint, cached, envVars>>

\* CENTRAL_FILE_END of a section that is complete, if no block was rejected.
ReadFileEnd ==
    /\ proxy = "read" /\ toProxy # <<>> /\ Head(toProxy).type = "FILE_END"
    /\ IF /\ Head(toProxy).section = next /\ ~rejected
          /\ Blocks(next, meta) \subseteq received
       THEN proxy' = "sync" /\ toProxy' = Tail(toProxy) /\ UNCHANGED <<up, toCentral, deaf>>
       ELSE ProxyThrows(<<Status("Failed", "none")>>)
    /\ UNCHANGED <<centralVars, meta, next, received, rejected, handed, diskVars,
                   envVars>>

IsFinal == next + 1 = SectionCount(meta)

\* MUTANT: the checkpoint is written before the data is synced.
SyncLater ==
    /\ proxy = "sync"
    /\ proxy' = IF IsFinal THEN "enqueue" ELSE "checkpoint"
    /\ UNCHANGED <<centralVars, connVars, meta, next, received, rejected, handed,
                   diskVars, envVars>>

Sync ==
    /\ proxy = "sync"
    /\ synced' = written
    /\ proxy' = IF IsFinal THEN "enqueue" ELSE "checkpoint"
    /\ UNCHANGED <<centralVars, connVars, meta, next, received, rejected, handed, part,
                   written, checkpoint, cached, envVars>>

\* MUTANT: the section is confirmed without a checkpoint.
CheckpointSkipped ==
    /\ proxy = "checkpoint"
    /\ proxy' = "enqueue"
    /\ UNCHANGED <<centralVars, connVars, meta, next, received, rejected, handed,
                   diskVars, envVars>>

\* save_central_checkpoint: .tmp, then rename.
SaveCheckpoint ==
    /\ proxy = "checkpoint"
    /\ checkpoint' = [limit |-> meta, next |-> next + 1]
    /\ proxy' = "enqueue"
    /\ UNCHANGED <<centralVars, connVars, meta, next, received, rejected, handed, part,
                   written, synced, cached, envVars>>

\* enqueue_section; the last section is followed by complete_dispatch.
EnqueueSection ==
    /\ proxy = "enqueue"
    /\ handed' = handed \cup {next}
    /\ proxy' = IF IsFinal THEN "verify" ELSE "reply"
    /\ UNCHANGED <<centralVars, connVars, meta, next, received, rejected, diskVars,
                   envVars>>

\* The dispatch worker failed: before a frame is read, after it was, or at the
\* next hand-over that throws; not in the read itself.
DispatchFails ==
    /\ proxy \in {"read", "enqueue", "verify"} /\ Spend("fail")
    /\ proxy = "read" => up \/ toProxy # <<>>
    /\ ProxyThrows(<<Status("Failed", "none")>>)
    /\ UNCHANGED <<centralVars, meta, next, received, rejected, handed, diskVars,
                   lossVars>>

\* A receiver that connected again and stays silent is read without a limit (the
\* SessionHang run of ControlSession): META_READY never comes, the worker never ends
\* and neither a full queue nor a join returns, the join of stop_dispatch after a lost
\* connection included.
DistributionHangs ==
    /\ \/ proxy \in {"size", "enqueue", "final"}
       \/ proxy = "read" /\ ~up /\ toProxy = <<>> /\ "proxy" \notin deaf
    /\ Spend("fail")
    /\ proxy' = "hung"
    /\ UNCHANGED <<centralVars, connVars, meta, next, received, rejected, handed,
                   diskVars, lossVars>>

Reply ==
    /\ proxy = "reply"
    /\ IF up THEN /\ toCentral' = Send(toCentral, <<Status("Cached", "none")>>)
                  /\ proxy' = "read" /\ next' = next + 1
                  /\ UNCHANGED <<up, toProxy, deaf>>
             ELSE ProxyThrows(<<>>) /\ UNCHANGED next
    /\ UNCHANGED <<centralVars, meta, received, rejected, handed, diskVars, envVars>>

------------------------------------------------------------------------------
(* The proxy: the whole file *)

\* MUTANT: the digest is not compared.
VerifySkipped ==
    /\ proxy = "verify"
    /\ synced' = written
    /\ proxy' = "rename" /\ UNCHANGED connVars
    /\ UNCHANGED <<centralVars, meta, next, received, rejected, handed, part, written,
                   checkpoint, cached, envVars>>

\* fsync and SHA-256 of .part.
Verify ==
    /\ proxy = "verify"
    /\ synced' = written
    /\ IF written = AllBlocks THEN proxy' = "rename" /\ UNCHANGED connVars
       ELSE ProxyThrows(<<Status("Failed", "bad")>>)
    /\ UNCHANGED <<centralVars, meta, next, received, rejected, handed, part, written,
                   checkpoint, cached, envVars>>

\* .part becomes the cached file; its content is told apart by `written'.
RenamePart ==
    /\ proxy = "rename"
    /\ cached' = TRUE /\ part' = "absent"
    /\ proxy' = "unlink"
    /\ UNCHANGED <<centralVars, connVars, meta, next, received, rejected, handed,
                   written, synced, checkpoint, envVars>>

\* The checkpoint is removed; then backfill and retries for slow receivers.
RemoveCheckpoint ==
    /\ proxy = "unlink"
    /\ checkpoint' = NoCheckpoint
    /\ proxy' = "final"
    /\ UNCHANGED <<centralVars, connVars, meta, next, received, rejected, handed, part,
                   written, synced, cached, envVars>>

FinalReply ==
    /\ proxy = "final"
    /\ IF up THEN /\ toCentral' = Send(toCentral, <<Status("Cached", "good")>>)
                  /\ proxy' = "meta"
                  /\ UNCHANGED <<up, toProxy, deaf>>
             ELSE ProxyThrows(<<>>)
    /\ UNCHANGED <<centralVars, meta, next, received, rejected, handed, diskVars,
                   envVars>>

\* The barrier of the receivers after the last status throws.
BarrierFails ==
    /\ proxy = "final" /\ Spend("fail")
    /\ ProxyThrows(<<Status("Cached", "good")>>)
    /\ UNCHANGED <<centralVars, meta, next, received, rejected, handed, diskVars,
                   lossVars>>

ReadSessionEnd ==
    /\ proxy = "meta" /\ toProxy # <<>> /\ Head(toProxy).type = "SESSION_END"
    /\ proxy' = "ended" /\ up' = FALSE /\ toProxy' = <<>> /\ UNCHANGED <<toCentral, deaf>>
    /\ UNCHANGED <<centralVars, meta, next, received, rejected, handed, diskVars,
                   envVars>>

\* A read from a closed connection, if the proxy gets to know of it.
ProxyLosesConnection ==
    /\ proxy \in {"meta", "read"} /\ ~up /\ toProxy = <<>>
    /\ "proxy" \notin deaf
    /\ ProxyThrows(<<>>)
    /\ UNCHANGED <<centralVars, meta, next, received, rejected, handed, diskVars,
                   envVars>>

------------------------------------------------------------------------------
(* Faults *)

\* The connection breaks, with everything that is on its way.
Break ==
    /\ up /\ Spend("break")
    /\ up' = FALSE /\ toProxy' = <<>> /\ toCentral' = <<>>
    /\ deaf' \in SUBSET {"central", "proxy"}
    /\ UNCHANGED <<centralVars, proxyVars, diskVars, lossVars>>

\* The kernel commits the names and the small checkpoint to the disk.  Until then
\* the file a power loss would leave may have its old name.
Writeback ==
    LET name == IF cached THEN "cached" ELSE IF part = "absent" THEN "none" ELSE "part"
        now == [name |-> name, checkpoint |-> checkpoint]
    IN  disk # now /\ disk' = now
    /\ UNCHANGED <<centralVars, connVars, proxyVars, diskVars, faults, leftBehind,
                   powerLost>>

Down ==
    /\ proxy \notin {"down", "ended"} /\ Spend("crash")
    /\ proxy' = "down" /\ up' = FALSE /\ toProxy' = <<>>
    /\ received' = {} /\ rejected' = FALSE /\ handed' = {} /\ next' = 0 /\ meta' = 0
    /\ UNCHANGED <<centralVars, toCentral>>

\* kill -9: the page cache survives, and the kernel closes the connection.
Kill == Down /\ Notices("proxy") /\ UNCHANGED <<diskVars, lossVars>>

\* The file under the name the disk has for it, with every synced byte and any of
\* the others; its size came with the first of them.
FileFromDisk ==
    /\ cached' = (disk.name = "cached")
    /\ CASE disk.name = "none" -> part' = "absent" /\ written' = {} /\ synced' = {}
         [] disk.name = "part" ->
              /\ part' \in IF synced = {} THEN {"short", "full"} ELSE {"full"}
              /\ \E lost \in SUBSET (written \ synced) : written' = written \ lost
              /\ UNCHANGED synced
         [] OTHER -> part' = "absent" /\ UNCHANGED <<written, synced>>

\* The checkpoint was never synced: it is the last one committed, or its name without
\* its contents, which does not load.  The central sender may not hear of it.
PowerLoss ==
    /\ Down
    /\ FileFromDisk
    /\ checkpoint' \in {disk.checkpoint, NoCheckpoint}
    /\ disk' = [name |-> disk.name, checkpoint |-> checkpoint']
    /\ powerLost' = TRUE
    /\ deaf' \in IF up THEN SUBSET {"central"} ELSE {deaf \ {"proxy"}}

ProxyRestart ==
    /\ proxy = "down" /\ proxy' = "accept"
    /\ UNCHANGED <<centralVars, connVars, meta, next, received, rejected, handed,
                   diskVars, envVars>>

------------------------------------------------------------------------------
Init ==
    /\ central = "connect" /\ limit \in Limits /\ section = 0 /\ confirmed = 0
    /\ up = FALSE /\ toProxy = <<>> /\ toCentral = <<>> /\ deaf = {}
    /\ proxy = "accept" /\ meta = 0 /\ next = 0
    /\ received = {} /\ rejected = FALSE /\ handed = {}
    /\ part = "absent" /\ written = {} /\ synced = {}
    /\ checkpoint = NoCheckpoint /\ cached = FALSE
    /\ disk = [name |-> "none", checkpoint |-> NoCheckpoint]
    /\ faults = [break |-> MaxBreaks, crash |-> MaxCrashes, restart |-> MaxRestarts,
                 fail |-> MaxFailures]
    /\ leftBehind = FALSE /\ powerLost = FALSE

CentralStep ==
    \/ Connect \/ ReadResume \/ SendSection \/ ReadStatus \/ CentralLosesConnection
    \/ EndSession

ProxyStep ==
    \/ ReadMeta \/ SizePart \/ ReadData \/ ReadFileEnd \/ Sync \/ SaveCheckpoint
    \/ EnqueueSection \/ Reply \/ Verify \/ RenamePart \/ RemoveCheckpoint
    \/ FinalReply \/ ReadSessionEnd \/ ProxyLosesConnection \/ ProxyRestart

Fault ==
    \/ CentralRestart \/ BeginFails \/ DispatchFails \/ DistributionHangs
    \/ BarrierFails \/ Break \/ Kill \/ PowerLoss

\* Someone waits for what nobody will send: a read on a connection whose loss was
\* not announced, or a distribution that never ends.
Unheard ==
    \/ central \in {"resume", "status"} /\ toCentral = <<>> /\ "central" \in deaf
    \/ proxy \in {"meta", "read"} /\ toProxy = <<>> /\ "proxy" \in deaf
    \/ proxy = "hung"

\* The central sender has nothing left to do and the proxy may wait for ever, or
\* somebody is not heard.
Over ==
    /\ Unheard \/ (central = "exited" /\ proxy \in {"accept", "ended"})
    /\ UNCHANGED vars

Next == CentralStep \/ ProxyStep \/ Fault \/ Writeback \/ Over

\* Both programs go on as long as they can: the central sender reconnects for
\* ever, and a proxy that died is started again.  Nothing makes the end of a read
\* on a deaf connection, or of a distribution that hangs.
Fairness == WF_vars(CentralStep) /\ WF_vars(ProxyStep)

Spec == Init /\ [][Next]_vars /\ Fairness

------------------------------------------------------------------------------
(* Properties *)

CentralFrames ==
    [type : {"RESUME"}, next : 0 .. TotalBlocks, digest : {"good", "none"}]
    \cup [type : {"STATUS"}, code : {"Cached", "Failed"}, digest : {"good", "none", "bad"}]

ProxyFrames ==
    [type : {"META"}, limit : Limits]
    \cup [type : {"DATA"}, section : Nat, block : AllBlocks]
    \cup [type : {"FILE_END"}, section : Nat]
    \cup [type : {"SESSION_END"}]

\* The shape of every variable.
TypeOK ==
    /\ central \in {"connect", "resume", "send", "status", "sent", "exited"}
    /\ limit \in Limits /\ section \in Nat /\ confirmed \in Nat
    /\ up \in BOOLEAN /\ deaf \subseteq {"central", "proxy"}
    /\ \A i \in 1 .. Len(toProxy) : toProxy[i] \in ProxyFrames
    /\ \A i \in 1 .. Len(toCentral) : toCentral[i] \in CentralFrames
    /\ proxy \in {"accept", "meta", "size", "read", "sync", "checkpoint", "enqueue",
                  "reply", "verify", "rename", "unlink", "final", "ended", "down", "hung"}
    /\ meta \in Limits \cup {0} /\ next \in Nat /\ handed \subseteq Nat
    /\ received \subseteq AllBlocks /\ rejected \in BOOLEAN
    /\ part \in {"absent", "short", "full"}
    /\ written \subseteq AllBlocks /\ synced \subseteq AllBlocks
    /\ checkpoint \in [limit : Limits \cup {0}, next : Nat]
    /\ cached \in BOOLEAN
    /\ disk \in [name : {"none", "part", "cached"},
                 checkpoint : [limit : Limits \cup {0}, next : Nat]]
    /\ faults \in Budget /\ leftBehind \in BOOLEAN /\ powerLost \in BOOLEAN

\* The checkpoint never runs ahead of the data: the sections before it are in
\* the .part file it would be used with, even after a power loss, whichever
\* checkpoint it left.
CheckpointIsSound ==
    ~leftBehind /\ part = "full" =>
        BlocksBefore(checkpoint.next, checkpoint.limit) \subseteq synced

\* Whatever the checkpoint said, the cached file has every byte right.
CachedIsVerified == cached => written = AllBlocks

\* The cached file appears only after every section, those of an earlier run
\* included, was handed to the receivers by the process that renames it.
CachedWasHandedOut ==
    proxy \in {"rename", "unlink", "final"} => handed = 0 .. SectionCount(meta) - 1

\* "A killed proxy loses no committed section" (the comment of
\* save_central_checkpoint): the central sender sends no section twice that was
\* confirmed to it, however often the connection broke and the proxy was killed
\* since.  A power loss may take that back, and `confirmed' starts anew behind it.
ConfirmedIsNotResent ==
    [][central = "resume" /\ central' = "send" => section' >= confirmed]_vars

\* "The files of a site are processed in order": the central sender ends up
\* with the whole file confirmed, whatever file and whatever faults.
EveryFileIsConfirmed == <>(central = "exited" /\ cached)

\* The central sender ends up with the whole file confirmed, and the file in the
\* cache unless the proxy lost power in between; or a checkpoint was left behind;
\* or somebody is not heard from some time on, because no read of either program
\* has a limit on this connection.
FileIsConfirmed ==
    \/ <>(leftBehind \/ (central = "sent" /\ (cached \/ powerLost)))
    \/ <>[]Unheard
==============================================================================
