-------------------------- MODULE CentralCache_proof --------------------------
(***************************************************************************)
(* Proofs about CentralCache, for every file, every --section-blocks, and  *)
(* any number of broken connections, crashes, power losses and restarts:   *)
(* the cached file has every byte right, every section was handed to the   *)
(* receivers before it appeared, the checkpoint never runs ahead of the    *)
(* data.  Until the power fails, and nothing more was promised, what was   *)
(* confirmed to the central sender is not sent again, however often the    *)
(* proxy is killed.  None of it needs the section count not to wrap.       *)
(***************************************************************************)
EXTENDS CentralCache, SectionMath_proof, SequenceTheorems, TLAPS

------------------------------------------------------------------------------
(* The inductive invariant *)

Resting == {"accept", "meta", "ended", "down", "hung"}

\* The proxy is at a file: from the opening of .part to its rename.
AtFile == {"size", "read", "sync", "checkpoint", "enqueue", "reply", "verify", "rename"}

DiskTyped ==
    /\ part \in {"absent", "short", "full"}
    /\ next \in Nat /\ checkpoint.next \in Nat
    /\ proxy \in AtFile \cup Resting \cup {"unlink", "final"}
    /\ proxy \in AtFile => part # "absent"

\* The digest was compared before the rename; the bytes were synced, so no power
\* loss takes one back, and a file is not opened for writing while it is cached.
CacheVerified ==
    /\ proxy = "rename" => written = AllBlocks /\ synced = written
    /\ cached => written = AllBlocks /\ synced = written /\ proxy \notin AtFile
    /\ proxy \in {"unlink", "final"} => cached

\* The sections handed to the receivers, wherever the proxy is in a section.
HandedInOrder ==
    /\ proxy \in {"read", "sync", "checkpoint", "enqueue"} => handed = 0 .. next - 1
    /\ proxy = "reply" => handed = 0 .. next
    /\ proxy = "verify" => handed = 0 .. next /\ next + 1 = SectionCount(meta)
    /\ proxy \in {"rename", "unlink", "final"} => handed = 0 .. SectionCount(meta) - 1

Sound(c) == BlocksBefore(c.next, c.limit) \subseteq synced

\* What is synced, wherever the proxy is in a section.
SyncedInOrder ==
    /\ synced \subseteq written
    /\ ~leftBehind => Sound(checkpoint)
    /\ ~leftBehind /\ proxy \in {"size", "read", "sync"} => BlocksBefore(next, meta) \subseteq synced
    /\ ~leftBehind /\ proxy \in {"read", "sync"} => received \subseteq written
    /\ proxy = "sync" => Blocks(next, meta) \subseteq received
    /\ ~leftBehind /\ proxy \in {"checkpoint", "enqueue", "reply"} =>
         received \subseteq written /\ BlocksBefore(next + 1, meta) \subseteq synced

Inv == DiskTyped /\ CacheVerified /\ HandedInOrder /\ SyncedInOrder

\* What a power loss would leave: a checkpoint that is no more ahead of the data than
\* the one in memory, and the final name only of a file that has it.  A checkpoint the
\* disk still has while memory has none belongs to a file that was renamed.
Committed ==
    /\ disk.name \in {"none", "part", "cached"} /\ disk.checkpoint.next \in Nat
    /\ disk.name = "cached" => cached
    /\ disk.name = "none" => disk.checkpoint = NoCheckpoint
    /\ part = "absent" /\ ~cached => checkpoint = NoCheckpoint
    /\ ~cached /\ disk.checkpoint # NoCheckpoint => checkpoint # NoCheckpoint
    /\ ~leftBehind => Sound(disk.checkpoint)

------------------------------------------------------------------------------
(* Lemmas *)

LEMMA NoBlocksBefore == \A l : BlocksBefore(0, l) = {}
  BY DEF BlocksBefore

LEMMA OneSectionMore ==
    ASSUME NEW s \in Nat, NEW l
    PROVE  BlocksBefore(s + 1, l) = BlocksBefore(s, l) \cup Blocks(s, l)
<1>1. 0 .. (s + 1) - 1 = (0 .. s - 1) \cup {s}
  OBVIOUS
<1> QED
  BY <1>1 DEF BlocksBefore

\* The proxy waits, for whatever reason, and its disk is left alone.
LEMMA ProxyRests ==
    ASSUME Inv, proxy' \in Resting, next' \in Nat,
           UNCHANGED <<part, written, synced, checkpoint, cached, leftBehind>>
    PROVE  Inv'
<1>1. DiskTyped'
  BY DEF Inv, DiskTyped, AtFile, Resting
<1>2. CacheVerified'
  BY DEF Inv, CacheVerified, AtFile, Resting
<1>3. HandedInOrder'
  BY DEF HandedInOrder, Resting
<1>4. SyncedInOrder'
  BY DEF Inv, SyncedInOrder, Resting, Sound
<1> QED
  BY <1>1, <1>2, <1>3, <1>4 DEF Inv

\* The proxy and its disk are left alone.
LEMMA ProxyKept == ASSUME Inv, UNCHANGED <<proxyVars, diskVars, leftBehind>> PROVE Inv'
<1>1. UNCHANGED <<proxy, meta, next, received, handed, part, written, synced, checkpoint,
                  cached, leftBehind>>
  BY DEF proxyVars, diskVars
<1>2. DiskTyped' /\ CacheVerified'
  BY <1>1 DEF Inv, DiskTyped, CacheVerified
<1>3. HandedInOrder'
  BY <1>1 DEF Inv, HandedInOrder
<1>4. SyncedInOrder'
  BY <1>1 DEF Inv, SyncedInOrder, Sound
<1> QED
  BY <1>2, <1>3, <1>4 DEF Inv

------------------------------------------------------------------------------
(* The steps *)

LEMMA CentralInv ==
    ASSUME Inv, CentralStep \/ CentralRestart \/ Break \/ Writeback \/ Over \/ UNCHANGED vars
    PROVE  Inv'
<1>1. CASE Connect
  <2>1. /\ proxy' \in Resting
        /\ UNCHANGED <<next, part, written, synced, checkpoint, cached, leftBehind>>
    BY <1>1 DEF Connect, diskVars, envVars, Resting
  <2>2. next' \in Nat
    BY <2>1 DEF Inv, DiskTyped
  <2> QED
    BY <2>1, <2>2, ProxyRests
<1>2. CASE UNCHANGED <<proxyVars, diskVars, leftBehind>>
  BY <1>2, ProxyKept
<1> QED
  BY <1>1, <1>2 DEF CentralStep, ReadResume, SendSection, ReadStatus, CentralLosesConnection,
                    EndSession, CentralRestart, Break, Writeback, Over, vars, envVars, Spend

\* An exception of the proxy, the end of its session, a kill, a distribution that
\* never ends.
LEMMA LeavesInv ==
    ASSUME Inv,
           \/ ReadSessionEnd \/ ProxyLosesConnection \/ DispatchFails \/ DistributionHangs
           \/ BarrierFails \/ Kill \/ ProxyRestart
    PROVE  Inv'
<1>1. proxy' \in Resting /\ next' \in {next, 0}
  BY DEF ReadSessionEnd, ProxyLosesConnection, DispatchFails, DistributionHangs, BarrierFails,
         Kill, Down, ProxyRestart, ProxyThrows, Resting
<1>2. UNCHANGED <<part, written, synced, checkpoint, cached, leftBehind>>
  BY DEF ReadSessionEnd, ProxyLosesConnection, DispatchFails, DistributionHangs, BarrierFails,
         Kill, Down, ProxyRestart, Spend, diskVars, envVars
<1>3. next' \in Nat
  BY <1>1 DEF Inv, DiskTyped
<1> QED
  BY <1>1, <1>2, <1>3, ProxyRests

\* A power loss takes the names and the checkpoint back to what was committed, and
\* bytes that were not synced.
LEMMA PowerLossInv == ASSUME Inv, Committed, PowerLoss PROVE Inv'
<1>1. /\ proxy' = "down" /\ next' = 0 /\ UNCHANGED leftBehind
      /\ checkpoint' \in {disk.checkpoint, NoCheckpoint} /\ FileFromDisk
  BY DEF PowerLoss, Down, Spend
<1>2. cached' = (disk.name = "cached") /\ disk.name \in {"none", "part", "cached"}
  BY <1>1 DEF FileFromDisk, Committed
<1>3. part' \in {"absent", "short", "full"}
  BY <1>1, <1>2 DEF FileFromDisk
<1>4. checkpoint'.next \in Nat
  BY <1>1 DEF Committed, NoCheckpoint
<1>5. DiskTyped'
  BY <1>1, <1>3, <1>4 DEF DiskTyped, AtFile, Resting
<1>6. CacheVerified'
  <2>1. cached' => cached /\ UNCHANGED <<written, synced>>
    BY <1>1, <1>2 DEF FileFromDisk, Committed
  <2> QED
    BY <1>1, <2>1 DEF Inv, CacheVerified, AtFile
<1>7. HandedInOrder'
  BY <1>1 DEF HandedInOrder
<1>8. synced' \subseteq written' /\ (disk.name = "none" \/ synced' = synced)
  BY <1>1, <1>2 DEF FileFromDisk, Inv, SyncedInOrder
<1>9. ASSUME ~leftBehind' PROVE Sound(checkpoint)'
  <2>1. CASE checkpoint' = NoCheckpoint
    <3>1. checkpoint'.next = 0
      BY <2>1 DEF NoCheckpoint
    <3>2. BlocksBefore(checkpoint'.next, checkpoint'.limit) = {}
      BY <3>1, NoBlocksBefore
    <3> QED
      BY <3>2 DEF Sound
  <2>2. CASE checkpoint' # NoCheckpoint
    <3>1. checkpoint' = disk.checkpoint /\ synced' = synced
      BY <1>1, <1>8, <2>2 DEF Committed
    <3>2. Sound(disk.checkpoint)
      BY <1>1, <1>9 DEF Committed
    <3> QED
      BY <3>1, <3>2 DEF Sound
  <2> QED
    BY <2>1, <2>2
<1>10. SyncedInOrder'
  BY <1>1, <1>8, <1>9 DEF SyncedInOrder
<1> QED
  BY <1>5, <1>6, <1>7, <1>10 DEF Inv

\* CENTRAL_FILE_META: a checkpoint that is used is sound, and one that is refused
\* counts as left behind.
LEMMA ReadMetaInv == ASSUME Inv, ReadMeta PROVE Inv'
<1> DEFINE l == Head(toProxy).limit
<1>1. proxy = "meta"
  BY DEF ReadMeta
<1>2. CASE UNCHANGED <<proxyVars, diskVars, leftBehind>>
  BY <1>2, ProxyKept
<1>3. CASE /\ ~cached /\ proxy' = "size" /\ meta' = l /\ next' = Loaded(l)
           /\ received' = {} /\ handed' = {}
           /\ OpenPart(l)
           /\ leftBehind' = (leftBehind \/ (checkpoint # NoCheckpoint /\ Loaded(l) = 0))
           /\ UNCHANGED <<checkpoint, cached>>
  <2> HIDE DEF l
  <2>1. CASE Loaded(l) = 0
    <3>1. part' = "short" /\ written' = {} /\ synced' = {} /\ next' = 0
      BY <1>3, <2>1 DEF OpenPart
    <3>2. DiskTyped'
      BY <1>3, <3>1 DEF Inv, DiskTyped, AtFile
    <3>3. CacheVerified' /\ HandedInOrder'
      BY <1>3 DEF CacheVerified, HandedInOrder
    <3>4. BlocksBefore(next', meta') \subseteq synced'
      BY <3>1, NoBlocksBefore
    <3>5. ASSUME ~leftBehind' PROVE Sound(checkpoint)'
      <4>1. checkpoint' = NoCheckpoint
        BY <1>3, <2>1, <3>5
      <4>2. BlocksBefore(checkpoint'.next, checkpoint'.limit) = {}
        BY <4>1, NoBlocksBefore DEF NoCheckpoint
      <4> QED
        BY <4>2 DEF Sound
    <3>6. SyncedInOrder'
      BY <1>3, <3>1, <3>4, <3>5 DEF SyncedInOrder
    <3> QED
      BY <3>2, <3>3, <3>6 DEF Inv
  <2>2. CASE Loaded(l) # 0
    <3>1. /\ checkpoint.limit = l /\ part = "full" /\ next' = checkpoint.next
          /\ UNCHANGED <<part, written, synced>>
      BY <1>3, <2>2 DEF OpenPart, Loaded
    <3>a. ~leftBehind' => ~leftBehind
      BY <1>3
    <3>2. DiskTyped'
      BY <1>3, <3>1 DEF Inv, DiskTyped, AtFile
    <3>3. CacheVerified' /\ HandedInOrder'
      BY <1>3 DEF CacheVerified, HandedInOrder
    <3>4. ~leftBehind => Sound(checkpoint) /\ BlocksBefore(next', meta') \subseteq synced
      BY <1>3, <3>1 DEF Inv, SyncedInOrder, Sound
    <3>5. SyncedInOrder'
      BY <1>3, <3>1, <3>a, <3>4 DEF Inv, SyncedInOrder, Sound
    <3> QED
      BY <3>2, <3>3, <3>5 DEF Inv
  <2> QED
    BY <2>1, <2>2
<1> QED
  BY <1>2, <1>3 DEF ReadMeta, proxyVars, diskVars, envVars

LEMMA SizePartInv == ASSUME Inv, SizePart PROVE Inv'
<1>1. /\ proxy = "size" /\ proxy' = "read" /\ part' = "full"
      /\ received' = BlocksBefore(next, meta) /\ handed' = 0 .. next - 1
      /\ UNCHANGED <<meta, next, written, synced, checkpoint, cached, leftBehind>>
  BY DEF SizePart, envVars
<1>2. DiskTyped' /\ CacheVerified'
  BY <1>1 DEF Inv, DiskTyped, CacheVerified, AtFile
<1>3. HandedInOrder'
  BY <1>1 DEF HandedInOrder
<1>4. ~leftBehind => Sound(checkpoint) /\ BlocksBefore(next, meta) \subseteq synced
  BY <1>1 DEF Inv, SyncedInOrder, DiskTyped, AtFile
<1>5. SyncedInOrder'
  BY <1>1, <1>4 DEF Inv, SyncedInOrder, Sound
<1> QED
  BY <1>2, <1>3, <1>5 DEF Inv

LEMMA BeginFailsInv == ASSUME Inv, BeginFails PROVE Inv'
<1>1. /\ proxy = "size" /\ proxy' = "accept" /\ part' = "full"
      /\ UNCHANGED <<next, written, synced, checkpoint, cached, leftBehind>>
  BY DEF BeginFails, ProxyThrows, Spend
<1>2. DiskTyped' /\ CacheVerified' /\ HandedInOrder'
  BY <1>1 DEF Inv, DiskTyped, CacheVerified, HandedInOrder, AtFile, Resting
<1>3. ~leftBehind => Sound(checkpoint)
  BY <1>1 DEF Inv, SyncedInOrder, DiskTyped, AtFile
<1>4. SyncedInOrder'
  BY <1>1, <1>3 DEF Inv, SyncedInOrder, Sound
<1> QED
  BY <1>2, <1>4 DEF Inv

LEMMA ReadDataInv == ASSUME Inv, ReadData PROVE Inv'
<1>1. /\ proxy = "read" /\ UNCHANGED <<proxy, meta, next, handed, part, synced, checkpoint,
                                       cached, leftBehind>>
      /\ \/ UNCHANGED <<received, written>>
         \/ \E b : received' = received \cup {b} /\ written' = written \cup {b}
  BY DEF ReadData, envVars
<1>2. DiskTyped' /\ CacheVerified' /\ HandedInOrder'
  BY <1>1 DEF Inv, DiskTyped, CacheVerified, HandedInOrder, AtFile
<1>3. SyncedInOrder'
  BY <1>1 DEF Inv, SyncedInOrder, Sound
<1> QED
  BY <1>2, <1>3 DEF Inv

LEMMA ReadFileEndInv == ASSUME Inv, ReadFileEnd PROVE Inv'
<1>1. /\ proxy = "read"
      /\ UNCHANGED <<meta, next, received, handed, part, written, synced, checkpoint, cached,
                     leftBehind>>
      /\ \/ proxy' = "sync" /\ Blocks(next, meta) \subseteq received
         \/ proxy' = "accept"
  BY DEF ReadFileEnd, ProxyThrows, diskVars, envVars
<1>2. CASE proxy' = "accept"
  <2>1. next' \in Nat
    BY <1>1 DEF Inv, DiskTyped
  <2> QED
    BY <1>1, <1>2, <2>1, ProxyRests DEF Resting
<1>3. CASE proxy' = "sync" /\ Blocks(next, meta) \subseteq received
  <2>1. DiskTyped' /\ CacheVerified' /\ HandedInOrder'
    BY <1>1, <1>3 DEF Inv, DiskTyped, CacheVerified, HandedInOrder, AtFile
  <2>2. SyncedInOrder'
    BY <1>1, <1>3 DEF Inv, SyncedInOrder, Sound
  <2> QED
    BY <2>1, <2>2 DEF Inv
<1> QED
  BY <1>1, <1>2, <1>3

LEMMA SyncInv == ASSUME Inv, Sync PROVE Inv'
<1>1. /\ proxy = "sync" /\ synced' = written /\ proxy' \in {"enqueue", "checkpoint"}
      /\ UNCHANGED <<meta, next, received, handed, part, written, checkpoint, cached, leftBehind>>
  BY DEF Sync, envVars
<1>2. DiskTyped' /\ CacheVerified' /\ HandedInOrder'
  BY <1>1 DEF Inv, DiskTyped, CacheVerified, HandedInOrder, AtFile
<1>3. ~leftBehind => BlocksBefore(next + 1, meta) \subseteq written
  <2>1. BlocksBefore(next + 1, meta) = BlocksBefore(next, meta) \cup Blocks(next, meta)
    BY OneSectionMore DEF Inv, DiskTyped
  <2> QED
    BY <1>1, <2>1 DEF Inv, SyncedInOrder
<1>4. SyncedInOrder'
  BY <1>1, <1>3 DEF Inv, SyncedInOrder, Sound
<1> QED
  BY <1>2, <1>4 DEF Inv

LEMMA SaveCheckpointInv == ASSUME Inv, SaveCheckpoint PROVE Inv'
<1>1. /\ proxy = "checkpoint" /\ proxy' = "enqueue"
      /\ checkpoint' = [limit |-> meta, next |-> next + 1]
      /\ UNCHANGED <<meta, next, received, handed, part, written, synced, cached, leftBehind>>
  BY DEF SaveCheckpoint, envVars
<1>2. DiskTyped' /\ CacheVerified' /\ HandedInOrder'
  BY <1>1 DEF Inv, DiskTyped, CacheVerified, HandedInOrder, AtFile
<1>3. SyncedInOrder'
  BY <1>1 DEF Inv, SyncedInOrder, Sound
<1> QED
  BY <1>2, <1>3 DEF Inv

LEMMA EnqueueSectionInv == ASSUME Inv, EnqueueSection PROVE Inv'
<1>1. /\ proxy = "enqueue" /\ handed' = handed \cup {next}
      /\ \/ next + 1 = SectionCount(meta) /\ proxy' = "verify"
         \/ proxy' = "reply"
      /\ UNCHANGED <<meta, next, received, part, written, synced, checkpoint, cached, leftBehind>>
  BY DEF EnqueueSection, IsFinal, diskVars, envVars
<1>2. handed' = 0 .. next
  BY <1>1 DEF Inv, HandedInOrder, DiskTyped
<1>3. DiskTyped' /\ CacheVerified'
  BY <1>1 DEF Inv, DiskTyped, CacheVerified, AtFile
<1>4. HandedInOrder'
  BY <1>1, <1>2 DEF HandedInOrder
<1>5. SyncedInOrder'
  BY <1>1 DEF Inv, SyncedInOrder, Sound
<1> QED
  BY <1>3, <1>4, <1>5 DEF Inv

LEMMA ReplyInv == ASSUME Inv, Reply PROVE Inv'
<1>1. /\ proxy = "reply"
      /\ UNCHANGED <<meta, received, handed, part, written, synced, checkpoint, cached, leftBehind>>
      /\ \/ proxy' = "read" /\ next' = next + 1
         \/ proxy' = "accept" /\ next' = next
  BY DEF Reply, ProxyThrows, diskVars, envVars
<1>2. CASE proxy' = "accept" /\ next' = next
  <2>1. next' \in Nat
    BY <1>1, <1>2 DEF Inv, DiskTyped
  <2> QED
    BY <1>1, <1>2, <2>1, ProxyRests DEF Resting
<1>3. CASE proxy' = "read" /\ next' = next + 1
  <2>1. DiskTyped' /\ CacheVerified' /\ HandedInOrder'
    BY <1>1, <1>3 DEF Inv, DiskTyped, CacheVerified, HandedInOrder, AtFile
  <2>2. SyncedInOrder'
    BY <1>1, <1>3 DEF Inv, SyncedInOrder, Sound
  <2> QED
    BY <2>1, <2>2 DEF Inv
<1> QED
  BY <1>1, <1>2, <1>3

LEMMA VerifyInv == ASSUME Inv, Verify PROVE Inv'
<1>1. /\ proxy = "verify" /\ synced' = written
      /\ (proxy' = "rename" /\ written = AllBlocks) \/ proxy' = "accept"
      /\ UNCHANGED <<meta, next, received, handed, part, written, checkpoint, cached, leftBehind>>
  BY DEF Verify, ProxyThrows, envVars
<1>2. ~cached /\ handed = 0 .. SectionCount(meta) - 1
  <2>1. handed = 0 .. next /\ next + 1 = SectionCount(meta) /\ next \in Nat
    BY <1>1 DEF Inv, HandedInOrder, DiskTyped
  <2> QED
    BY <1>1, <2>1 DEF Inv, CacheVerified, AtFile
<1>3. DiskTyped' /\ CacheVerified'
  BY <1>1, <1>2 DEF Inv, DiskTyped, CacheVerified, AtFile, Resting
<1>4. HandedInOrder'
  BY <1>1, <1>2 DEF HandedInOrder
<1>5. SyncedInOrder'
  BY <1>1 DEF Inv, SyncedInOrder, Sound
<1> QED
  BY <1>3, <1>4, <1>5 DEF Inv

\* The cached file appears; the checkpoint goes; the last status is sent.
LEMMA FinishInv == ASSUME Inv, RenamePart \/ RemoveCheckpoint \/ FinalReply PROVE Inv'
<1>1. CASE RenamePart
  <2>1. /\ proxy = "rename" /\ proxy' = "unlink" /\ cached' = TRUE /\ part' = "absent"
        /\ UNCHANGED <<meta, next, received, handed, written, synced, checkpoint, leftBehind>>
    BY <1>1 DEF RenamePart, envVars
  <2>2. DiskTyped' /\ CacheVerified' /\ HandedInOrder'
    BY <2>1 DEF Inv, DiskTyped, CacheVerified, HandedInOrder, AtFile
  <2>3. SyncedInOrder'
    BY <2>1 DEF Inv, SyncedInOrder, Sound
  <2> QED
    BY <2>2, <2>3 DEF Inv
<1>2. CASE RemoveCheckpoint
  <2>1. /\ proxy = "unlink" /\ proxy' = "final" /\ checkpoint' = NoCheckpoint
        /\ UNCHANGED <<meta, next, received, handed, part, written, synced, cached, leftBehind>>
    BY <1>2 DEF RemoveCheckpoint, envVars
  <2>2. checkpoint'.next = 0 /\ Sound(checkpoint)'
    BY <2>1, NoBlocksBefore DEF NoCheckpoint, Sound
  <2>3. DiskTyped' /\ CacheVerified' /\ HandedInOrder'
    BY <2>1, <2>2 DEF Inv, DiskTyped, CacheVerified, HandedInOrder, AtFile
  <2>4. SyncedInOrder'
    BY <2>1, <2>2 DEF Inv, SyncedInOrder
  <2> QED
    BY <2>3, <2>4 DEF Inv
<1>3. CASE FinalReply
  <2>1. /\ proxy' \in Resting /\ UNCHANGED <<next, part, written, synced, checkpoint, cached,
                                             leftBehind>>
    BY <1>3 DEF FinalReply, ProxyThrows, diskVars, envVars, Resting
  <2>2. next' \in Nat
    BY <2>1 DEF Inv, DiskTyped
  <2> QED
    BY <2>1, <2>2, ProxyRests
<1> QED
  BY <1>1, <1>2, <1>3

LEMMA InitInv == Init => Inv
<1> SUFFICES ASSUME Init PROVE Inv
  OBVIOUS
<1>1. /\ proxy = "accept" /\ next = 0 /\ part = "absent" /\ written = {} /\ synced = {}
      /\ checkpoint = NoCheckpoint /\ cached = FALSE /\ leftBehind = FALSE
  BY DEF Init
<1>2. checkpoint.next = 0 /\ Sound(checkpoint)
  BY <1>1, NoBlocksBefore DEF NoCheckpoint, Sound
<1>3. DiskTyped /\ CacheVerified /\ HandedInOrder /\ SyncedInOrder
  BY <1>1, <1>2 DEF DiskTyped, CacheVerified, HandedInOrder, SyncedInOrder, AtFile, Resting
<1> QED
  BY <1>3 DEF Inv

LEMMA NextInv == ASSUME Inv, Committed, [Next]_vars PROVE Inv'
<1>1. CASE CentralStep \/ CentralRestart \/ Break \/ Writeback \/ Over \/ UNCHANGED vars
  BY <1>1, CentralInv
<1>2. CASE \/ ReadSessionEnd \/ ProxyLosesConnection \/ DispatchFails \/ DistributionHangs
           \/ BarrierFails \/ Kill \/ ProxyRestart
  BY <1>2, LeavesInv
<1>3. CASE \/ ReadMeta \/ SizePart \/ ReadData \/ ReadFileEnd \/ Sync \/ SaveCheckpoint
           \/ EnqueueSection \/ Reply \/ Verify
  BY <1>3, ReadMetaInv, SizePartInv, ReadDataInv, ReadFileEndInv, SyncInv, SaveCheckpointInv,
     EnqueueSectionInv, ReplyInv, VerifyInv
<1>4. CASE BeginFails \/ RenamePart \/ RemoveCheckpoint \/ FinalReply \/ PowerLoss
  BY <1>4, BeginFailsInv, FinishInv, PowerLossInv
<1> QED
  BY <1>1, <1>2, <1>3, <1>4 DEF Next, ProxyStep, Fault

------------------------------------------------------------------------------
(* What is committed *)

\* The checkpoint, the names and what is committed of them stay; more is synced.
LEMMA CommittedKept ==
    ASSUME Committed, UNCHANGED <<disk, cached, checkpoint>>, leftBehind => leftBehind',
           part' = part \/ part' # "absent", synced \subseteq synced'
    PROVE  Committed'
<1>1. ~leftBehind' => Sound(disk.checkpoint)'
  BY DEF Committed, Sound
<1> QED
  BY <1>1 DEF Committed

\* .part is truncated under a checkpoint on the disk only if it counts as left behind.
LEMMA ReadMetaCommitted == ASSUME Inv, Committed, ReadMeta PROVE Committed'
<1> DEFINE l == Head(toProxy).limit
<1>1. UNCHANGED disk
  BY DEF ReadMeta, lossVars
<1>2. CASE UNCHANGED <<diskVars, leftBehind>>
  BY <1>1, <1>2, CommittedKept DEF diskVars
<1>3. CASE /\ ~cached /\ OpenPart(l)
           /\ leftBehind' = (leftBehind \/ (checkpoint # NoCheckpoint /\ Loaded(l) = 0))
           /\ UNCHANGED <<checkpoint, cached>>
  <2> HIDE DEF l
  <2>1. CASE Loaded(l) = 0
    <3>1. part' = "short" /\ synced' = {}
      BY <1>3, <2>1 DEF OpenPart
    <3>2. ASSUME ~leftBehind' PROVE Sound(disk.checkpoint)'
      <4>1. disk'.checkpoint = NoCheckpoint
        BY <1>1, <1>3, <2>1, <3>2 DEF Committed
      <4>2. disk'.checkpoint.next = 0
        BY <4>1 DEF NoCheckpoint
      <4>3. BlocksBefore(disk'.checkpoint.next, disk'.checkpoint.limit) = {}
        BY <4>2, NoBlocksBefore
      <4> QED
        BY <4>3 DEF Sound
    <3> QED
      BY <1>1, <1>3, <3>1, <3>2 DEF Committed
  <2>2. CASE Loaded(l) # 0
    <3>1. UNCHANGED <<part, synced>> /\ (leftBehind => leftBehind')
      BY <1>3, <2>2 DEF OpenPart
    <3> QED
      BY <1>1, <1>3, <3>1, CommittedKept
  <2> QED
    BY <2>1, <2>2
<1> QED
  BY <1>2, <1>3 DEF ReadMeta

LEMMA SaveCheckpointCommitted == ASSUME Inv, Committed, SaveCheckpoint PROVE Committed'
<1>1. /\ proxy = "checkpoint" /\ checkpoint' = [limit |-> meta, next |-> next + 1]
      /\ UNCHANGED <<disk, cached, leftBehind, part, synced>>
  BY DEF SaveCheckpoint, envVars, lossVars
<1>2. next \in Nat /\ part # "absent"
  BY <1>1 DEF Inv, DiskTyped, AtFile
<1>3. checkpoint' # NoCheckpoint
  <2>1. checkpoint'.next # 0
    BY <1>1, <1>2
  <2> QED
    BY <2>1 DEF NoCheckpoint
<1>4. ~leftBehind' => Sound(disk.checkpoint)'
  BY <1>1 DEF Committed, Sound
<1> QED
  BY <1>1, <1>2, <1>3, <1>4 DEF Committed

LEMMA FinishCommitted == ASSUME Inv, Committed, RenamePart \/ RemoveCheckpoint PROVE Committed'
<1>1. UNCHANGED <<disk, leftBehind, synced>> /\ (cached => cached')
  BY DEF RenamePart, RemoveCheckpoint, envVars, lossVars
<1>2. ~leftBehind' => Sound(disk.checkpoint)'
  BY <1>1 DEF Committed, Sound
<1>3. CASE RenamePart
  <2>1. cached' = TRUE /\ UNCHANGED checkpoint
    BY <1>3 DEF RenamePart
  <2> QED
    BY <1>1, <1>2, <2>1 DEF Committed
<1>4. CASE RemoveCheckpoint
  <2>1. checkpoint' = NoCheckpoint /\ cached' = cached /\ proxy = "unlink" /\ part' = part
    BY <1>4 DEF RemoveCheckpoint
  <2>2. cached
    BY <2>1 DEF Inv, CacheVerified
  <2> QED
    BY <1>1, <1>2, <2>1, <2>2 DEF Committed
<1> QED
  BY <1>3, <1>4

LEMMA PowerLossCommitted == ASSUME Inv, Committed, PowerLoss PROVE Committed'
<1>1. /\ checkpoint' \in {disk.checkpoint, NoCheckpoint} /\ FileFromDisk
      /\ disk' = [name |-> disk.name, checkpoint |-> checkpoint']
  BY DEF PowerLoss
<1>2. disk'.name = disk.name /\ disk'.checkpoint = checkpoint'
  BY <1>1
<1>3. disk.name \in {"none", "part", "cached"} /\ cached' = (disk.name = "cached")
  BY <1>1 DEF Committed, FileFromDisk
<1>4. disk.name = "part" => part' # "absent"
  BY <1>1 DEF FileFromDisk
<1>5. disk'.checkpoint.next \in Nat
  BY <1>1, <1>2 DEF Committed, NoCheckpoint
<1>6. disk.name = "none" => checkpoint' = NoCheckpoint
  BY <1>1 DEF Committed
<1>7. ~leftBehind' => Sound(disk.checkpoint)'
  <2>1. ~leftBehind' => Sound(checkpoint)'
    BY PowerLossInv DEF Inv, SyncedInOrder
  <2> QED
    BY <1>2, <2>1 DEF Sound
<1>8. disk'.name \in {"none", "part", "cached"} /\ (disk'.name = "cached" => cached')
  BY <1>2, <1>3
<1>9. disk'.name = "none" => disk'.checkpoint = NoCheckpoint
  BY <1>2, <1>6
<1>10. part' = "absent" /\ ~cached' => checkpoint' = NoCheckpoint
  BY <1>3, <1>4, <1>6
<1>11. disk'.checkpoint # NoCheckpoint => checkpoint' # NoCheckpoint
  BY <1>2
<1> QED
  BY <1>5, <1>7, <1>8, <1>9, <1>10, <1>11 DEF Committed

LEMMA WritebackCommitted == ASSUME Inv, Committed, Writeback PROVE Committed'
<1> DEFINE name == IF cached THEN "cached" ELSE IF part = "absent" THEN "none" ELSE "part"
<1>1. /\ disk' = [name |-> name, checkpoint |-> checkpoint]
      /\ UNCHANGED <<part, synced, checkpoint, cached, leftBehind>>
  BY DEF Writeback, diskVars
<1>2. disk'.name = name /\ disk'.checkpoint = checkpoint
  BY <1>1
<1>3. ~leftBehind' => Sound(disk.checkpoint)'
  BY <1>1, <1>2 DEF Inv, SyncedInOrder, Sound
<1>4. disk'.checkpoint.next \in Nat
  BY <1>2 DEF Inv, DiskTyped
<1> QED
  BY <1>1, <1>2, <1>3, <1>4 DEF Committed

LEMMA CommittedStep == ASSUME Inv, Committed, [Next]_vars PROVE Committed'
<1>1. CASE CentralStep \/ CentralRestart \/ Break \/ Over \/ UNCHANGED vars
  <2>1. UNCHANGED <<diskVars, disk, leftBehind>>
    BY <1>1 DEF CentralStep, Connect, ReadResume, SendSection, ReadStatus, CentralLosesConnection,
       EndSession, CentralRestart, Break, Over, vars, envVars, lossVars, Spend
  <2> QED
    BY <2>1, CommittedKept DEF diskVars
<1>2. CASE \/ ReadSessionEnd \/ ProxyLosesConnection \/ DispatchFails \/ DistributionHangs
           \/ BarrierFails \/ Kill \/ ProxyRestart \/ ReadFileEnd \/ EnqueueSection \/ Reply
           \/ FinalReply
  <2>1. UNCHANGED <<diskVars, disk, leftBehind>>
    BY <1>2 DEF ReadSessionEnd, ProxyLosesConnection, DispatchFails, DistributionHangs,
       BarrierFails, Kill, Down, ProxyRestart, ReadFileEnd, EnqueueSection, Reply, FinalReply,
       envVars, lossVars, Spend
  <2> QED
    BY <2>1, CommittedKept DEF diskVars
<1>3. CASE SizePart \/ BeginFails \/ ReadData \/ Sync \/ Verify
  <2>1. UNCHANGED <<disk, cached, checkpoint, leftBehind>> /\ part' \in {part, "full"}
    BY <1>3 DEF SizePart, BeginFails, ReadData, Sync, Verify, envVars, lossVars, Spend
  <2>2. synced' \in {synced, written}
    BY <1>3 DEF SizePart, BeginFails, ReadData, Sync, Verify
  <2>3. synced \subseteq synced'
    BY <2>2 DEF Inv, SyncedInOrder
  <2> QED
    BY <2>1, <2>3, CommittedKept
<1>4. CASE ReadMeta \/ SaveCheckpoint \/ RenamePart \/ RemoveCheckpoint \/ PowerLoss \/ Writeback
  BY <1>4, ReadMetaCommitted, SaveCheckpointCommitted, FinishCommitted, PowerLossCommitted,
     WritebackCommitted
<1> QED
  BY <1>1, <1>2, <1>3, <1>4 DEF Next, ProxyStep, Fault

LEMMA CommittedInit == Init => Committed
<1> SUFFICES ASSUME Init PROVE Committed
  OBVIOUS
<1>1. /\ part = "absent" /\ checkpoint = NoCheckpoint /\ cached = FALSE
      /\ disk.name = "none" /\ disk.checkpoint = NoCheckpoint
  BY DEF Init
<1>2. disk.checkpoint.next = 0 /\ Sound(disk.checkpoint)
  BY <1>1, NoBlocksBefore DEF NoCheckpoint, Sound
<1> QED
  BY <1>1, <1>2 DEF Committed

------------------------------------------------------------------------------
(* The theorems about the disk *)

\* Across kills, power losses and broken connections: the file is renamed only after
\* its digest was right, sections are handed out in order, and the checkpoint is
\* written only after the data under it was synced; and what a power loss would leave
\* of the names and the checkpoint has the same properties.
THEOREM Invariance == Spec => [](Inv /\ Committed)
<1>1. Init => Inv /\ Committed
  BY InitInv, CommittedInit
<1>2. Inv /\ Committed /\ [Next]_vars => (Inv /\ Committed)'
  BY NextInv, CommittedStep
<1> QED
  BY <1>1, <1>2, PTL DEF Spec

\* Whatever the checkpoint said and whatever crashed, the cached file has every
\* byte right.
THEOREM CacheIsVerified == Spec => []CachedIsVerified
<1>1. Inv => CachedIsVerified
  BY DEF Inv, CacheVerified, CachedIsVerified
<1> QED
  BY <1>1, Invariance, PTL

\* Every section was handed to the receivers by the process that renames the file,
\* those that were in the cache before it started included.
THEOREM EverySectionHandedOut == Spec => []CachedWasHandedOut
<1>1. Inv => CachedWasHandedOut
  BY DEF Inv, HandedInOrder, CachedWasHandedOut
<1> QED
  BY <1>1, Invariance, PTL

\* Until a checkpoint is left behind, it never runs ahead of the synced data.
THEOREM CheckpointNeverAhead == Spec => []CheckpointIsSound
<1>1. Inv => CheckpointIsSound
  BY DEF Inv, SyncedInOrder, Sound, CheckpointIsSound
<1> QED
  BY <1>1, Invariance, PTL
------------------------------------------------------------------------------
(* The session: an inductive invariant over both programs and the frames   *)
(* that are on their way between them                                      *)

AtSection == AtFile \ {"size"}
WithoutIt == {"checkpoint", "reply"}
Finishing == {"verify", "rename", "unlink", "final"}

\* The disk of the proxy holds the first n sections of the file as `limit' cuts
\* it, and a new session would go on behind them.
Kept(n) ==
    \/ cached
    \/ /\ checkpoint.limit = limit /\ part = "full"
       /\ n <= checkpoint.next /\ checkpoint.next < SectionCount(limit)

\* Where the proxy is in its file.
InFile ==
    /\ proxy \in AtFile =>
         meta \in Limits /\ (next < SectionCount(meta) \/ SectionCount(meta) = 0)
    /\ proxy = "size" => next <= TotalBlocks /\ (next < SectionCount(meta) \/ next = 0)
    /\ proxy \in AtSection => part = "full"
    /\ proxy \in {"checkpoint", "reply"} => next + 1 # SectionCount(meta)
    /\ proxy = "reply" \/ (proxy = "enqueue" /\ next + 1 # SectionCount(meta)) =>
         checkpoint = [limit |-> meta, next |-> next + 1]
    /\ proxy \in Finishing => next + 1 = SectionCount(meta)
    /\ proxy \in {"unlink", "final"} => cached

\* The numbers of sections that were confirmed, or whose confirmation is on its way.
Answered ==
    {confirmed} \cup
    {n \in {section + 1} : central = "status" /\ toCentral # <<>>
                            /\ Head(toCentral).code = "Cached"}

\* Without a power loss since the connection was made they are kept, and the proxy is
\* behind them in the same cut of the file.
AnsweredIsKept ==
    ~powerLost =>
    \A n \in Answered : n > 0 =>
        /\ Kept(n)
        /\ proxy \in AtFile => meta = limit /\ n <= next
        /\ \A i \in 1 .. Len(toProxy) : toProxy[i].type = "META" => toProxy[i].limit = limit

\* A session has one META, and FILE_END ends what is sent of a section.
SentInOrder ==
    \A i \in 1 .. Len(toProxy) :
        /\ toProxy[i].type = "META" =>
             proxy = "meta" /\ Len(toProxy) = 1 /\ toCentral = <<>>
        /\ toProxy[i].type = "FILE_END" => i = Len(toProxy)

Refusals(queue) ==
    \A i \in 1 .. Len(queue) : queue[i].type = "STATUS" /\ queue[i].code = "Failed"

\* What the central sender may find in its socket.
AnswersInOrder ==
    /\ central = "resume" /\ toCentral # <<>> =>
         /\ Head(toCentral).type = "RESUME"
         /\ Head(toCentral).next # SectionCount(limit) =>
              confirmed <= Head(toCentral).next /\ Head(toCentral).next < SectionCount(limit)
         /\ Refusals(Tail(toCentral))
    /\ central = "send" => section < SectionCount(limit) /\ Refusals(toCentral)
    /\ central = "status" => section < SectionCount(limit)
    /\ central = "status" /\ toCentral # <<>> =>
         Head(toCentral).type = "STATUS" /\ Refusals(Tail(toCentral))

\* While the connection is up, each program is where the other one expects it.
InStep ==
    up =>
    /\ ~powerLost
    /\ central # "connect" /\ proxy \notin {"accept", "down", "ended"}
    /\ central = "resume" =>
         \/ proxy = "meta" /\ toProxy = <<Meta(limit)>> /\ toCentral = <<>>
         \/ proxy = "size" /\ meta = limit /\ toProxy = <<>> /\ toCentral = <<>>
         \/ proxy = "hung" /\ toProxy = <<>> /\ toCentral = <<>>
         \/ /\ proxy = "read" /\ meta = limit /\ toProxy = <<>>
            /\ toCentral = <<Resume(next, "none")>>
         \/ /\ proxy = "meta" /\ toProxy = <<>>
            /\ toCentral = <<Resume(SectionCount(limit), "good")>>
    /\ central = "send" =>
         /\ proxy = "read" /\ meta = limit /\ next = section
         /\ toProxy = <<>> /\ toCentral = <<>>
    /\ central = "status" =>
         \/ /\ proxy \in AtSection \cup {"unlink", "final"} /\ meta = limit /\ next = section
            /\ toCentral = <<>> /\ (proxy # "read" => toProxy = <<>>)
         \/ proxy = "hung" /\ toProxy = <<>> /\ toCentral = <<>>
         \/ /\ proxy = "read" /\ meta = limit /\ next = section + 1
            /\ toProxy = <<>> /\ toCentral = <<Status("Cached", "none")>>
         \/ /\ proxy = "meta" /\ section + 1 = SectionCount(limit)
            /\ toProxy = <<>> /\ toCentral = <<Status("Cached", "good")>>
    /\ central = "sent" => proxy = "meta" /\ toProxy = <<>>
    /\ central = "exited" => proxy = "meta" /\ toProxy = <<[type |-> "SESSION_END"]>>

Session == InFile /\ AnsweredIsKept /\ SentInOrder /\ AnswersInOrder /\ InStep

------------------------------------------------------------------------------
(* The shape of the variables *)

Queues == toProxy \in Seq(ProxyFrames) /\ toCentral \in Seq(CentralFrames)

Values ==
    /\ central \in {"connect", "resume", "send", "status", "sent", "exited"}
    /\ limit \in Limits /\ section \in Nat /\ confirmed \in Nat
    /\ up \in BOOLEAN /\ deaf \subseteq {"central", "proxy"}
    /\ proxy \in {"accept", "meta", "size", "read", "sync", "checkpoint", "enqueue",
                  "reply", "verify", "rename", "unlink", "final", "ended", "down", "hung"}
    /\ meta \in Limits \cup {0} /\ next \in Nat /\ handed \subseteq Nat
    /\ received \subseteq AllBlocks /\ rejected \in BOOLEAN
    /\ part \in {"absent", "short", "full"}
    /\ written \subseteq AllBlocks /\ synced \subseteq AllBlocks
    /\ checkpoint \in [limit : Limits \cup {0}, next : Nat]
    /\ cached \in BOOLEAN
    /\ disk \in [name : {"none", "part", "cached"},
                 checkpoint : [limit : Limits \cup {0}, next : Nat]]
    /\ faults \in Budget /\ leftBehind \in BOOLEAN /\ powerLost \in BOOLEAN

Typed == Values /\ Queues

LEMMA CountType ==
    ASSUME NEW l \in Limits
    PROVE  SectionCount(l) \in Nat /\ SectionCount(l) <= TotalBlocks
<1>1. TotalBlocks \in Nat /\ l \in Nat /\ l > 0 /\ Word \in Nat /\ Word > 0
  BY CentralCacheAssumption, WordAssumption
<1> DEFINE n == TotalBlocks + l - 1
           u == U32(n)
<1>2. CASE TotalBlocks = 0
  BY <1>2 DEF SectionCount, SectionCountForBlocks
<1>3. CASE TotalBlocks > 0
  <2>1. n \in Nat /\ u \in Nat /\ u <= n
    <3>1. n \in Nat
      BY <1>1, <1>3
    <3> HIDE DEF n
    <3>2. (n % Word) \in 0 .. Word - 1 /\ n = Word * (n \div Word) + (n % Word) /\ n \div Word \in Nat
      BY <1>1, <3>1, DivMod
    <3>3. Word * (n \div Word) >= 0
      BY <1>1, <3>2
    <3>4. u = (n % Word)
      BY DEF U32
    <3> HIDE DEF u
    <3> QED
      BY <1>1, <3>1, <3>2, <3>3, <3>4
  <2>2. SectionCount(l) = u \div l
    BY <1>3 DEF SectionCount, SectionCountForBlocks
  <2> HIDE DEF u
  <2> DEFINE q == u \div l
  <2>3. q \in Nat /\ u % l \in 0 .. l - 1 /\ u = l * q + (u % l)
    BY <1>1, <2>1, DivMod
  <2> HIDE DEF q
  <2>4. l * q <= TotalBlocks + l - 1
    BY <1>1, <2>1, <2>3 DEF n
  <2>5. q <= TotalBlocks
    <3>1. SUFFICES ASSUME q >= TotalBlocks + 1 PROVE FALSE
      BY <1>1, <2>3
    <3>2. l * q >= l * (TotalBlocks + 1)
      BY <1>1, <2>3, <3>1
    <3>3. l * (TotalBlocks + 1) = l * TotalBlocks + l /\ l * TotalBlocks >= TotalBlocks
      BY <1>1
    <3> QED
      BY <1>1, <2>3, <2>4, <3>2, <3>3
  <2> QED
    BY <2>2, <2>3, <2>5 DEF q
<1> QED
  BY <1>1, <1>2, <1>3

LEMMA BlocksType ==
    ASSUME NEW s \in Nat, NEW l \in Limits
    PROVE  /\ SectionFirstBlock(s, l) \in Nat /\ SectionBlockCount(TotalBlocks, s, l) \in Int
           /\ SectionFirstBlock(s, l) + SectionBlockCount(TotalBlocks, s, l) <= TotalBlocks
<1>1. TotalBlocks \in Nat /\ l \in Nat /\ Word \in Nat /\ Word > 0
  BY CentralCacheAssumption, WordAssumption
<1>2. s * l \in Nat
  BY <1>1
<1>3. SectionFirstBlock(s, l) \in Nat
  BY <1>1, <1>2, DivMod DEF SectionFirstBlock, U32
<1> QED
  BY <1>1, <1>3 DEF SectionBlockCount

LEMMA BlocksBeforeType ==
    ASSUME NEW s \in Nat, NEW l \in Limits PROVE BlocksBefore(s, l) \subseteq AllBlocks
<1>1. ASSUME NEW i \in 0 .. s - 1 PROVE Blocks(i, l) \subseteq AllBlocks
  <2>1. i \in Nat /\ TotalBlocks \in Nat
    BY CentralCacheAssumption
  <2> QED
    BY <2>1, BlocksType DEF Blocks, SectionBlocks, AllBlocks
<1> QED
  BY <1>1 DEF BlocksBefore

LEMMA FrameTypes ==
    /\ \A f \in ProxyFrames : /\ f.type \in {"META", "DATA", "FILE_END", "SESSION_END"}
                              /\ f.type = "META" => f.limit \in Limits
                              /\ f.type = "DATA" => f.section \in Nat /\ f.block \in AllBlocks
                              /\ f.type = "FILE_END" => f.section \in Nat
    /\ \A f \in CentralFrames : /\ f.type \in {"RESUME", "STATUS"}
                                /\ f.type = "RESUME" => f.next \in 0 .. TotalBlocks
                                /\ f.type = "STATUS" => f.code \in {"Cached", "Failed"}
  BY DEF ProxyFrames, CentralFrames

\* What the programs write.
LEMMA Written ==
    /\ \A l \in Limits : Meta(l) \in ProxyFrames
    /\ [type |-> "SESSION_END"] \in ProxyFrames
    /\ \A n \in 0 .. TotalBlocks, d \in {"good", "none"} : Resume(n, d) \in CentralFrames
    /\ \A c \in {"Cached", "Failed"}, d \in {"good", "none", "bad"} : Status(c, d) \in CentralFrames
  BY DEF Meta, Resume, Status, ProxyFrames, CentralFrames

LEMMA SectionFramesType ==
    ASSUME NEW s \in Nat, NEW l \in Limits
    PROVE  /\ SectionFrames(s, l) \in Seq(ProxyFrames)
           /\ \A i \in 1 .. Len(SectionFrames(s, l)) :
                /\ SectionFrames(s, l)[i].type \in {"DATA", "FILE_END"}
                /\ SectionFrames(s, l)[i].type = "FILE_END" => i = Len(SectionFrames(s, l))
<1> DEFINE first == SectionFirstBlock(s, l)
           count == SectionBlockCount(TotalBlocks, s, l)
           data == [i \in 1 .. count |-> Data(s, first + i - 1)]
           end == <<FileEnd(s)>>
<1>1. first \in Nat /\ count \in Int /\ first + count <= TotalBlocks /\ TotalBlocks \in Nat
  BY BlocksType, CentralCacheAssumption
<1> HIDE DEF first, count
<1>2. \A i \in 1 .. count : Data(s, first + i - 1) \in ProxyFrames
  BY <1>1 DEF Data, ProxyFrames, AllBlocks
<1>3. /\ data \in Seq(ProxyFrames) /\ Len(data) \in Nat
      /\ \A i \in 1 .. Len(data) : data[i].type = "DATA"
  <2>1. CASE count < 0
    <3>1. data = << >>
      BY <1>1, <2>1
    <3> HIDE DEF data
    <3> QED
      BY <3>1, EmptySeq
  <2>2. CASE count >= 0
    <3>1. count \in Nat
      BY <1>1, <2>2
    <3>2. data \in Seq(ProxyFrames) /\ Len(data) = count
      BY <1>2, <3>1
    <3>3. \A i \in 1 .. count : data[i].type = "DATA"
      BY DEF Data
    <3> HIDE DEF data
    <3> QED
      BY <3>1, <3>2, <3>3
  <2> HIDE DEF data
  <2> QED
    BY <1>1, <2>1, <2>2
<1>4. end \in Seq(ProxyFrames) /\ Len(end) = 1 /\ end[1] = FileEnd(s)
  BY DEF FileEnd, ProxyFrames
<1>6. SectionFrames(s, l) = data \o end
  BY DEF SectionFrames, first, count
<1> HIDE DEF data, end
<1>7. /\ data \o end \in Seq(ProxyFrames) /\ Len(data \o end) = Len(data) + 1
      /\ \A i \in 1 .. Len(data) + 1 : (data \o end)[i] = IF i <= Len(data) THEN data[i] ELSE end[i - Len(data)]
  <2>1. /\ data \o end \in Seq(ProxyFrames) /\ Len(data \o end) = Len(data) + Len(end)
        /\ \A i \in 1 .. Len(data) + Len(end) :
             (data \o end)[i] = IF i <= Len(data) THEN data[i] ELSE end[i - Len(data)]
    BY <1>3, <1>4, ConcatProperties
  <2> QED
    BY <1>4, <2>1
<1> QED
  BY <1>3, <1>4, <1>6, <1>7 DEF FileEnd

LEMMA TypedIsTypeOK == Typed => TypeOK
  BY ElementOfSeq DEF Typed, Values, Queues, TypeOK

LEMMA SendType ==
    ASSUME NEW S, NEW queue \in Seq(S), NEW f \in S PROVE Send(queue, <<f>>) \in Seq(S)
<1>1. <<f>> \in Seq(S)
  OBVIOUS
<1> QED
  BY <1>1, ConcatProperties DEF Send

LEMMA ThrowType ==
    ASSUME Queues, NEW f, f \in CentralFrames, ProxyThrows(<<f>>) \/ ProxyThrows(<<>>)
    PROVE  Queues'
<1>1. toProxy' = <<>> /\ (toCentral' = Send(toCentral, <<f>>) \/ toCentral' = Send(toCentral, <<>>))
  BY DEF ProxyThrows
<1>2. Send(toCentral, <<f>>) \in Seq(CentralFrames) /\ Send(toCentral, <<>>) \in Seq(CentralFrames)
  BY SendType, ConcatEmptySeq DEF Queues, Send
<1> QED
  BY <1>1, <1>2 DEF Queues

LEMMA QueuesStep == ASSUME Inv, Session, Typed, [Next]_vars PROVE Queues'
<1> DEFINE failed(d) == Status("Failed", d)
<1>1. /\ toProxy \in Seq(ProxyFrames) /\ toCentral \in Seq(CentralFrames)
      /\ toProxy # <<>> => Tail(toProxy) \in Seq(ProxyFrames)
      /\ toCentral # <<>> => Tail(toCentral) \in Seq(CentralFrames)
      /\ <<>> \in Seq(ProxyFrames) /\ <<>> \in Seq(CentralFrames)
  BY HeadTailProperties DEF Typed, Queues
<1>2. limit \in Limits /\ section \in Nat /\ next \in Nat /\ (proxy = "size" => next \in 0 .. TotalBlocks)
  <2>1. TotalBlocks \in Nat
    BY CentralCacheAssumption
  <2> QED
    BY <2>1 DEF Typed, Values, Session, InFile
<1>3. CASE UNCHANGED <<toProxy, toCentral>>
  BY <1>1, <1>3 DEF Queues
<1>4. CASE Connect
  BY <1>1, <1>2, <1>4, Written DEF Connect, Queues
<1>5. CASE ReadResume \/ ReadStatus \/ CentralLosesConnection \/ CentralRestart \/ Break
  <2>1. CASE CentralThrows
    BY <1>1, <2>1 DEF CentralThrows, Queues
  <2>2. CASE CentralRestart \/ Break
    BY <1>1, <2>2 DEF CentralRestart, Break, Queues
  <2>3. CASE ReadResume /\ ~CentralThrows
    <3>1. toCentral # <<>> /\ toProxy' = toProxy /\ toCentral' = Tail(toCentral)
      BY <2>3 DEF ReadResume
    <3> QED
      BY <1>1, <3>1 DEF Queues
  <2>4. CASE ReadStatus /\ ~CentralThrows
    <3>1. toCentral # <<>> /\ toProxy' = toProxy /\ toCentral' = Tail(toCentral)
      BY <2>4 DEF ReadStatus
    <3> QED
      BY <1>1, <3>1 DEF Queues
  <2> QED
    BY <1>5, <2>1, <2>2, <2>3, <2>4 DEF CentralLosesConnection
<1>6. CASE SendSection
  <2>1. Send(toProxy, SectionFrames(section, limit)) \in Seq(ProxyFrames)
    BY <1>1, <1>2, SectionFramesType, ConcatProperties DEF Send
  <2> QED
    BY <1>1, <1>6, <2>1 DEF SendSection, Queues
<1>7. CASE EndSession
  BY <1>1, <1>7, Written, SendType DEF EndSession, Queues
<1>8. CASE ReadMeta
  <2>1. Head(toProxy).limit \in Limits
    BY <1>8, <1>1, HeadTailProperties, FrameTypes DEF ReadMeta
  <2>2. Resume(SectionCount(Head(toProxy).limit), "good") \in CentralFrames
    <3>1. SectionCount(Head(toProxy).limit) \in 0 .. TotalBlocks
      <4> DEFINE l == Head(toProxy).limit
      <4>1. l \in Limits
        BY <2>1
      <4> HIDE DEF l
      <4>2. SectionCount(l) \in Nat /\ SectionCount(l) <= TotalBlocks /\ TotalBlocks \in Nat
        BY <4>1, CountType, CentralCacheAssumption
      <4>3. SectionCount(l) \in 0 .. TotalBlocks
        BY <4>2
      <4> QED
        BY <4>3 DEF l
    <3> QED
      BY <3>1, Written
  <2>3. /\ toProxy # <<>> /\ toProxy' = Tail(toProxy)
        /\ \/ toCentral' = toCentral
           \/ toCentral' = Send(toCentral, <<Resume(SectionCount(Head(toProxy).limit), "good")>>)
    BY <1>8 DEF ReadMeta
  <2> QED
    BY <1>1, <2>2, <2>3, SendType DEF Queues
<1>9. CASE SizePart
  <2>1. Resume(next, "none") \in CentralFrames
    BY <1>2, <1>9, Written DEF SizePart
  <2> QED
    BY <1>1, <1>9, <2>1, SendType DEF SizePart, Queues
<1>10. CASE ReadData
  BY <1>1, <1>10 DEF ReadData, Queues
<1>11. CASE ReadFileEnd
  <2>1. CASE ProxyThrows(<<Status("Failed", "none")>>)
    BY <2>1, <1>1, Written, ThrowType DEF Queues
  <2> QED
    BY <1>1, <1>11, <2>1 DEF ReadFileEnd, Queues
<1>12. CASE BeginFails \/ DispatchFails \/ BarrierFails \/ ProxyLosesConnection
  <2>1. \/ ProxyThrows(<<>>) \/ ProxyThrows(<<Status("Failed", "none")>>)
        \/ ProxyThrows(<<Status("Cached", "good")>>)
    BY <1>12 DEF BeginFails, DispatchFails, BarrierFails, ProxyLosesConnection
  <2> QED
    BY <2>1, <1>1, Written, ThrowType DEF Queues
<1>13. CASE Reply
  <2>1. CASE ProxyThrows(<<>>)
    BY <2>1, <1>1, Written, ThrowType DEF Queues
  <2> QED
    BY <1>1, <1>13, <2>1, Written, SendType DEF Reply, Queues
<1>14. CASE FinalReply
  <2>1. CASE ProxyThrows(<<>>)
    BY <2>1, <1>1, Written, ThrowType DEF Queues
  <2> QED
    BY <1>1, <1>14, <2>1, Written, SendType DEF FinalReply, Queues
<1>15. CASE Verify
  <2>1. CASE ProxyThrows(<<Status("Failed", "bad")>>)
    BY <2>1, <1>1, Written, ThrowType DEF Queues
  <2> QED
    BY <1>1, <1>15, <2>1 DEF Verify, Queues, connVars
<1>16. CASE ReadSessionEnd \/ Kill \/ PowerLoss
  BY <1>1, <1>16 DEF ReadSessionEnd, Kill, PowerLoss, Down, Queues
<1>17. CASE Sync \/ SaveCheckpoint \/ EnqueueSection \/ RenamePart \/ RemoveCheckpoint
            \/ ProxyRestart \/ DistributionHangs \/ Writeback \/ Over \/ UNCHANGED vars
  BY <1>3, <1>17 DEF Sync, SaveCheckpoint, EnqueueSection, RenamePart, RemoveCheckpoint,
     ProxyRestart, DistributionHangs, Writeback, Over, vars, connVars
<1> QED
  BY <1>4, <1>5, <1>6, <1>7, <1>8, <1>9, <1>10, <1>11, <1>12, <1>13, <1>14, <1>15, <1>16,
     <1>17 DEF Next, CentralStep, ProxyStep, Fault

LEMMA SpendType ==
    ASSUME faults \in Budget, NEW kind \in {"break", "crash", "restart", "fail"}, Spend(kind)
    PROVE  faults' \in Budget /\ leftBehind' = leftBehind
<1>1. /\ faults.break \in 0 .. MaxBreaks /\ faults.crash \in 0 .. MaxCrashes
      /\ faults.restart \in 0 .. MaxRestarts /\ faults.fail \in 0 .. MaxFailures
  BY DEF Budget
<1>2. faults[kind] > 0 /\ faults' = [faults EXCEPT ![kind] = faults[kind] - 1]
  BY DEF Spend
<1>3. /\ MaxBreaks \in Nat /\ MaxCrashes \in Nat /\ MaxRestarts \in Nat /\ MaxFailures \in Nat
  BY CentralCacheAssumption
<1>4. faults' \in Budget
  BY <1>1, <1>2, <1>3 DEF Budget
<1> QED
  BY <1>4 DEF Spend

LEMMA CentralValues ==
    ASSUME Session, Typed, CentralStep \/ CentralRestart \/ Break PROVE Values'
<1>1. Values
  BY DEF Typed
<1>2. CASE Connect
  <2>1. confirmed' \in Nat /\ deaf' \subseteq {"central", "proxy"}
    BY <1>1, <1>2 DEF Connect, Values
  <2>2. UNCHANGED <<limit, section, meta, next, received, rejected, handed, part, written,
                    synced, checkpoint, cached, faults, leftBehind, disk>>
    BY <1>2 DEF Connect, diskVars
  <2> QED
    BY <1>1, <1>2, <2>1, <2>2 DEF Connect, Values
<1>3. ASSUME proxyVars' = proxyVars, diskVars' = diskVars,
             \/ UNCHANGED envVars
             \/ UNCHANGED lossVars /\ \E kind \in {"break", "restart"} : Spend(kind),
             central' \in {"connect", "resume", "send", "status", "sent", "exited"},
             limit' \in Limits, section' \in Nat, confirmed' \in Nat, up' \in BOOLEAN,
             deaf' \subseteq {"central", "proxy"}
      PROVE  Values'
  <2>1. /\ faults' \in Budget /\ leftBehind' \in BOOLEAN
        /\ UNCHANGED <<disk, powerLost>>
    BY <1>1, <1>3, SpendType DEF envVars, lossVars, Values
  <2> QED
    BY <1>1, <1>3, <2>1 DEF proxyVars, diskVars, Values
<1>4. CASE ReadResume \/ ReadStatus \/ CentralLosesConnection
  <2>1. proxyVars' = proxyVars /\ diskVars' = diskVars /\ UNCHANGED envVars
    BY <1>4 DEF ReadResume, ReadStatus, CentralLosesConnection
  <2>2. CASE CentralThrows
    BY <1>1, <1>3, <2>1, <2>2 DEF CentralThrows, Values
  <2>3. CASE ReadResume /\ ~CentralThrows
    <3>1. Head(toCentral) \in CentralFrames /\ Head(toCentral).type = "RESUME"
      BY <2>3, HeadTailProperties DEF ReadResume, Typed, Queues, Session, AnswersInOrder
    <3>2. Head(toCentral).next \in Nat
      BY <3>1, FrameTypes
    <3> QED
      BY <1>1, <1>3, <2>1, <2>3, <3>2 DEF ReadResume, Values
  <2>4. CASE ReadStatus /\ ~CentralThrows
    <3>1. /\ central' \in {"sent", "send"} /\ confirmed' = section + 1 /\ section' = section + 1
          /\ UNCHANGED <<up, deaf, limit>>
      BY <2>4 DEF ReadStatus
    <3>2. /\ section' \in Nat /\ confirmed' \in Nat /\ up' \in BOOLEAN /\ limit' \in Limits
          /\ deaf' \subseteq {"central", "proxy"}
      BY <1>1, <3>1 DEF Values
    <3> QED
      BY <1>3, <2>1, <3>1, <3>2
  <2> QED
    BY <1>4, <2>2, <2>3, <2>4 DEF CentralLosesConnection
<1>5. CASE SendSection \/ EndSession
  BY <1>1, <1>3, <1>5 DEF SendSection, EndSession, Notices, Values
<1>6. CASE CentralRestart
  <2>1. deaf' \subseteq {"central", "proxy"}
    BY <1>1, <1>6 DEF CentralRestart, Values
  <2>2. /\ proxyVars' = proxyVars /\ diskVars' = diskVars /\ UNCHANGED lossVars
        /\ Spend("restart") /\ central' = "connect" /\ limit' \in Limits
        /\ section' \in Nat /\ up' \in BOOLEAN
    BY <1>6 DEF CentralRestart
  <2>3. confirmed' \in Nat
    BY <1>1, <1>6 DEF CentralRestart, Values
  <2> QED
    BY <1>3, <2>1, <2>2, <2>3
<1>7. CASE Break
  <2>1. deaf' \subseteq {"central", "proxy"}
    BY <1>7 DEF Break
  <2> QED
    BY <1>1, <1>3, <1>7, <2>1 DEF Break, Values, centralVars
<1> QED
  BY <1>2, <1>4, <1>5, <1>6, <1>7 DEF CentralStep

LEMMA ProxyValues ==
    ASSUME Session, Typed,
           \/ ProxyStep \/ BeginFails \/ DispatchFails \/ DistributionHangs \/ BarrierFails
           \/ Kill \/ PowerLoss \/ Writeback
    PROVE  Values'
<1>1. Values
  BY DEF Typed
<1>2. CASE ReadMeta
  <2> DEFINE l == Head(toProxy).limit
  <2>1. l \in Limits
    BY <1>2, HeadTailProperties, FrameTypes DEF ReadMeta, Typed, Queues
  <2> HIDE DEF l
  <2>2. /\ centralVars' = centralVars /\ up' = up /\ faults' = faults
        /\ UNCHANGED <<disk, powerLost>>
    BY <1>2 DEF ReadMeta, lossVars
  <2>5. deaf' \subseteq {"central", "proxy"}
    BY <1>1, <1>2 DEF ReadMeta, Notices, Values
  <2>3. CASE UNCHANGED <<proxyVars, diskVars, leftBehind>>
    BY <1>1, <2>2, <2>3, <2>5 DEF centralVars, proxyVars, diskVars, Values
  <2>4. CASE /\ proxy' = "size" /\ meta' = l /\ next' = Loaded(l)
             /\ received' = {} /\ rejected' = FALSE /\ handed' = {}
             /\ OpenPart(l)
             /\ leftBehind' = (leftBehind \/ (checkpoint # NoCheckpoint /\ Loaded(l) = 0))
             /\ UNCHANGED <<checkpoint, cached>>
    <3>1. Loaded(l) \in Nat
      BY <1>1 DEF Loaded, Values
    <3>2. part' \in {"absent", "short", "full"} /\ written' \subseteq AllBlocks /\ synced' \subseteq AllBlocks
      BY <1>1, <2>4 DEF OpenPart, Values
    <3>3. leftBehind' \in BOOLEAN
      BY <2>4
    <3> QED
      BY <1>1, <2>1, <2>2, <2>4, <2>5, <3>1, <3>2, <3>3 DEF centralVars, Values
  <2> QED
    BY <1>2, <2>3, <2>4 DEF ReadMeta, l
<1>3. CASE SizePart
  <2>1. BlocksBefore(next, meta) \subseteq AllBlocks
    BY <1>1, <1>3, BlocksBeforeType DEF SizePart, Session, InFile, AtFile, Values
  <2>2. 0 .. next - 1 \subseteq Nat
    BY <1>1 DEF Values
  <2>3. deaf' \subseteq {"central", "proxy"}
    BY <1>1, <1>3 DEF SizePart, Notices, Values
  <2> QED
    BY <1>1, <1>3, <2>1, <2>2, <2>3 DEF SizePart, centralVars, envVars, lossVars, Values
<1>4. CASE ReadData
  <2>1. Head(toProxy).block \in AllBlocks
    BY <1>4, HeadTailProperties, FrameTypes DEF ReadData, Typed, Queues
  <2>2. rejected' \in BOOLEAN
    BY <1>4 DEF ReadData
  <2> QED
    BY <1>1, <1>4, <2>1, <2>2 DEF ReadData, centralVars, envVars, lossVars, Values
<1>5. CASE Sync \/ SaveCheckpoint \/ EnqueueSection \/ RenamePart \/ RemoveCheckpoint
  <2>1. UNCHANGED <<central, limit, section, confirmed, up, deaf, meta, next, received,
                    rejected, faults, leftBehind, disk, powerLost>>
    BY <1>5 DEF Sync, SaveCheckpoint, EnqueueSection, RenamePart, RemoveCheckpoint,
       centralVars, connVars, envVars, lossVars
  <2>2. CASE Sync
    BY <1>1, <2>1, <2>2 DEF Sync, Values
  <2>5. CASE EnqueueSection
    BY <1>1, <2>1, <2>5 DEF EnqueueSection, diskVars, Values
  <2>6. CASE RenamePart
    BY <1>1, <2>1, <2>6 DEF RenamePart, Values
  <2>3. CASE SaveCheckpoint
    <3>1. checkpoint' \in [limit : Limits \cup {0}, next : Nat]
      BY <1>1, <2>3 DEF SaveCheckpoint, Values
    <3> QED
      BY <1>1, <2>1, <2>3, <3>1 DEF SaveCheckpoint, Values
  <2>4. CASE RemoveCheckpoint
    <3>1. checkpoint' \in [limit : Limits \cup {0}, next : Nat]
      BY <2>4 DEF RemoveCheckpoint, NoCheckpoint
    <3> QED
      BY <1>1, <2>1, <2>4, <3>1 DEF RemoveCheckpoint, Values
  <2> QED
    BY <1>5, <2>2, <2>3, <2>4, <2>5, <2>6
<1>6. ASSUME UNCHANGED <<centralVars, deaf, meta, received, rejected, handed, checkpoint, cached,
                         leftBehind, disk, powerLost>>,
             faults' \in Budget, up' \in BOOLEAN, next' \in Nat,
             part' \in {"absent", "short", "full"},
             written' \subseteq AllBlocks, synced' \subseteq AllBlocks,
             proxy' \in {"accept", "meta", "size", "read", "sync", "checkpoint", "enqueue",
                        "reply", "verify", "rename", "unlink", "final", "ended", "down", "hung"}
      PROVE  Values'
  BY <1>1, <1>6 DEF centralVars, Values
<1>a. ASSUME UNCHANGED <<centralVars, meta, next, received, rejected, handed, diskVars>>
      PROVE  UNCHANGED <<centralVars, meta, next, received, rejected, handed, part, written, synced,
                         checkpoint, cached>>
  BY <1>a DEF diskVars
<1>7. CASE ReadFileEnd \/ ReadSessionEnd \/ ProxyLosesConnection \/ ProxyRestart
  <2>1. /\ UNCHANGED <<centralVars, meta, next, received, rejected, handed, diskVars>>
        /\ UNCHANGED <<deaf, faults, leftBehind, disk, powerLost>> /\ up' \in {up, FALSE}
    BY <1>7 DEF ReadFileEnd, ReadSessionEnd, ProxyLosesConnection, ProxyRestart, ProxyThrows,
       connVars, envVars, lossVars
  <2>2. proxy' \in {"sync", "accept", "ended"}
    BY <1>7 DEF ReadFileEnd, ReadSessionEnd, ProxyLosesConnection, ProxyRestart, ProxyThrows
  <2>3. UNCHANGED <<next, part, written, synced, checkpoint, cached>>
    BY <1>a, <2>1
  <2>4. up' \in BOOLEAN
    BY <1>1, <2>1, Zenon DEF Values
  <2> QED
    BY <1>1, <1>6, <2>1, <2>2, <2>3, <2>4 DEF Values
<1>8. CASE Reply \/ FinalReply \/ Verify
  <2>1. /\ UNCHANGED <<centralVars, deaf, meta, received, rejected, handed, part, written,
                       checkpoint, cached, faults, leftBehind, disk, powerLost>>
        /\ up' \in {up, FALSE}
    BY <1>8 DEF Reply, FinalReply, Verify, ProxyThrows, connVars, diskVars, envVars, lossVars
  <2>2. /\ proxy' \in {"read", "accept", "meta", "rename"} /\ next' \in {next, next + 1}
        /\ synced' \in {synced, written}
    BY <1>8 DEF Reply, FinalReply, Verify, ProxyThrows, diskVars
  <2>3. up' \in BOOLEAN
    BY <1>1, <2>1, Zenon DEF Values
  <2>4. next' \in Nat
    BY <1>1, <2>2 DEF Values
  <2>5. synced' \subseteq AllBlocks
    BY <1>1, <2>2 DEF Values
  <2> QED
    BY <1>1, <1>6, <2>1, <2>2, <2>3, <2>4, <2>5 DEF Values
<1>9. CASE BeginFails \/ DispatchFails \/ DistributionHangs \/ BarrierFails
  <2>1. faults' \in Budget /\ leftBehind' = leftBehind
    BY <1>1, <1>9, SpendType DEF BeginFails, DispatchFails, DistributionHangs, BarrierFails, Values
  <2>2. /\ UNCHANGED <<centralVars, deaf, meta, next, received, rejected, handed, written, synced,
                       checkpoint, cached, disk, powerLost>>
        /\ up' \in {up, FALSE} /\ part' \in {part, "full"} /\ proxy' \in {"accept", "hung"}
    BY <1>9 DEF BeginFails, DispatchFails, DistributionHangs, BarrierFails, ProxyThrows, connVars,
       diskVars, lossVars
  <2>3. up' \in BOOLEAN
    BY <1>1, <2>2, Zenon DEF Values
  <2>4. part' \in {"absent", "short", "full"}
    BY <1>1, <2>2 DEF Values
  <2> QED
    BY <1>1, <1>6, <2>1, <2>2, <2>3, <2>4 DEF Values
<1>10. ASSUME Down,
              deaf' \subseteq {"central", "proxy"}, cached' \in BOOLEAN, powerLost' \in BOOLEAN,
              part' \in {"absent", "short", "full"},
              written' \subseteq AllBlocks, synced' \subseteq AllBlocks,
              checkpoint' \in [limit : Limits \cup {0}, next : Nat],
              disk' \in [name : {"none", "part", "cached"},
                         checkpoint : [limit : Limits \cup {0}, next : Nat]]
       PROVE  Values'
  <2>1. faults' \in Budget /\ leftBehind' = leftBehind
    BY <1>1, <1>10, SpendType DEF Down, Values
  <2>2. /\ UNCHANGED centralVars /\ proxy' = "down" /\ up' = FALSE /\ received' = {}
        /\ rejected' = FALSE /\ handed' = {} /\ next' = 0 /\ meta' = 0
    BY <1>10 DEF Down
  <2> QED
    BY <1>1, <1>10, <2>1, <2>2 DEF centralVars, Values
<1>11. CASE Kill
  <2>1. Down /\ UNCHANGED <<part, written, synced, checkpoint, cached, disk, powerLost>>
    BY <1>11 DEF Kill, diskVars, lossVars
  <2>2. deaf' \subseteq {"central", "proxy"}
    BY <1>1, <1>11 DEF Kill, Notices, Values
  <2> QED
    BY <1>1, <1>10, <2>1, <2>2 DEF Values
<1>12. CASE PowerLoss
  <2>1. /\ Down /\ FileFromDisk /\ checkpoint' \in {disk.checkpoint, NoCheckpoint}
        /\ disk' = [name |-> disk.name, checkpoint |-> checkpoint'] /\ powerLost' \in BOOLEAN
    BY <1>12 DEF PowerLoss
  <2>2. deaf' \subseteq {"central", "proxy"}
    BY <1>1, <1>12 DEF PowerLoss, Values
  <2>3. /\ disk.name \in {"none", "part", "cached"}
        /\ disk.checkpoint \in [limit : Limits \cup {0}, next : Nat]
        /\ NoCheckpoint \in [limit : Limits \cup {0}, next : Nat]
    BY <1>1 DEF Values, NoCheckpoint
  <2>4. /\ checkpoint' \in [limit : Limits \cup {0}, next : Nat]
        /\ disk' \in [name : {"none", "part", "cached"},
                      checkpoint : [limit : Limits \cup {0}, next : Nat]]
    BY <2>1, <2>3
  <2>5. cached' \in BOOLEAN
    BY <2>1 DEF FileFromDisk
  <2>6. /\ part' \in {"absent", "short", "full"}
        /\ written' \subseteq AllBlocks /\ synced' \subseteq AllBlocks
    BY <1>1, <2>1, <2>3 DEF FileFromDisk, Values
  <2> QED
    BY <1>10, <2>1, <2>2, <2>4, <2>5, <2>6
<1>13. CASE Writeback
  <2> DEFINE name == IF cached THEN "cached" ELSE IF part = "absent" THEN "none" ELSE "part"
  <2>1. /\ disk' = [name |-> name, checkpoint |-> checkpoint]
        /\ UNCHANGED <<centralVars, connVars, proxyVars, diskVars, faults, leftBehind, powerLost>>
    BY <1>13 DEF Writeback
  <2>2. disk' \in [name : {"none", "part", "cached"},
                   checkpoint : [limit : Limits \cup {0}, next : Nat]]
    BY <1>1, <2>1 DEF Values
  <2> QED
    BY <1>1, <2>1, <2>2 DEF centralVars, connVars, proxyVars, diskVars, Values
<1> QED
  BY <1>2, <1>3, <1>4, <1>5, <1>7, <1>8, <1>9, <1>11, <1>12, <1>13 DEF ProxyStep

LEMMA TypedStep == ASSUME Inv, Session, Typed, [Next]_vars PROVE Typed'
<1>1. CASE Over \/ UNCHANGED vars
  <2>1. UNCHANGED vars
    BY <1>1 DEF Over
  <2>2. Values'
    BY <2>1 DEF vars, centralVars, connVars, proxyVars, diskVars, envVars, lossVars, Typed, Values
  <2> QED
    BY <2>2, QueuesStep DEF Typed
<1>2. CASE CentralStep \/ ProxyStep \/ Fault \/ Writeback
  BY <1>2, QueuesStep, CentralValues, ProxyValues DEF Typed, Fault
<1> QED
  BY <1>1, <1>2 DEF Next

LEMMA TypedInit == Init => Typed
<1> SUFFICES ASSUME Init PROVE Typed
  OBVIOUS
<1>1. faults \in Budget
  BY CentralCacheAssumption DEF Init, Budget
<1>2. checkpoint \in [limit : Limits \cup {0}, next : Nat]
  BY DEF Init, NoCheckpoint
<1>3. disk \in [name : {"none", "part", "cached"},
                checkpoint : [limit : Limits \cup {0}, next : Nat]]
  BY DEF Init, NoCheckpoint
<1>4. Values
  BY <1>1, <1>2, <1>3 DEF Init, Values
<1> QED
  BY <1>4, EmptySeq DEF Init, Typed, Queues

------------------------------------------------------------------------------
(* The steps of the session *)

LEMMA InFileStep == ASSUME Inv, Session, Typed, [Next]_vars PROVE InFile'
<1>1. InFile /\ DiskTyped /\ next \in Nat /\ meta \in Limits \cup {0}
  BY DEF Session, Inv, Typed, Values
<1>2. CASE CentralStep \/ CentralRestart \/ Break \/ Writeback \/ Over \/ UNCHANGED vars
  <2>1. CASE Connect
    BY <2>1 DEF Connect, InFile, AtFile, AtSection, Finishing
  <2>2. CASE UNCHANGED <<proxyVars, diskVars>>
    <3>1. UNCHANGED <<proxy, meta, next, part, checkpoint, cached>>
      BY <2>2 DEF proxyVars, diskVars
    <3>2. limit \in Limits /\ SectionCount(meta)' = SectionCount(meta)
      BY <3>1 DEF Typed, Values
    <3> QED
      BY <1>1, <3>1, <3>2 DEF InFile
  <2> QED
    BY <1>2, <2>1, <2>2 DEF CentralStep, ReadResume, SendSection, ReadStatus, CentralLosesConnection,
       EndSession, CentralRestart, Break, Writeback, Over, vars
<1>3. CASE ReadMeta
  <2> DEFINE l == Head(toProxy).limit
  <2>1. l \in Limits
    BY <1>3, HeadTailProperties, FrameTypes DEF ReadMeta, Typed, Queues
  <2> HIDE DEF l
  <2>2. CASE UNCHANGED <<proxy, meta, next, part, checkpoint, cached>>
    BY <1>1, <2>2 DEF InFile
  <2>3. CASE proxy' = "size" /\ meta' = l /\ next' = Loaded(l)
    <3>1. SectionCount(l) \in Nat /\ SectionCount(l) <= TotalBlocks
      BY <2>1, CountType
    <3>2. checkpoint.next \in Nat /\ TotalBlocks \in Nat
      BY CentralCacheAssumption DEF Typed, Values
    <3>3. /\ Loaded(l) <= TotalBlocks /\ (Loaded(l) < SectionCount(l) \/ SectionCount(l) = 0)
          /\ Loaded(l) < SectionCount(l) \/ Loaded(l) = 0
      BY <3>1, <3>2 DEF Loaded
    <3> QED
      BY <2>1, <2>3, <3>3 DEF InFile, AtSection, Finishing
  <2> QED
    BY <1>3, <2>2, <2>3 DEF ReadMeta, l, proxyVars, diskVars
<1>4. CASE SizePart \/ ReadData \/ ReadFileEnd \/ Sync \/ SaveCheckpoint \/ EnqueueSection
  <2>1. CASE SizePart
    BY <1>1, <2>1 DEF SizePart, InFile, AtFile, AtSection, Finishing
  <2>2. CASE ReadData
    BY <1>1, <2>2 DEF ReadData, InFile, AtFile, AtSection, Finishing
  <2>3. CASE ReadFileEnd
    BY <1>1, <2>3 DEF ReadFileEnd, ProxyThrows, diskVars, InFile, AtFile, AtSection, Finishing
  <2>4. CASE Sync
    BY <1>1, <2>4 DEF Sync, IsFinal, InFile, AtFile, AtSection, Finishing
  <2>5. CASE SaveCheckpoint
    BY <1>1, <2>5 DEF SaveCheckpoint, InFile, AtFile, AtSection, Finishing
  <2>6. CASE EnqueueSection
    BY <1>1, <2>6 DEF EnqueueSection, IsFinal, diskVars, InFile, AtFile, AtSection, Finishing
  <2> QED
    BY <1>4, <2>1, <2>2, <2>3, <2>4, <2>5, <2>6
<1>5. CASE Reply \/ Verify \/ RenamePart \/ RemoveCheckpoint \/ FinalReply
  <2>1. CASE Reply
    <3>1. proxy = "reply" /\ UNCHANGED <<meta, part, checkpoint, cached>>
      BY <2>1 DEF Reply, diskVars
    <3>2. (proxy' = "read" /\ next' = next + 1) \/ proxy' = "accept"
      BY <2>1 DEF Reply, ProxyThrows
    <3>3. meta \in Limits /\ SectionCount(meta) \in Nat
      BY <1>1, <3>1, CountType DEF InFile, AtFile
    <3> QED
      BY <1>1, <3>1, <3>2, <3>3 DEF InFile, AtFile, AtSection, Finishing
  <2>2. CASE Verify
    BY <1>1, <2>2 DEF Verify, ProxyThrows, InFile, AtFile, AtSection, Finishing
  <2>3. CASE RenamePart
    BY <1>1, <2>3 DEF RenamePart, InFile, AtFile, AtSection, Finishing
  <2>4. CASE RemoveCheckpoint
    BY <1>1, <2>4 DEF RemoveCheckpoint, InFile, AtFile, AtSection, Finishing
  <2>5. CASE FinalReply
    BY <1>1, <2>5 DEF FinalReply, ProxyThrows, diskVars, InFile, AtFile, AtSection, Finishing
  <2> QED
    BY <1>5, <2>1, <2>2, <2>3, <2>4, <2>5
<1>6. CASE ReadSessionEnd \/ ProxyLosesConnection \/ DispatchFails \/ BarrierFails \/ BeginFails
           \/ Kill \/ PowerLoss \/ ProxyRestart \/ DistributionHangs
  <2>1. proxy' \in Resting
    BY <1>6 DEF ReadSessionEnd, ProxyLosesConnection, DispatchFails, BarrierFails, BeginFails,
       Kill, PowerLoss, Down, ProxyRestart, DistributionHangs, ProxyThrows, Resting
  <2> QED
    BY <2>1 DEF InFile, Resting, AtFile, AtSection, Finishing
<1> QED
  BY <1>2, <1>3, <1>4, <1>5, <1>6 DEF Next, ProxyStep, Fault

\* Nothing new is confirmed, the disk keeps what it has and the proxy stays where it is.
LEMMA AnsweredSame ==
    ASSUME AnsweredIsKept, Answered' \subseteq Answered, limit' = limit, powerLost => powerLost',
           cached => cached', checkpoint' = checkpoint \/ cached', part' = part \/ part' = "full" \/ cached',
           proxy' \in AtFile => proxy \in AtFile /\ UNCHANGED <<meta, next>>,
           \A i \in 1 .. Len(toProxy') : toProxy'[i].type = "META" =>
               \E j \in 1 .. Len(toProxy) : toProxy[j] = toProxy'[i]
    PROVE  AnsweredIsKept'
<1> SUFFICES ASSUME ~powerLost', NEW n \in Answered', n > 0
             PROVE  /\ Kept(n)'
                    /\ (proxy \in AtFile => meta = limit /\ n <= next)'
                    /\ \A i \in 1 .. Len(toProxy') :
                           toProxy'[i].type = "META" => toProxy'[i].limit = limit'
  BY DEF AnsweredIsKept
<1>1. n \in Answered /\ Kept(n) /\ ~powerLost
  BY DEF AnsweredIsKept
<1>2. Kept(n)'
  BY <1>1 DEF Kept
<1> QED
  BY <1>1, <1>2 DEF AnsweredIsKept

NoNewMeta ==
    \A i \in 1 .. Len(toProxy') : toProxy'[i].type = "META" =>
        \E j \in 1 .. Len(toProxy) : toProxy[j] = toProxy'[i]

LEMMA ReadsOn ==
    ASSUME Queues, \/ toProxy' = toProxy \/ toProxy' = <<>>
                   \/ toProxy # <<>> /\ toProxy' = Tail(toProxy)
    PROVE  NoNewMeta
<1>1. CASE toProxy' = toProxy
  BY <1>1 DEF NoNewMeta
<1>2. CASE toProxy' = <<>>
  BY <1>2, EmptySeq DEF NoNewMeta
<1>3. CASE toProxy # <<>> /\ toProxy' = Tail(toProxy)
  <2>1. /\ Len(toProxy) \in Nat /\ Len(toProxy') = Len(toProxy) - 1
        /\ \A i \in 1 .. Len(toProxy') : toProxy'[i] = toProxy[i + 1]
    BY <1>3, HeadTailProperties, LenProperties DEF Queues
  <2>2. ASSUME NEW i \in 1 .. Len(toProxy')
        PROVE  \E j \in 1 .. Len(toProxy) : toProxy[j] = toProxy'[i]
    <3>1. i + 1 \in 1 .. Len(toProxy) /\ toProxy[i + 1] = toProxy'[i]
      BY <2>1
    <3> QED
      BY <3>1
  <2> QED
    BY <2>2 DEF NoNewMeta
<1> QED
  BY <1>1, <1>2, <1>3

LEMMA WritesOn ==
    ASSUME Queues, NEW frames \in Seq(ProxyFrames), toProxy' = Send(toProxy, frames),
           \A i \in 1 .. Len(frames) : frames[i].type # "META"
    PROVE  NoNewMeta
<1>1. CASE toProxy' = toProxy
  BY <1>1 DEF NoNewMeta
<1>2. CASE toProxy' = toProxy \o frames
  <2>1. /\ Len(toProxy) \in Nat /\ Len(frames) \in Nat
        /\ Len(toProxy') = Len(toProxy) + Len(frames)
        /\ \A i \in 1 .. Len(toProxy) + Len(frames) :
             toProxy'[i] = IF i <= Len(toProxy) THEN toProxy[i] ELSE frames[i - Len(toProxy)]
    BY <1>2, ConcatProperties, LenProperties DEF Queues
  <2>2. ASSUME NEW i \in 1 .. Len(toProxy'), toProxy'[i].type = "META"
        PROVE  \E j \in 1 .. Len(toProxy) : toProxy[j] = toProxy'[i]
    <3>1. CASE i <= Len(toProxy)
      BY <2>1, <3>1
    <3>2. CASE i > Len(toProxy)
      <4>1. i - Len(toProxy) \in 1 .. Len(frames) /\ toProxy'[i] = frames[i - Len(toProxy)]
        BY <2>1, <3>2
      <4> QED
        BY <2>2, <4>1
    <3> QED
      BY <2>1, <3>1, <3>2
  <2> QED
    BY <2>2 DEF NoNewMeta
<1> QED
  BY <1>1, <1>2 DEF Send

LEMMA AnsweredCentral ==
    ASSUME Inv, Session, Typed, CentralStep \/ CentralRestart \/ Break \/ Writeback
    PROVE  AnsweredIsKept'
<1>1. AnsweredIsKept /\ Queues /\ confirmed \in Answered /\ Answered \subseteq {confirmed, section + 1}
  BY DEF Session, Typed, Answered
<1>2. ASSUME UNCHANGED <<proxyVars, diskVars, powerLost>>, NoNewMeta, limit' = limit,
             Answered' \subseteq Answered
      PROVE  AnsweredIsKept'
  BY <1>1, <1>2, AnsweredSame DEF proxyVars, diskVars, NoNewMeta
<1>3. CASE Connect
  <2>1. /\ Answered' = {confirmed'} /\ limit' = limit
        /\ confirmed' = IF powerLost THEN 0 ELSE confirmed
    BY <1>3 DEF Connect, Answered
  <2>2. UNCHANGED <<part, checkpoint, cached>> /\ proxy' = "meta" /\ toProxy' = <<Meta(limit)>>
    BY <1>3 DEF Connect, diskVars
  <2>3. \A n \in Answered' : n > 0 => Kept(n)'
    <3>1. CASE powerLost
      BY <2>1, <3>1
    <3>2. CASE ~powerLost
      BY <1>1, <2>1, <2>2, <3>2 DEF AnsweredIsKept, Kept
    <3> QED
      BY <3>1, <3>2
  <2>4. \A i \in 1 .. Len(toProxy') : toProxy'[i].limit = limit'
    BY <2>1, <2>2 DEF Meta
  <2> QED
    BY <2>2, <2>3, <2>4 DEF AnsweredIsKept, AtFile
<1>p. ASSUME UNCHANGED envVars \/ UNCHANGED lossVars PROVE UNCHANGED powerLost
  BY <1>p DEF envVars, lossVars
<1>4. CASE CentralThrows /\ UNCHANGED <<proxyVars, diskVars, envVars>>
  <2>1. NoNewMeta
    BY <1>1, <1>4, ReadsOn DEF CentralThrows
  <2>2. Answered' \subseteq Answered
    BY <1>4 DEF CentralThrows, Answered
  <2> QED
    BY <1>2, <1>4, <1>p, <2>1, <2>2 DEF CentralThrows
<1>5. CASE ReadResume /\ ~CentralThrows
  <2>1. NoNewMeta
    BY <1>1, <1>5, ReadsOn DEF ReadResume
  <2>2. Answered' \subseteq Answered
    BY <1>5 DEF ReadResume, Answered
  <2> QED
    BY <1>2, <1>5, <1>p, <2>1, <2>2 DEF ReadResume
<1>6. CASE SendSection
  <2>1. NoNewMeta
    <3>1. SectionFrames(section, limit) \in Seq(ProxyFrames) /\
          \A i \in 1 .. Len(SectionFrames(section, limit)) :
             SectionFrames(section, limit)[i].type # "META"
      BY SectionFramesType DEF Typed, Values
    <3> QED
      BY <1>1, <1>6, <3>1, WritesOn DEF SendSection
  <2>2. toCentral # <<>> => Head(toCentral).code = "Failed"
    <3>1. toCentral # <<>> => 1 \in 1 .. Len(toCentral) /\ Head(toCentral) = toCentral[1]
      BY EmptySeq DEF Typed, Queues
    <3> QED
      BY <1>6, <3>1 DEF SendSection, Session, AnswersInOrder, Refusals
  <2>3. Answered' \subseteq Answered
    BY <1>6, <2>2 DEF SendSection, Answered
  <2> QED
    BY <1>2, <1>6, <1>p, <2>1, <2>3 DEF SendSection
<1>7. CASE ReadStatus /\ ~CentralThrows
  <2>1. NoNewMeta
    BY <1>1, <1>7, ReadsOn DEF ReadStatus
  <2>2. /\ central = "status" /\ toCentral # <<>> /\ Head(toCentral).code = "Cached"
        /\ confirmed' = section + 1 /\ central' # "status"
    BY <1>7 DEF ReadStatus
  <2>3. Answered' \subseteq Answered
    BY <2>2 DEF Answered
  <2> QED
    BY <1>2, <1>7, <1>p, <2>1, <2>3 DEF ReadStatus
<1>8. CASE EndSession
  <2>1. NoNewMeta
    <3> DEFINE frames == <<[type |-> "SESSION_END"]>>
    <3>1. frames \in Seq(ProxyFrames) /\ \A i \in 1 .. Len(frames) : frames[i].type # "META"
      BY Written
    <3>2. toProxy' = Send(toProxy, frames)
      BY <1>8 DEF EndSession
    <3> HIDE DEF frames
    <3> QED
      BY <1>1, <3>1, <3>2, WritesOn
  <2>2. Answered' \subseteq Answered
    BY <1>8 DEF EndSession, Answered
  <2> QED
    BY <1>2, <1>8, <1>p, <2>1, <2>2 DEF EndSession
<1>9. CASE CentralRestart
  <2>1. CASE limit' = limit
    <3>1. NoNewMeta
      BY <1>1, <1>9, ReadsOn DEF CentralRestart
    <3>2. Answered' \subseteq Answered
      BY <1>9, <2>1 DEF CentralRestart, Answered
    <3> QED
      BY <1>2, <1>9, <1>p, <2>1, <3>1, <3>2 DEF CentralRestart
  <2>2. CASE limit' # limit
    <3>1. Answered' = {0}
      BY <1>9, <2>2 DEF CentralRestart, Answered
    <3> QED
      BY <3>1 DEF AnsweredIsKept
  <2> QED
    BY <2>1, <2>2
<1>10. CASE Break
  <2>1. NoNewMeta
    BY <1>1, <1>10, ReadsOn DEF Break
  <2>2. Answered' \subseteq Answered /\ limit' = limit
    BY <1>10 DEF Break, Answered, centralVars
  <2> QED
    BY <1>2, <1>10, <1>p, <2>1, <2>2 DEF Break
<1>11. CASE Writeback
  <2>1. UNCHANGED <<centralVars, toProxy, toCentral>>
    BY <1>11 DEF Writeback, connVars
  <2>2. NoNewMeta /\ Answered' \subseteq Answered /\ limit' = limit
    BY <1>1, <2>1, ReadsOn DEF Answered, centralVars
  <2> QED
    BY <1>2, <1>11, <2>2 DEF Writeback
<1> QED
  BY <1>3, <1>4, <1>5, <1>6, <1>7, <1>8, <1>9, <1>10, <1>11 DEF CentralStep, ReadResume, ReadStatus, CentralLosesConnection

\* A refusal is no confirmation, wherever it stands in the queue.
LEMMA RefusalSent ==
    ASSUME Queues, UNCHANGED centralVars, NEW d \in {"good", "none", "bad"},
           \/ toCentral' = toCentral
           \/ toCentral' = Send(toCentral, <<Status("Failed", d)>>)
           \/ toCentral' = Send(toCentral, <<>>)
    PROVE  Answered' \subseteq Answered
<1>1. UNCHANGED <<central, section, confirmed>>
  BY DEF centralVars
<1>2. CASE toCentral' = toCentral \/ toCentral' = Send(toCentral, <<>>)
  <2>1. toCentral' = toCentral
    BY <1>2, ConcatEmptySeq DEF Send, Queues
  <2> QED
    BY <1>1, <2>1 DEF Answered
<1>3. CASE toCentral' = Send(toCentral, <<Status("Failed", d)>>)
  <2>1. CASE toCentral = <<>>
    <3>1. toCentral' = toCentral \/ (toCentral' # <<>> /\ Head(toCentral') = Status("Failed", d))
      BY <1>3, <2>1 DEF Send
    <3> QED
      BY <1>1, <3>1 DEF Answered, Status
  <2>2. CASE toCentral # <<>>
    <3>1. Status("Failed", d) \in CentralFrames
      BY Written
    <3>2. Head(toCentral') = Head(toCentral)
      BY <1>3, <2>2, <3>1 DEF Send, Queues
    <3> QED
      BY <1>1, <2>2, <3>2 DEF Answered
  <2> QED
    BY <2>1, <2>2
<1> QED
  BY <1>2, <1>3

LEMMA AnsweredProxy ==
    ASSUME Inv, Session, Typed, ReadMeta \/ SizePart \/ Reply \/ FinalReply \/ BarrierFails
    PROVE  AnsweredIsKept'
<1>0. UNCHANGED powerLost
  BY DEF ReadMeta, SizePart, Reply, FinalReply, BarrierFails, envVars, lossVars
<1> SUFFICES ASSUME ~powerLost PROVE AnsweredIsKept'
  BY <1>0 DEF AnsweredIsKept
<1>1. AnsweredIsKept /\ Queues /\ confirmed \in Answered /\ DiskTyped /\ InFile /\ InStep
  BY DEF Session, Typed, Answered, Inv
<1>2. next \in Nat /\ checkpoint.next \in Nat /\ limit \in Limits /\ section \in Nat /\ confirmed \in Nat
  BY DEF Typed, Values
<1>3. CASE ReadMeta
  <2>1. toProxy # <<>> /\ proxy = "meta" /\ toProxy' = Tail(toProxy) /\ UNCHANGED centralVars
    BY <1>3 DEF ReadMeta
  <2>2. toProxy[1].type = "META" /\ Head(toProxy) = toProxy[1] /\ 1 \in 1 .. Len(toProxy)
    BY <1>1, <1>3, EmptySeq DEF ReadMeta, Queues
  <2>3. toCentral = <<>>
    BY <2>2 DEF Session, SentInOrder
  <2>4. Answered' = {confirmed}
    <3>1. CASE toCentral' = toCentral
      BY <2>1, <2>3, <3>1 DEF Answered, centralVars
    <3>2. CASE toCentral' # toCentral
      <4>1. up
        BY <1>3, <2>3, <3>2, ConcatEmptySeq DEF ReadMeta, Send
      <4>2. central # "status"
        BY <1>1, <2>1, <4>1 DEF InStep, AtSection, AtFile
      <4> QED
        BY <2>1, <4>2 DEF Answered, centralVars
    <3> QED
      BY <3>1, <3>2
  <2>5. NoNewMeta
    BY <1>1, <2>1, ReadsOn
  <2> DEFINE l == Head(toProxy).limit
  <2>6. CASE UNCHANGED <<proxyVars, diskVars>>
    BY <1>1, <2>1, <2>4, <2>5, <2>6, <1>0, AnsweredSame DEF proxyVars, diskVars, centralVars, NoNewMeta
  <2>7. CASE /\ ~cached /\ proxy' = "size" /\ meta' = l /\ next' = Loaded(l) /\ OpenPart(l)
             /\ UNCHANGED <<checkpoint, cached>>
    <3>1. CASE confirmed = 0
      BY <2>4, <3>1 DEF AnsweredIsKept
    <3>2. CASE confirmed > 0
      <4>1. l = limit /\ Kept(confirmed)
        BY <1>1, <2>2, <3>2 DEF AnsweredIsKept
      <4>2. Loaded(limit) = checkpoint.next /\ confirmed <= checkpoint.next
        BY <2>7, <4>1 DEF Kept, Loaded
      <4>3. UNCHANGED part
        BY <1>2, <2>7, <3>2, <4>1, <4>2 DEF OpenPart
      <4>4. Kept(confirmed)'
        BY <2>1, <2>7, <4>1, <4>3, <2>4 DEF Kept, centralVars
      <4>5. meta' = limit' /\ confirmed' <= next' /\ confirmed' = confirmed
        BY <2>1, <2>7, <4>1, <4>2 DEF centralVars
      <4>6. \A i \in 1 .. Len(toProxy') : toProxy'[i].type = "META" => toProxy'[i].limit = limit'
        BY <1>1, <2>1, <2>5, <3>2 DEF NoNewMeta, AnsweredIsKept, centralVars
      <4> QED
        BY <2>4, <4>4, <4>5, <4>6 DEF AnsweredIsKept
    <3> QED
      BY <1>2, <3>1, <3>2
  <2> QED
    BY <1>3, <2>6, <2>7 DEF ReadMeta
<1>4. CASE SizePart
  <2>1. /\ proxy = "size" /\ proxy' = "read" /\ part' = "full" /\ toProxy' = toProxy
        /\ UNCHANGED <<meta, next, checkpoint, cached>> /\ UNCHANGED centralVars
    BY <1>4 DEF SizePart
  <2>2. Answered' \subseteq Answered
    <3>1. CASE up
      <4>1. central # "status"
        BY <1>1, <2>1, <3>1 DEF InStep, AtSection
      <4> QED
        BY <2>1, <4>1 DEF Answered, centralVars
    <3>2. CASE ~up
      BY <1>4, <2>1, <3>2 DEF SizePart, Send, Answered, centralVars
    <3> QED
      BY <3>1, <3>2
  <2>3. NoNewMeta
    BY <1>1, <2>1, ReadsOn
  <2> QED
    BY <1>1, <2>1, <2>2, <2>3, <1>0, AnsweredSame DEF AtFile, centralVars, NoNewMeta
<1>5. CASE Reply
  <2>1. UNCHANGED centralVars /\ UNCHANGED <<meta, part, checkpoint, cached>> /\ proxy = "reply"
    BY <1>5 DEF Reply, diskVars
  <2>2. CASE up
    <3>1. /\ central = "status" /\ meta = limit /\ next = section /\ toCentral = <<>> /\ toProxy = <<>>
      <4>1. central \in {"connect", "resume", "send", "status", "sent", "exited"}
        BY DEF Typed, Values
      <4>2. central = "status"
        BY <1>1, <2>1, <2>2, <4>1 DEF InStep
      <4> QED
        BY <1>1, <2>1, <2>2, <4>2 DEF InStep
    <3>2. toCentral' = <<Status("Cached", "none")>> /\ next' = next + 1 /\ proxy' = "read" /\ toProxy' = <<>>
      BY <1>5, <2>2, <3>1 DEF Reply, Send
    <3>3. Answered' \subseteq {confirmed, section + 1}
      BY <2>1 DEF Answered, centralVars
    <3>4. confirmed <= next
      BY <1>1, <1>2, <2>1 DEF AnsweredIsKept, AtFile
    <3>5. /\ checkpoint = [limit |-> meta, next |-> next + 1] /\ part = "full"
          /\ next < SectionCount(meta) /\ next + 1 # SectionCount(meta) /\ SectionCount(meta) \in Nat
      <4>1. section < SectionCount(limit) /\ SectionCount(limit) \in Nat
        BY <1>2, <3>1, CountType DEF Session, AnswersInOrder
      <4> QED
        BY <1>1, <2>1, <3>1, <4>1 DEF InFile, AtSection, AtFile
    <3>6. checkpoint.limit = limit /\ checkpoint.next = section + 1 /\ section + 1 < SectionCount(limit)
      BY <1>2, <3>1, <3>5
    <3>7. limit' = limit /\ SectionCount(limit)' = SectionCount(limit)
      BY <2>1 DEF centralVars
    <3>8. ASSUME NEW n \in Answered' PROVE Kept(n)' /\ meta' = limit' /\ n <= next'
      <4>1. n \in {confirmed, section + 1} /\ n <= section + 1
        BY <1>2, <3>1, <3>3, <3>4
      <4>2. Kept(n)'
        BY <1>2, <2>1, <3>5, <3>6, <3>7, <4>1 DEF Kept
      <4> QED
        BY <2>1, <3>1, <3>2, <3>7, <4>1, <4>2
    <3>9. Len(toProxy') = 0
      BY <3>2
    <3> QED
      BY <3>8, <3>9 DEF AnsweredIsKept
  <2>3. CASE ~up
    <3>1. /\ proxy' = "accept" /\ toProxy' = <<>> /\ toCentral' = toCentral
      BY <1>5, <2>3 DEF Reply, ProxyThrows, Send
    <3>2. Answered' \subseteq Answered
      BY <2>1, <3>1 DEF Answered, centralVars
    <3>3. NoNewMeta
      BY <1>1, <3>1, ReadsOn
    <3> QED
      BY <1>1, <2>1, <3>1, <3>2, <3>3, <1>0, AnsweredSame DEF AtFile, centralVars, NoNewMeta
  <2> QED
    BY <2>2, <2>3
<1>6. CASE FinalReply \/ BarrierFails
  <2>1. /\ UNCHANGED centralVars /\ UNCHANGED cached /\ proxy = "final"
        /\ proxy' \in {"meta", "accept"} /\ toProxy' \in {toProxy, <<>>}
    BY <1>6 DEF FinalReply, BarrierFails, ProxyThrows, diskVars
  <2>2. cached'
    BY <1>1, <2>1 DEF InFile
  <2>3. ASSUME NEW n \in Answered', n > 0, NEW i \in 1 .. Len(toProxy'), toProxy'[i].type = "META"
        PROVE  FALSE
    <3>1. toProxy' = toProxy
      BY <2>1, <2>3, EmptySeq
    <3> QED
      BY <2>1, <2>3, <3>1 DEF Session, SentInOrder
  <2> QED
    BY <2>1, <2>2, <2>3 DEF AnsweredIsKept, Kept, AtFile
<1> QED
  BY <1>3, <1>4, <1>5, <1>6

LEMMA AnsweredKills ==
    ASSUME Inv, Session, Typed, ~powerLost, UNCHANGED powerLost,
           \/ ReadData \/ ReadFileEnd \/ Sync \/ SaveCheckpoint \/ EnqueueSection \/ Verify
           \/ RenamePart \/ RemoveCheckpoint \/ ReadSessionEnd \/ ProxyLosesConnection
           \/ ProxyRestart \/ BeginFails \/ DispatchFails \/ DistributionHangs \/ Kill
    PROVE  AnsweredIsKept'
<1>1. AnsweredIsKept /\ Queues /\ DiskTyped /\ InFile
  BY DEF Session, Typed, Inv
<1>2. UNCHANGED centralVars /\ limit' = limit
  BY DEF ReadData, ReadFileEnd, Sync, SaveCheckpoint, EnqueueSection, Verify, RenamePart,
     RemoveCheckpoint, ReadSessionEnd, ProxyLosesConnection, ProxyRestart, BeginFails,
     DispatchFails, DistributionHangs, Kill, Down, centralVars
<1>3. CASE SaveCheckpoint
  <2>1. /\ proxy = "checkpoint" /\ proxy' = "enqueue" /\ UNCHANGED <<toProxy, toCentral>>
        /\ checkpoint' = [limit |-> meta, next |-> next + 1]
        /\ UNCHANGED <<meta, next, part, cached>>
    BY <1>3 DEF SaveCheckpoint, connVars
  <2>2. Answered' = Answered
    BY <1>2, <2>1 DEF Answered, centralVars
  <2>3. ASSUME NEW n \in Answered, n > 0
        PROVE  meta = limit /\ n <= next /\ Kept(n)
    BY <1>1, <2>1, <2>3 DEF AnsweredIsKept, AtFile
  <2>4. ~cached /\ meta \in Limits /\ part = "full" /\ next \in Nat /\ checkpoint.next \in Nat
    BY <1>1, <2>1 DEF Inv, CacheVerified, InFile, AtFile, AtSection, DiskTyped
  <2>5. SectionCount(meta) \in Nat
    BY <2>4, CountType
  <2>6. next + 1 # SectionCount(meta) /\ (next < SectionCount(meta) \/ SectionCount(meta) = 0)
    BY <1>1, <2>1 DEF InFile, AtFile
  <2>7. \A n \in Answered : n \in Nat
    BY DEF Answered, Typed, Values
  <2>8. ASSUME NEW n \in Answered, n > 0 PROVE Kept(n)'
    <3>1. meta = limit /\ n <= next /\ checkpoint.next < SectionCount(limit) /\ n \in Nat
      BY <2>3, <2>4, <2>7, <2>8 DEF Kept
    <3>2. n <= next + 1 /\ next + 1 < SectionCount(limit)
      BY <2>4, <2>5, <2>6, <3>1
    <3>3. checkpoint'.limit = limit /\ checkpoint'.next = next + 1
      BY <2>1, <3>1
    <3> QED
      BY <1>2, <2>1, <2>4, <3>2, <3>3 DEF Kept
  <2> QED
    BY <1>1, <1>2, <2>1, <2>2, <2>3, <2>8 DEF AnsweredIsKept
<1>4. ASSUME NoNewMeta, Answered' \subseteq Answered,
             cached => cached', checkpoint' = checkpoint \/ cached', part' = part \/ part' = "full" \/ cached',
             proxy' \in AtFile => proxy \in AtFile /\ UNCHANGED <<meta, next>>
      PROVE  AnsweredIsKept'
  BY <1>1, <1>2, <1>4, AnsweredSame DEF NoNewMeta
<1>5. CASE ReadData \/ Sync \/ EnqueueSection \/ RenamePart \/ RemoveCheckpoint
  <2>1. /\ toCentral' = toCentral
        /\ \/ toProxy' = toProxy
           \/ toProxy # <<>> /\ toProxy' = Tail(toProxy)
    <3>1. CASE ReadData
      BY <3>1 DEF ReadData
    <3> QED
      BY <1>5, <3>1 DEF Sync, EnqueueSection, RenamePart, RemoveCheckpoint, connVars
  <2>2. NoNewMeta /\ Answered' \subseteq Answered
    BY <1>1, <1>2, <2>1, ReadsOn DEF Answered, centralVars
  <2>3. CASE ReadData
    BY <1>4, <2>2, <2>3 DEF ReadData
  <2>4. CASE Sync
    BY <1>4, <2>2, <2>4 DEF Sync, AtFile
  <2>5. CASE EnqueueSection
    BY <1>4, <2>2, <2>5 DEF EnqueueSection, AtFile, diskVars
  <2>6. CASE RenamePart
    BY <1>4, <2>2, <2>6 DEF RenamePart, AtFile
  <2>7. CASE RemoveCheckpoint
    BY <1>1, <1>4, <2>2, <2>7 DEF RemoveCheckpoint, AtFile, InFile
  <2> QED
    BY <1>5, <2>3, <2>4, <2>5, <2>6, <2>7
<1>6. ASSUME UNCHANGED <<checkpoint, cached>>, part' = part \/ part' = "full", proxy' \notin AtFile,
             toProxy' = toProxy \/ toProxy' = <<>>,
             \/ toCentral' = toCentral \/ toCentral' = Send(toCentral, <<>>)
             \/ toCentral' = Send(toCentral, <<Status("Failed", "none")>>)
             \/ toCentral' = Send(toCentral, <<Status("Failed", "bad")>>)
      PROVE  AnsweredIsKept'
  <2>1. NoNewMeta
    BY <1>1, <1>6, ReadsOn
  <2>2. Answered' \subseteq Answered
    BY <1>1, <1>2, <1>6, RefusalSent
  <2> QED
    BY <1>4, <1>6, <2>1, <2>2
<1>7. CASE ReadFileEnd
  <2>1. CASE ProxyThrows(<<Status("Failed", "none")>>)
    BY <1>6, <1>7, <2>1 DEF ReadFileEnd, ProxyThrows, diskVars, AtFile
  <2>2. CASE proxy' = "sync" /\ toProxy' = Tail(toProxy) /\ UNCHANGED toCentral
    <3>1. NoNewMeta /\ Answered' \subseteq Answered
      BY <1>1, <1>2, <1>7, <2>2, ReadsOn DEF ReadFileEnd, Answered, centralVars
    <3> QED
      BY <1>4, <1>7, <2>2, <3>1 DEF ReadFileEnd, diskVars, AtFile
  <2> QED
    BY <1>7, <2>1, <2>2 DEF ReadFileEnd
<1>8. CASE Verify
  <2>1. CASE ProxyThrows(<<Status("Failed", "bad")>>)
    BY <1>6, <1>8, <2>1 DEF Verify, ProxyThrows, AtFile
  <2>2. CASE proxy' = "rename" /\ UNCHANGED connVars
    <3>1. NoNewMeta /\ Answered' \subseteq Answered
      BY <1>1, <1>2, <2>2, ReadsOn DEF Answered, centralVars, connVars
    <3> QED
      BY <1>4, <1>8, <2>2, <3>1 DEF Verify, AtFile
  <2> QED
    BY <1>8, <2>1, <2>2 DEF Verify
<1>9. CASE ReadSessionEnd \/ ProxyRestart \/ DistributionHangs \/ Kill
  BY <1>6, <1>9 DEF ReadSessionEnd, ProxyRestart, DistributionHangs, Kill, Down, diskVars,
     connVars, AtFile
<1>10. CASE ProxyLosesConnection \/ BeginFails \/ DispatchFails
  BY <1>6, <1>10 DEF ProxyLosesConnection, BeginFails, DispatchFails, ProxyThrows, diskVars, AtFile
<1> QED
  BY <1>3, <1>5, <1>7, <1>8, <1>9, <1>10

\* A power loss ends the promise; nothing else does.
LEMMA AnsweredOthers ==
    ASSUME Inv, Session, Typed,
           \/ ReadData \/ ReadFileEnd \/ Sync \/ SaveCheckpoint \/ EnqueueSection \/ Verify
           \/ RenamePart \/ RemoveCheckpoint \/ ReadSessionEnd \/ ProxyLosesConnection
           \/ ProxyRestart \/ BeginFails \/ DispatchFails \/ DistributionHangs \/ Kill
           \/ PowerLoss
    PROVE  AnsweredIsKept'
<1>0. CASE PowerLoss
  BY <1>0 DEF PowerLoss, AnsweredIsKept
<1>p. CASE ~PowerLoss
  <2>1. UNCHANGED powerLost
    BY <1>p DEF ReadData, ReadFileEnd, Sync, SaveCheckpoint, EnqueueSection, Verify, RenamePart,
       RemoveCheckpoint, ReadSessionEnd, ProxyLosesConnection, ProxyRestart, BeginFails,
       DispatchFails, DistributionHangs, Kill, envVars, lossVars
  <2> SUFFICES ASSUME ~powerLost PROVE AnsweredIsKept'
    BY <2>1 DEF AnsweredIsKept
  <2> QED
    BY <1>p, <2>1, AnsweredKills
<1> QED
  BY <1>0, <1>p

LEMMA SentInOrderStep == ASSUME Inv, Session, Typed, [Next]_vars PROVE SentInOrder'
<1>1. SentInOrder /\ Queues /\ InStep /\ AnswersInOrder
  BY DEF Session, Typed
<1>2. CASE toProxy' = <<>>
  BY <1>2, EmptySeq DEF SentInOrder
<1>3. CASE toProxy # <<>> /\ toProxy' = Tail(toProxy)
  <2>1. /\ Len(toProxy) \in Nat /\ Len(toProxy') = Len(toProxy) - 1
        /\ \A i \in 1 .. Len(toProxy') : toProxy'[i] = toProxy[i + 1]
    BY <1>1, <1>3, HeadTailProperties, LenProperties DEF Queues
  <2>2. ASSUME NEW i \in 1 .. Len(toProxy')
        PROVE  /\ toProxy'[i].type # "META"
               /\ toProxy'[i].type = "FILE_END" => i = Len(toProxy')
    <3>1. i + 1 \in 1 .. Len(toProxy) /\ toProxy'[i] = toProxy[i + 1] /\ Len(toProxy) # 1
      BY <2>1
    <3> QED
      BY <1>1, <2>1, <3>1 DEF SentInOrder
  <2> QED
    BY <2>2 DEF SentInOrder
<1>4. CASE toProxy' = toProxy /\ proxy' = proxy /\ (toCentral' = <<>> \/ toCentral' = toCentral)
  BY <1>1, <1>4 DEF SentInOrder
<1>5. CASE toProxy' = toProxy /\ (proxy # "meta" \/ toCentral # <<>>)
  BY <1>1, <1>5 DEF SentInOrder
<1>6. CASE Connect
  <2>1. toProxy' = <<Meta(limit)>> /\ proxy' = "meta" /\ toCentral' = <<>>
    BY <1>6 DEF Connect
  <2>2. Len(toProxy') = 1 /\ toProxy'[1].type = "META"
    BY <2>1 DEF Meta
  <2> QED
    BY <2>1, <2>2 DEF SentInOrder
<1>7. CASE SendSection
  <2>1. CASE up
    <3>1. toProxy = <<>>
      BY <1>1, <1>7, <2>1 DEF SendSection, InStep
    <3>2. SectionFrames(section, limit) \in Seq(ProxyFrames)
      BY SectionFramesType DEF Typed, Values
    <3>3. toProxy' = SectionFrames(section, limit)
      <4>1. toProxy' = <<>> \o SectionFrames(section, limit)
        BY <1>7, <2>1, <3>1 DEF SendSection, Send
      <4> QED
        BY <3>2, <4>1, ConcatEmptySeq
    <3>4. limit \in Limits /\ section \in Nat
      BY DEF Typed, Values
    <3>5. \A i \in 1 .. Len(SectionFrames(section, limit)) :
                /\ SectionFrames(section, limit)[i].type \in {"DATA", "FILE_END"}
                /\ SectionFrames(section, limit)[i].type = "FILE_END" =>
                      i = Len(SectionFrames(section, limit))
      BY <3>4, SectionFramesType
    <3> QED
      BY <3>3, <3>5, Zenon DEF SentInOrder
  <2>2. CASE ~up
    BY <1>4, <1>7, <2>2 DEF SendSection, Send, proxyVars
  <2> QED
    BY <2>1, <2>2
<1>8. CASE EndSession
  <2>1. CASE up
    <3>1. toProxy = <<>>
      BY <1>1, <1>8, <2>1 DEF EndSession, InStep
    <3>2. toProxy' = <<[type |-> "SESSION_END"]>>
      BY <1>8, <2>1, <3>1 DEF EndSession, Send
    <3>3. Len(toProxy') = 1 /\ toProxy'[1].type = "SESSION_END"
      BY <3>2
    <3> QED
      BY <3>3 DEF SentInOrder
  <2>2. CASE ~up
    BY <1>4, <1>8, <2>2 DEF EndSession, Send, proxyVars
  <2> QED
    BY <2>1, <2>2
<1>9. CASE ReadResume \/ ReadStatus \/ CentralLosesConnection \/ CentralRestart \/ Break
  BY <1>2, <1>4, <1>5, <1>9 DEF ReadResume, ReadStatus, CentralLosesConnection, CentralRestart, Break,
     CentralThrows, proxyVars
<1>10. CASE ReadMeta \/ ReadData
  BY <1>3, <1>10 DEF ReadMeta, ReadData
<1>11. CASE ReadFileEnd \/ ReadSessionEnd \/ ProxyLosesConnection \/ Kill \/ PowerLoss
            \/ BeginFails \/ DispatchFails \/ BarrierFails
  BY <1>2, <1>3, <1>11 DEF ReadFileEnd, ReadSessionEnd, ProxyLosesConnection, Kill, PowerLoss, Down,
     BeginFails, DispatchFails, BarrierFails, ProxyThrows
<1>12. CASE SizePart \/ Sync \/ SaveCheckpoint \/ EnqueueSection \/ Verify \/ RenamePart
            \/ RemoveCheckpoint \/ ProxyRestart \/ DistributionHangs
  BY <1>2, <1>5, <1>12 DEF SizePart, Sync, SaveCheckpoint, EnqueueSection, Verify, RenamePart,
     RemoveCheckpoint, ProxyRestart, DistributionHangs, ProxyThrows, connVars
<1>13. CASE Reply \/ FinalReply
  BY <1>2, <1>5, <1>13 DEF Reply, FinalReply, ProxyThrows
<1>14. CASE Writeback \/ Over \/ UNCHANGED vars
  BY <1>4, <1>14 DEF Writeback, Over, vars, connVars, proxyVars
<1> QED
  BY <1>6, <1>7, <1>8, <1>9, <1>10, <1>11, <1>12, <1>13, <1>14 DEF Next, CentralStep, ProxyStep, Fault

\* One more refusal at the end of the queue changes nothing for its reader.
LEMMA RefusalsMore ==
    ASSUME NEW queue \in Seq(CentralFrames), NEW d \in {"good", "none", "bad"}
    PROVE  LET more == Append(queue, Status("Failed", d))
           IN  /\ Refusals(queue) => Refusals(more)
               /\ queue # <<>> => /\ Head(more) = Head(queue)
                                  /\ Refusals(Tail(queue)) => Refusals(Tail(more))
               /\ queue = <<>> => Head(more) = Status("Failed", d) /\ Refusals(Tail(more))
<1> DEFINE f == Status("Failed", d)
           more == Append(queue, f)
<1>1. f \in CentralFrames /\ f.type = "STATUS" /\ f.code = "Failed"
  BY Written DEF Status
<1> HIDE DEF f
<1>2. /\ more \in Seq(CentralFrames) /\ more # <<>> /\ Len(more) = Len(queue) + 1 /\ Len(queue) \in Nat
      /\ \A i \in 1 .. Len(queue) : more[i] = queue[i]
      /\ more[Len(queue) + 1] = f
  BY <1>1, AppendProperties, LenProperties
<1> HIDE DEF more
<1>3. Refusals(queue) => Refusals(more)
  BY <1>1, <1>2 DEF Refusals
<1>4. /\ Head(more) = more[1] /\ Len(Tail(more)) = Len(queue)
      /\ \A i \in 1 .. Len(queue) : Tail(more)[i] = more[i + 1]
  BY <1>2, HeadTailProperties
<1>5. ASSUME queue # <<>>
      PROVE  Head(more) = Head(queue) /\ (Refusals(Tail(queue)) => Refusals(Tail(more)))
  <2>1. /\ Len(queue) > 0 /\ Head(queue) = queue[1] /\ Len(Tail(queue)) = Len(queue) - 1
        /\ \A i \in 1 .. Len(queue) - 1 : Tail(queue)[i] = queue[i + 1]
    BY <1>5, HeadTailProperties, EmptySeq
  <2>2. ASSUME Refusals(Tail(queue)), NEW i \in 1 .. Len(Tail(more))
        PROVE  Tail(more)[i].type = "STATUS" /\ Tail(more)[i].code = "Failed"
    <3>1. CASE i < Len(queue)
      <4>1. Tail(more)[i] = queue[i + 1] /\ Tail(queue)[i] = queue[i + 1] /\ i \in 1 .. Len(Tail(queue))
        BY <1>2, <1>4, <2>1, <3>1
      <4> QED
        BY <2>2, <4>1 DEF Refusals
    <3>2. CASE i = Len(queue)
      BY <1>1, <1>2, <1>4, <2>1, <3>2
    <3> QED
      BY <1>2, <1>4, <3>1, <3>2
  <2>3. Head(more) = Head(queue)
    <3>1. 1 \in 1 .. Len(queue)
      BY <1>2, <2>1
    <3>2. more[1] = queue[1]
      BY <1>2, <3>1
    <3> QED
      BY <1>4, <2>1, <3>2
  <2>4. Refusals(Tail(queue)) => Refusals(Tail(more))
    BY <2>2 DEF Refusals
  <2> QED
    BY <2>3, <2>4
<1>6. ASSUME queue = <<>> PROVE Head(more) = f /\ Refusals(Tail(more))
  <2>1. Len(queue) = 0
    BY <1>6, EmptySeq
  <2>2. Head(more) = f
    BY <1>2, <1>4, <2>1
  <2>3. Len(Tail(more)) = 0
    BY <1>4, <2>1
  <2> QED
    BY <2>2, <2>3 DEF Refusals
<1> QED
  BY <1>3, <1>5, <1>6 DEF f, more

LEMMA RefusalsRead ==
    ASSUME NEW queue \in Seq(CentralFrames), Refusals(queue), queue # <<>>
    PROVE  Head(queue).type = "STATUS" /\ Head(queue).code = "Failed" /\ Refusals(Tail(queue))
<1>1. /\ Len(queue) \in Nat /\ Len(queue) > 0 /\ Head(queue) = queue[1] /\ Len(Tail(queue)) = Len(queue) - 1
      /\ \A i \in 1 .. Len(queue) - 1 : Tail(queue)[i] = queue[i + 1]
  BY HeadTailProperties, EmptySeq, LenProperties
<1>2. 1 \in 1 .. Len(queue) /\ \A i \in 1 .. Len(queue) - 1 : i + 1 \in 1 .. Len(queue)
  BY <1>1
<1> QED
  BY <1>1, <1>2 DEF Refusals

LEMMA OneAnswer ==
    ASSUME NEW f PROVE Head(<<f>>) = f /\ Refusals(Tail(<<f>>)) /\ <<f>> # <<>>
<1>1. Head(<<f>>) = f /\ Tail(<<f>>) = <<>>
  OBVIOUS
<1> QED
  BY <1>1, EmptySeq DEF Refusals

LEMMA AnswersCentral ==
    ASSUME Inv, Session, Typed, CentralStep \/ CentralRestart \/ Break PROVE AnswersInOrder'
<1>1. AnswersInOrder /\ Queues /\ limit \in Limits /\ section \in Nat
  BY DEF Session, Typed, Values
<1>2. CASE central' \in {"connect", "sent", "exited"}
  BY <1>2 DEF AnswersInOrder
<1>3. CASE Connect
  BY <1>3 DEF Connect, AnswersInOrder
<1>4. CASE ReadResume /\ central' = "send"
  <2>1. /\ central = "resume" /\ toCentral # <<>> /\ section' = Head(toCentral).next /\ limit' = limit
        /\ toCentral' = Tail(toCentral) /\ Head(toCentral).next # SectionCount(limit)
    BY <1>4 DEF ReadResume, CentralThrows
  <2>2. section' < SectionCount(limit)' /\ Refusals(toCentral')
    BY <1>1, <2>1 DEF AnswersInOrder
  <2> QED
    BY <1>4, <2>2 DEF AnswersInOrder, Refusals
<1>5. CASE SendSection
  <2>1. /\ central = "send" /\ central' = "status" /\ UNCHANGED <<toCentral, section, limit>>
    BY <1>5 DEF SendSection
  <2>2. section' < SectionCount(limit)' /\ Refusals(toCentral)
    BY <1>1, <2>1 DEF AnswersInOrder
  <2>3. toCentral # <<>> => Head(toCentral).type = "STATUS" /\ Refusals(Tail(toCentral))
    BY <1>1, <2>2, RefusalsRead DEF Queues
  <2> QED
    BY <2>1, <2>2, <2>3 DEF AnswersInOrder, Refusals
<1>6. CASE ReadStatus /\ central' = "send"
  <2>1. /\ central = "status" /\ toCentral # <<>> /\ section' = section + 1 /\ limit' = limit
        /\ toCentral' = Tail(toCentral) /\ section + 1 # SectionCount(limit)
    BY <1>6 DEF ReadStatus, CentralThrows
  <2>2. section < SectionCount(limit) /\ Refusals(toCentral') /\ SectionCount(limit) \in Nat
    BY <1>1, <2>1, CountType DEF AnswersInOrder
  <2>3. section' < SectionCount(limit)'
    BY <1>1, <2>1, <2>2
  <2> QED
    BY <1>6, <2>2, <2>3 DEF AnswersInOrder, Refusals
<1>7. CASE Break
  <2>1. UNCHANGED <<central, section, limit>> /\ toCentral' = <<>>
    BY <1>7 DEF Break, centralVars
  <2> QED
    BY <1>1, <2>1, EmptySeq DEF AnswersInOrder, Refusals
<1>8. CASE ReadResume \/ ReadStatus \/ CentralLosesConnection \/ EndSession \/ CentralRestart
  BY <1>2, <1>4, <1>6, <1>8 DEF ReadResume, ReadStatus, CentralLosesConnection, EndSession,
     CentralRestart, CentralThrows
<1> QED
  BY <1>3, <1>5, <1>7, <1>8 DEF CentralStep

LEMMA AnswersProxy ==
    ASSUME Inv, Session, Typed,
           \/ ProxyStep \/ BeginFails \/ DispatchFails \/ DistributionHangs \/ BarrierFails
           \/ Kill \/ PowerLoss \/ Writeback
    PROVE  AnswersInOrder'
<1>1. AnswersInOrder /\ Queues /\ limit \in Limits /\ section \in Nat /\ confirmed \in Nat /\ next \in Nat
      /\ InStep /\ InFile /\ AnsweredIsKept /\ SentInOrder
  BY DEF Session, Typed, Values
<1>2. /\ UNCHANGED centralVars /\ UNCHANGED <<central, limit, section, confirmed>>
      /\ SectionCount(limit)' = SectionCount(limit)
  <2>1. UNCHANGED centralVars
    BY DEF ProxyStep, ReadMeta, SizePart, ReadData, ReadFileEnd, Sync, SaveCheckpoint,
       EnqueueSection, Reply, Verify, RenamePart, RemoveCheckpoint, FinalReply, ReadSessionEnd,
       ProxyLosesConnection, ProxyRestart, BeginFails, DispatchFails, DistributionHangs,
       BarrierFails, Kill, PowerLoss, Down, Writeback
  <2> QED
    BY <2>1 DEF centralVars
<1>3. CASE toCentral' = toCentral
  BY <1>1, <1>2, <1>3 DEF AnswersInOrder, Refusals
<1>4. ASSUME NEW d \in {"good", "none", "bad"}, toCentral' = Send(toCentral, <<Status("Failed", d)>>),
             up /\ central = "resume" => toCentral # <<>>
      PROVE  AnswersInOrder'
  <2>1. CASE ~up
    BY <1>3, <1>4, <2>1 DEF Send
  <2>2. CASE up
    <3>1. Status("Failed", d) \in CentralFrames
      BY Written
    <3>2. toCentral' = Append(toCentral, Status("Failed", d)) /\ toCentral' # <<>>
      BY <1>1, <1>4, <2>2, <3>1, AppendIsConcat, AppendProperties DEF Send, Queues
    <3>3. /\ Refusals(toCentral) => Refusals(toCentral')
          /\ toCentral # <<>> => /\ Head(toCentral') = Head(toCentral)
                                 /\ Refusals(Tail(toCentral)) => Refusals(Tail(toCentral'))
          /\ toCentral = <<>> => Head(toCentral') = Status("Failed", d) /\ Refusals(Tail(toCentral'))
      BY <1>1, <3>2, RefusalsMore DEF Queues
    <3>4. Refusals(toCentral)' = Refusals(toCentral') /\ Refusals(Tail(toCentral))' = Refusals(Tail(toCentral'))
      BY DEF Refusals
    <3>5. Status("Failed", d).type = "STATUS"
      BY DEF Status
    <3>6. CASE central = "resume"
      BY <1>1, <1>2, <1>4, <2>2, <3>2, <3>3, <3>4, <3>6 DEF AnswersInOrder
    <3>7. CASE central = "send"
      BY <1>1, <1>2, <3>2, <3>3, <3>4, <3>7 DEF AnswersInOrder
    <3>8. CASE central = "status"
      BY <1>1, <1>2, <3>2, <3>3, <3>4, <3>5, <3>8 DEF AnswersInOrder
    <3> QED
      BY <1>2, <3>6, <3>7, <3>8 DEF AnswersInOrder
  <2> QED
    BY <2>1, <2>2
<1>5. CASE toCentral' = Send(toCentral, <<>>)
  BY <1>1, <1>3, <1>5, ConcatEmptySeq DEF Send, Queues
<1>6. ASSUME NEW d, up, central = "status", toCentral' = <<Status("Cached", d)>>
      PROVE  AnswersInOrder'
  <2>1. toCentral' # <<>> /\ Head(toCentral') = Status("Cached", d) /\ Refusals(Tail(toCentral'))
    BY <1>6, OneAnswer
  <2>2. Refusals(Tail(toCentral))' = Refusals(Tail(toCentral'))
    BY DEF Refusals
  <2>3. Head(toCentral').type = "STATUS"
    BY <2>1 DEF Status
  <2> QED
    BY <1>1, <1>2, <1>6, <2>1, <2>2, <2>3 DEF AnswersInOrder
<1>7. ASSUME NEW n, NEW d, up, central \notin {"send", "status"}, toCentral' = <<Resume(n, d)>>,
             n # SectionCount(limit) => confirmed <= n /\ n < SectionCount(limit)
      PROVE  AnswersInOrder'
  <2>1. toCentral' # <<>> /\ Head(toCentral') = Resume(n, d) /\ Refusals(Tail(toCentral'))
    BY <1>7, OneAnswer
  <2>2. Refusals(Tail(toCentral))' = Refusals(Tail(toCentral'))
    BY DEF Refusals
  <2>3. Head(toCentral').type = "RESUME" /\ Head(toCentral').next = n
    BY <2>1 DEF Resume
  <2> QED
    BY <1>1, <1>2, <1>7, <2>1, <2>2, <2>3 DEF AnswersInOrder
<1>8. CASE ReadMeta
  <2> DEFINE l == Head(toProxy).limit
  <2>1. /\ toProxy # <<>> /\ proxy = "meta" /\ Head(toProxy).type = "META"
        /\ toCentral' = toCentral \/ toCentral' = Send(toCentral, <<Resume(SectionCount(l), "good")>>)
    BY <1>8 DEF ReadMeta
  <2>2. CASE up /\ toCentral' # toCentral
    <3>1. toProxy[1].type = "META" /\ Head(toProxy) = toProxy[1] /\ 1 \in 1 .. Len(toProxy)
      BY <1>1, <2>1, EmptySeq DEF Queues
    <3>2. toCentral = <<>>
      BY <1>1, <3>1 DEF SentInOrder
    <3>3. toCentral' = <<Resume(SectionCount(l), "good")>>
      BY <2>1, <2>2, <3>2 DEF Send
    <3>4. central \notin {"send", "status"}
      BY <1>1, <2>1, <2>2, <3>2 DEF InStep, AtSection, AtFile
    <3>5. central = "resume" => l = limit
      <4>1. central = "resume" => toProxy = <<Meta(limit)>>
        BY <1>1, <2>1, <2>2, <3>2 DEF InStep
      <4> QED
        BY <4>1 DEF Meta
    <3>6. CASE central = "resume"
      BY <1>7, <2>2, <3>3, <3>4, <3>5, <3>6
    <3>7. CASE central # "resume"
      BY <1>2, <3>4, <3>7 DEF AnswersInOrder
    <3> QED
      BY <3>6, <3>7
  <2> QED
    BY <1>3, <2>1, <2>2 DEF Send
<1>9. CASE SizePart
  <2>1. CASE up
    <3>1. proxy = "size" /\ central \notin {"send", "status", "connect", "sent", "exited"}
      BY <1>1, <1>9, <2>1 DEF SizePart, InStep, AtSection
    <3>2. central = "resume" /\ toCentral = <<>> /\ meta = limit
      BY <1>1, <2>1, <3>1 DEF InStep, Typed, Values
    <3>3. toCentral' = <<Resume(next, "none")>>
      BY <1>9, <2>1, <3>2 DEF SizePart, Send
    <3>4. confirmed <= next
      <4>1. ~powerLost /\ confirmed \in Answered
        BY <1>1, <2>1 DEF InStep, Answered
      <4>2. confirmed > 0 => confirmed <= next
        BY <1>1, <3>1, <4>1 DEF AnsweredIsKept, AtFile
      <4> QED
        BY <1>1, <4>2
    <3>5. next # SectionCount(limit) => next < SectionCount(limit)
      <4>1. SectionCount(limit) \in Nat
        BY <1>1, CountType
      <4> QED
        BY <1>1, <3>1, <3>2, <4>1 DEF InFile
    <3> QED
      BY <1>7, <2>1, <3>2, <3>3, <3>4, <3>5
  <2> QED
    BY <1>3, <1>9, <2>1 DEF SizePart, Send
<1>10. ASSUME up, proxy \in AtSection \cup {"unlink", "final"}, proxy # "read"
       PROVE  central = "status" /\ toCentral = <<>>
  <2>1. central \notin {"resume", "send", "connect", "sent", "exited"}
    BY <1>1, <1>10 DEF InStep, AtSection, AtFile
  <2>2. central = "status"
    BY <2>1 DEF Typed, Values
  <2> QED
    BY <1>1, <1>10, <2>2 DEF InStep, AtSection, AtFile
<1>11. CASE Reply
  <2>1. CASE up
    <3>1. central = "status" /\ toCentral' = <<Status("Cached", "none")>>
      BY <1>10, <1>11, <2>1 DEF Reply, AtSection, AtFile, Send
    <3> QED
      BY <1>6, <2>1, <3>1
  <2> QED
    BY <1>5, <1>11, <2>1 DEF Reply, ProxyThrows
<1>12. CASE FinalReply
  <2>1. CASE up
    <3>1. central = "status" /\ toCentral' = <<Status("Cached", "good")>>
      BY <1>10, <1>12, <2>1 DEF FinalReply, Send
    <3> QED
      BY <1>6, <2>1, <3>1
  <2> QED
    BY <1>5, <1>12, <2>1 DEF FinalReply, ProxyThrows
<1>13. CASE BarrierFails
  <2>1. CASE up
    <3>1. central = "status" /\ toCentral' = <<Status("Cached", "good")>>
      BY <1>10, <1>13, <2>1 DEF BarrierFails, ProxyThrows, Send
    <3> QED
      BY <1>6, <2>1, <3>1
  <2> QED
    BY <1>3, <1>13, <2>1 DEF BarrierFails, ProxyThrows, Send
<1>14. CASE DispatchFails
  <2>1. up /\ central = "resume" => toCentral # <<>>
    BY <1>1, <1>10, <1>14 DEF DispatchFails, InStep, AtSection, AtFile
  <2> QED
    BY <1>4, <1>14, <2>1 DEF DispatchFails, ProxyThrows
<1>15. CASE ReadFileEnd
  <2>1. CASE ProxyThrows(<<Status("Failed", "none")>>)
    <3>1. up /\ central = "resume" => toCentral # <<>>
      BY <1>1, <1>15 DEF ReadFileEnd, InStep
    <3> QED
      BY <1>4, <2>1, <3>1 DEF ProxyThrows
  <2> QED
    BY <1>3, <1>15, <2>1 DEF ReadFileEnd
<1>16. CASE Verify
  <2>1. CASE ProxyThrows(<<Status("Failed", "bad")>>)
    <3>1. up => central = "status"
      BY <1>10, <1>16 DEF Verify, AtSection, AtFile
    <3> QED
      BY <1>4, <2>1, <3>1 DEF ProxyThrows
  <2> QED
    BY <1>3, <1>16, <2>1 DEF Verify, connVars
<1>17. CASE BeginFails \/ ProxyLosesConnection
  BY <1>5, <1>17 DEF BeginFails, ProxyLosesConnection, ProxyThrows
<1>18. CASE ReadData \/ Sync \/ SaveCheckpoint \/ EnqueueSection \/ RenamePart \/ RemoveCheckpoint
            \/ ReadSessionEnd \/ ProxyRestart \/ DistributionHangs \/ Kill \/ PowerLoss
            \/ Writeback
  BY <1>3, <1>18 DEF ReadData, Sync, SaveCheckpoint, EnqueueSection, RenamePart, RemoveCheckpoint,
     ReadSessionEnd, ProxyRestart, DistributionHangs, Kill, PowerLoss, Down, Writeback, connVars
<1> QED
  BY <1>8, <1>9, <1>11, <1>12, <1>13, <1>14, <1>15, <1>16, <1>17, <1>18 DEF ProxyStep

LEMMA InStepCentral ==
    ASSUME Inv, Session, Typed, CentralStep \/ CentralRestart \/ Break PROVE InStep'
<1>1. InStep /\ Queues /\ central \in {"connect", "resume", "send", "status", "sent", "exited"}
  BY DEF Session, Typed, Values
<1>11. up => ~powerLost
  BY <1>1 DEF InStep
<1>2. CASE ~up'
  BY <1>2 DEF InStep
<1>3. CASE Connect
  BY <1>3 DEF Connect, InStep
<1>4. ASSUME up, ReadResume, ~CentralThrows PROVE InStep'
  <2>1. /\ central = "resume" /\ toCentral # <<>> /\ UNCHANGED <<up, powerLost, toProxy, limit, proxy, meta, next>>
        /\ toCentral' = Tail(toCentral)
        /\ \/ /\ Head(toCentral).next = SectionCount(limit) /\ Head(toCentral).digest = "good"
              /\ central' = "sent"
           \/ /\ Head(toCentral).next # SectionCount(limit)
              /\ central' = "send" /\ section' = Head(toCentral).next
    BY <1>4 DEF ReadResume, proxyVars, envVars, lossVars
  <2>4. ~powerLost'
    BY <1>4, <1>11, <2>1
  <2>2. CASE /\ proxy = "read" /\ meta = limit /\ toProxy = <<>>
             /\ toCentral = <<Resume(next, "none")>>
    <3>1. Head(toCentral) = Resume(next, "none") /\ Tail(toCentral) = <<>>
      BY <2>2
    <3>2. central' = "send" /\ section' = next /\ toCentral' = <<>>
      BY <2>1, <3>1 DEF Resume
    <3> QED
      BY <2>1, <2>2, <2>4, <3>2 DEF InStep
  <2>3. CASE /\ proxy = "meta" /\ toProxy = <<>>
             /\ toCentral = <<Resume(SectionCount(limit), "good")>>
    <3>1. Head(toCentral) = Resume(SectionCount(limit), "good")
      BY <2>3
    <3>2. central' = "sent"
      BY <2>1, <3>1 DEF Resume
    <3> QED
      BY <2>1, <2>3, <2>4, <3>2 DEF InStep
  <2> QED
    BY <1>1, <1>4, <2>1, <2>2, <2>3 DEF InStep
<1>5. ASSUME up, ReadStatus, ~CentralThrows PROVE InStep'
  <2>1. /\ central = "status" /\ toCentral # <<>> /\ UNCHANGED <<up, powerLost, toProxy, limit, proxy, meta, next>>
        /\ toCentral' = Tail(toCentral)
        /\ \/ section + 1 = SectionCount(limit) /\ Head(toCentral).digest = "good" /\ central' = "sent"
           \/ section + 1 # SectionCount(limit) /\ central' = "send" /\ section' = section + 1
    BY <1>5 DEF ReadStatus, proxyVars, envVars, lossVars
  <2>4. ~powerLost'
    BY <1>5, <1>11, <2>1
  <2>2. CASE /\ proxy = "read" /\ meta = limit /\ next = section + 1
             /\ toProxy = <<>> /\ toCentral = <<Status("Cached", "none")>>
    <3>1. Head(toCentral) = Status("Cached", "none") /\ Tail(toCentral) = <<>>
      BY <2>2
    <3>2. central' = "send" /\ section' = next /\ toCentral' = <<>>
      BY <2>1, <2>2, <3>1 DEF Status
    <3> QED
      BY <2>1, <2>2, <2>4, <3>2 DEF InStep
  <2>3. CASE /\ proxy = "meta" /\ section + 1 = SectionCount(limit)
             /\ toProxy = <<>> /\ toCentral = <<Status("Cached", "good")>>
    BY <2>1, <2>3, <2>4 DEF InStep
  <2> QED
    BY <1>1, <1>5, <2>1, <2>2, <2>3 DEF InStep
<1>6. ASSUME up, SendSection PROVE InStep'
  <2>1. /\ central = "send" /\ central' = "status"
        /\ UNCHANGED <<up, powerLost, toCentral, limit, section, proxy, meta, next>>
    BY <1>6 DEF SendSection, proxyVars, envVars, lossVars
  <2> QED
    BY <1>1, <1>6, <2>1 DEF InStep, AtSection, AtFile
<1>7. ASSUME up, EndSession PROVE InStep'
  <2>1. central = "sent" /\ central' = "exited" /\ proxy' = proxy /\ up' = up
        /\ powerLost' = powerLost
    BY <1>7 DEF EndSession, proxyVars, envVars, lossVars
  <2>2. toProxy = <<>> /\ proxy = "meta" /\ ~powerLost
    BY <1>1, <1>7, <2>1 DEF InStep
  <2>3. toProxy' = <<[type |-> "SESSION_END"]>>
    BY <1>7, <2>2 DEF EndSession, Send
  <2> QED
    BY <2>1, <2>2, <2>3 DEF InStep
<1>8. CASE ReadResume \/ ReadStatus \/ CentralLosesConnection
  <2>1. CASE CentralThrows
    BY <1>2, <2>1 DEF CentralThrows
  <2>2. CASE ~up
    BY <1>2, <1>8, <2>1, <2>2 DEF ReadResume, ReadStatus, CentralLosesConnection
  <2> QED
    BY <1>4, <1>5, <1>8, <2>1, <2>2 DEF CentralLosesConnection
<1>9. CASE SendSection \/ EndSession
  BY <1>2, <1>6, <1>7, <1>9 DEF SendSection, EndSession
<1>10. CASE CentralRestart \/ Break
  BY <1>2, <1>10 DEF CentralRestart, Break
<1> QED
  BY <1>3, <1>8, <1>9, <1>10 DEF CentralStep

LEMMA InStepProxy ==
    ASSUME Inv, Session, Typed,
           \/ ProxyStep \/ BeginFails \/ DispatchFails \/ DistributionHangs \/ BarrierFails
           \/ Kill \/ PowerLoss \/ Writeback
    PROVE  InStep'
<1>1. InStep /\ Queues /\ central \in {"connect", "resume", "send", "status", "sent", "exited"}
      /\ InFile /\ SentInOrder
  BY DEF Session, Typed, Values
<1>2. /\ UNCHANGED <<central, limit, section>> /\ SectionCount(limit)' = SectionCount(limit)
  <2>1. UNCHANGED centralVars
    BY DEF ProxyStep, ReadMeta, SizePart, ReadData, ReadFileEnd, Sync, SaveCheckpoint,
       EnqueueSection, Reply, Verify, RenamePart, RemoveCheckpoint, FinalReply, ReadSessionEnd,
       ProxyLosesConnection, ProxyRestart, BeginFails, DispatchFails, DistributionHangs,
       BarrierFails, Kill, PowerLoss, Down, Writeback
  <2> QED
    BY <2>1 DEF centralVars
<1>p. PowerLoss \/ UNCHANGED powerLost
  BY DEF ProxyStep, ReadMeta, SizePart, ReadData, ReadFileEnd, Sync, SaveCheckpoint,
     EnqueueSection, Reply, Verify, RenamePart, RemoveCheckpoint, FinalReply, ReadSessionEnd,
     ProxyLosesConnection, ProxyRestart, BeginFails, DispatchFails, DistributionHangs,
     BarrierFails, Kill, Writeback, envVars, lossVars
<1>3. CASE ~up'
  BY <1>3 DEF InStep
<1>4. CASE ReadSessionEnd \/ ProxyLosesConnection \/ BeginFails \/ DispatchFails \/ BarrierFails
           \/ Kill \/ PowerLoss
  BY <1>3, <1>4 DEF ReadSessionEnd, ProxyLosesConnection, BeginFails, DispatchFails, BarrierFails,
     Kill, PowerLoss, Down, ProxyThrows
<1>5. CASE ProxyRestart
  BY <1>1, <1>3, <1>5 DEF ProxyRestart, connVars, InStep
<1>a. up /\ up' => ~powerLost'
  BY <1>1, <1>p DEF InStep, PowerLoss, Down
<1>b. CASE Writeback
  <2>1. UNCHANGED <<up, toProxy, toCentral, proxy, meta, next, powerLost>>
    BY <1>b DEF Writeback, connVars, proxyVars
  <2> QED
    BY <1>1, <1>2, <2>1 DEF InStep
<1>6. ASSUME up, ReadMeta PROVE InStep'
  <2>1. /\ proxy = "meta" /\ toProxy # <<>> /\ Head(toProxy).type = "META" /\ up' = up
        /\ toProxy' = Tail(toProxy)
    BY <1>6 DEF ReadMeta
  <2>2. toProxy[1].type = "META" /\ Head(toProxy) = toProxy[1] /\ 1 \in 1 .. Len(toProxy)
    BY <1>1, <2>1, EmptySeq DEF Queues
  <2>3. toCentral = <<>>
    BY <1>1, <2>2 DEF SentInOrder
  <2>4. central \notin {"connect", "send", "status", "sent"}
    BY <1>1, <1>6, <2>1, <2>3 DEF InStep, AtSection, AtFile
  <2>5. central # "exited"
    <3>1. central = "exited" => toProxy = <<[type |-> "SESSION_END"]>>
      BY <1>1, <1>6 DEF InStep
    <3> QED
      BY <2>1, <3>1
  <2>6. central = "resume" /\ toProxy = <<Meta(limit)>>
    <3>1. central = "resume"
      BY <1>1, <2>4, <2>5
    <3> QED
      BY <1>1, <1>6, <2>1, <2>3, <3>1 DEF InStep
  <2>7. Head(toProxy).limit = limit /\ toProxy' = <<>>
    BY <2>1, <2>6 DEF Meta
  <2>8. CASE cached
    <3>1. toCentral' = <<Resume(SectionCount(limit), "good")>> /\ proxy' = "meta"
      BY <1>6, <2>1, <2>3, <2>7, <2>8 DEF ReadMeta, Send, proxyVars
    <3> QED
      BY <1>2, <1>a, <2>1, <2>6, <2>7, <3>1 DEF InStep
  <2>9. CASE ~cached
    <3>1. toCentral' = <<>> /\ proxy' = "size" /\ meta' = limit
      BY <1>6, <2>3, <2>7, <2>9 DEF ReadMeta
    <3> QED
      BY <1>2, <1>a, <2>1, <2>6, <2>7, <3>1 DEF InStep
  <2> QED
    BY <2>8, <2>9
<1>7. ASSUME up, SizePart PROVE InStep'
  <2>1. proxy = "size" /\ proxy' = "read" /\ UNCHANGED <<meta, next, toProxy, up>>
    BY <1>7 DEF SizePart
  <2>2. central \notin {"connect", "send", "status", "sent", "exited"}
    BY <1>1, <1>7, <2>1 DEF InStep, AtSection, AtFile
  <2>3. central = "resume"
    BY <1>1, <2>2
  <2>4. meta = limit /\ toProxy = <<>> /\ toCentral = <<>>
    BY <1>1, <1>7, <2>1, <2>3 DEF InStep
  <2>5. toCentral' = <<Resume(next', "none")>>
    BY <1>7, <2>1, <2>4 DEF SizePart, Send
  <2>6. (toCentral = <<Resume(next, "none")>>)' <=> (toCentral' = <<Resume(next', "none")>>)
    BY DEF Resume
  <2> QED
    BY <1>2, <1>a, <2>1, <2>3, <2>4, <2>5, <2>6 DEF InStep
<1>8. ASSUME up, proxy \in AtSection \cup {"unlink", "final"},
             proxy = "read" => toProxy # <<>>
      PROVE  /\ central = "status" /\ meta = limit /\ next = section /\ toCentral = <<>>
             /\ proxy # "read" => toProxy = <<>>
  <2>1. central \notin {"connect", "send", "resume", "sent", "exited"}
    BY <1>1, <1>8 DEF InStep, AtSection, AtFile
  <2>2. central = "status"
    BY <1>1, <2>1
  <2> QED
    BY <1>1, <1>8, <2>2 DEF InStep, AtSection, AtFile
<1>9. ASSUME up, proxy \in AtSection \cup {"unlink", "final"}, proxy = "read" => toProxy # <<>>,
             proxy' \in AtSection \cup {"unlink", "final"}, UNCHANGED <<up, toCentral, meta, next>>,
             proxy' # "read" => toProxy' = <<>>
      PROVE  InStep'
  BY <1>2, <1>a, <1>8, <1>9 DEF InStep, AtSection, AtFile
<1>10. ASSUME up, ReadData PROVE InStep'
  BY <1>9, <1>10 DEF ReadData, AtSection, AtFile
<1>11. ASSUME up, ReadFileEnd PROVE InStep'
  <2>1. /\ proxy = "read" /\ toProxy # <<>> /\ Head(toProxy).type = "FILE_END"
        /\ UNCHANGED <<meta, next>>
    BY <1>11 DEF ReadFileEnd
  <2>2. Tail(toProxy) = <<>>
    <3>1. /\ Head(toProxy) = toProxy[1] /\ 1 \in 1 .. Len(toProxy) /\ Len(Tail(toProxy)) = Len(toProxy) - 1
          /\ Tail(toProxy) \in Seq(ProxyFrames)
      BY <1>1, <2>1, EmptySeq, HeadTailProperties DEF Queues
    <3>2. Len(toProxy) = 1
      BY <1>1, <2>1, <3>1 DEF SentInOrder
    <3>3. Len(Tail(toProxy)) = 0
      BY <3>1, <3>2
    <3> QED
      BY <3>1, <3>3, EmptySeq
  <2>3. CASE proxy' = "sync" /\ toProxy' = Tail(toProxy) /\ UNCHANGED <<up, toCentral>>
    BY <1>9, <1>11, <2>1, <2>2, <2>3 DEF AtSection, AtFile
  <2> QED
    BY <1>3, <1>11, <2>3 DEF ReadFileEnd, ProxyThrows
<1>12. ASSUME up, Sync \/ SaveCheckpoint \/ EnqueueSection \/ RenamePart \/ RemoveCheckpoint
       PROVE  InStep'
  <2>1. /\ proxy \in (AtSection \cup {"unlink", "final"}) \ {"read"}
        /\ proxy' \in (AtSection \cup {"unlink", "final"}) \ {"read"}
        /\ UNCHANGED <<up, toCentral, toProxy, meta, next>>
    BY <1>12 DEF Sync, SaveCheckpoint, EnqueueSection, RenamePart, RemoveCheckpoint, connVars,
       AtSection, AtFile
  <2> QED
    BY <1>8, <1>9, <1>12, <2>1
<1>13. ASSUME up, Verify PROVE InStep'
  <2>1. CASE proxy' = "rename" /\ UNCHANGED connVars
    <3>1. /\ proxy = "verify" /\ UNCHANGED <<up, toCentral, toProxy, meta, next>>
      BY <1>13, <2>1 DEF Verify, connVars
    <3> QED
      BY <1>8, <1>9, <1>13, <2>1, <3>1 DEF AtSection, AtFile
  <2> QED
    BY <1>3, <1>13, <2>1 DEF Verify, ProxyThrows
<1>14. ASSUME up, Reply PROVE InStep'
  <2>1. /\ proxy = "reply" /\ proxy' = "read" /\ next' = next + 1 /\ UNCHANGED <<up, toProxy, meta>>
        /\ toCentral' = Send(toCentral, <<Status("Cached", "none")>>)
    BY <1>14 DEF Reply
  <2>2. /\ central = "status" /\ meta = limit /\ next = section /\ toCentral = <<>> /\ toProxy = <<>>
    BY <1>8, <1>14, <2>1 DEF AtSection, AtFile
  <2>3. toCentral' = <<Status("Cached", "none")>>
    BY <1>14, <2>1, <2>2 DEF Send
  <2> QED
    BY <1>2, <1>a, <2>1, <2>2, <2>3 DEF InStep, Status
<1>15. ASSUME up, FinalReply PROVE InStep'
  <2>1. /\ proxy = "final" /\ proxy' = "meta" /\ UNCHANGED <<up, toProxy, meta, next>>
        /\ toCentral' = Send(toCentral, <<Status("Cached", "good")>>)
    BY <1>15 DEF FinalReply
  <2>2. /\ central = "status" /\ meta = limit /\ next = section /\ toCentral = <<>> /\ toProxy = <<>>
    BY <1>8, <1>15, <2>1
  <2>3. toCentral' = <<Status("Cached", "good")>>
    BY <1>15, <2>1, <2>2 DEF Send
  <2>4. section + 1 = SectionCount(limit)
    BY <1>1, <2>1, <2>2 DEF InFile, Finishing
  <2> QED
    BY <1>2, <1>a, <2>1, <2>2, <2>3, <2>4 DEF InStep, Status
<1>18. ASSUME up, DistributionHangs PROVE InStep'
  <2>1. /\ proxy' = "hung" /\ UNCHANGED <<up, toProxy, toCentral>>
        /\ proxy \in {"size", "enqueue", "final"}
    BY <1>18 DEF DistributionHangs, connVars
  <2>2. central \notin {"connect", "send", "sent", "exited"}
    BY <1>1, <1>18, <2>1 DEF InStep, AtSection, AtFile
  <2>3. central \in {"resume", "status"} /\ toProxy = <<>> /\ toCentral = <<>>
    BY <1>1, <1>18, <2>1, <2>2 DEF InStep, AtSection, AtFile
  <2> QED
    BY <1>2, <1>a, <2>1, <2>3 DEF InStep
<1>16. ASSUME ~up PROVE ~up' \/ Connect
  BY <1>16 DEF ProxyStep, ReadMeta, SizePart, ReadData, ReadFileEnd, Sync, SaveCheckpoint,
     EnqueueSection, Reply, Verify, RenamePart, RemoveCheckpoint, FinalReply, ReadSessionEnd,
     ProxyLosesConnection, ProxyRestart, BeginFails, DispatchFails, DistributionHangs,
     BarrierFails, Kill, PowerLoss, Down, Writeback, ProxyThrows, connVars
<1>17. CASE ~up
  BY <1>3, <1>16, <1>17 DEF Connect, InStep
<1> QED
  BY <1>4, <1>5, <1>6, <1>7, <1>10, <1>11, <1>12, <1>13, <1>14, <1>15, <1>17, <1>18, <1>b
     DEF ProxyStep

------------------------------------------------------------------------------
(* The theorems about the session *)

LEMMA SessionInit == Init => Session
<1> SUFFICES ASSUME Init PROVE Session
  OBVIOUS
<1>1. /\ central = "connect" /\ up = FALSE /\ proxy = "accept" /\ confirmed = 0
      /\ toProxy = <<>> /\ toCentral = <<>>
  BY DEF Init
<1>2. InFile /\ AnswersInOrder /\ InStep
  BY <1>1 DEF InFile, AtFile, AtSection, Finishing, AnswersInOrder, InStep
<1>3. Answered = {0}
  BY <1>1 DEF Answered
<1>4. AnsweredIsKept /\ SentInOrder
  BY <1>1, <1>3, EmptySeq DEF AnsweredIsKept, SentInOrder
<1> QED
  BY <1>2, <1>4 DEF Session

LEMMA SessionStep == ASSUME Inv, Session, Typed, [Next]_vars PROVE Session'
<1>1. InFile' /\ SentInOrder'
  BY InFileStep, SentInOrderStep
<1>2. CASE CentralStep \/ CentralRestart \/ Break
  BY <1>1, <1>2, AnsweredCentral, AnswersCentral, InStepCentral DEF Session
<1>3. CASE \/ ProxyStep \/ BeginFails \/ DispatchFails \/ DistributionHangs \/ BarrierFails
           \/ Kill \/ PowerLoss \/ Writeback
  <2>1. AnsweredIsKept'
    BY <1>3, AnsweredCentral, AnsweredProxy, AnsweredOthers DEF ProxyStep
  <2> QED
    BY <1>1, <1>3, <2>1, AnswersProxy, InStepProxy DEF Session
<1>4. CASE Over \/ UNCHANGED vars
  <2>1. /\ UNCHANGED <<central, limit, section, confirmed, up, toProxy, toCentral, proxy, meta, next>>
        /\ UNCHANGED <<part, checkpoint, cached, powerLost>>
    BY <1>4 DEF Over, vars, centralVars, connVars, proxyVars, diskVars, envVars, lossVars
  <2>2. Answered' = Answered
    BY <2>1 DEF Answered
  <2>3. AnsweredIsKept'
    BY <2>1, <2>2 DEF Session, AnsweredIsKept, Kept
  <2>4. AnswersInOrder'
    BY <2>1 DEF Session, AnswersInOrder, Refusals
  <2>5. InStep'
    BY <2>1 DEF Session, InStep
  <2> QED
    BY <1>1, <2>3, <2>4, <2>5 DEF Session
<1> QED
  BY <1>2, <1>3, <1>4 DEF Next, Fault

\* Both programs of a session and the frames between them stay in step, over any
\* number of broken connections, kills, power losses and restarts; what was confirmed
\* is on the disk, until a power loss and again from the next connection on.
THEOREM SessionInvariance == Spec => [](Inv /\ Committed /\ Session /\ Typed)
<1>1. Init => Inv /\ Committed /\ Session /\ Typed
  BY InitInv, CommittedInit, SessionInit, TypedInit
<1>2. Inv /\ Committed /\ Session /\ Typed /\ [Next]_vars
        => (Inv /\ Committed /\ Session /\ Typed)'
  BY NextInv, CommittedStep, SessionStep, TypedStep
<1> QED
  BY <1>1, <1>2, PTL DEF Spec

\* The shape of every variable; that a central sender waiting for CENTRAL_RESUME
\* finds nothing else in its socket is part of it.
THEOREM TypeCorrect == Spec => []TypeOK
<1>1. Inv /\ Session /\ Typed => TypeOK
  BY TypedIsTypeOK
<1> QED
  BY <1>1, SessionInvariance, PTL

\* The RESUME a central sender acts on never lies before a section that was
\* confirmed to it, whether or not a checkpoint was left behind in between.
LEMMA ResumesBehind ==
    ASSUME Session, Typed, [Next]_vars, central = "resume", central' = "send"
    PROVE  section' >= confirmed
<1>1. ReadResume
  BY DEF Next, CentralStep, ProxyStep, Fault, Over, vars, centralVars, Connect, SendSection,
     ReadStatus, CentralLosesConnection, CentralThrows, EndSession, CentralRestart, ReadMeta,
     SizePart, ReadData, ReadFileEnd, Sync, SaveCheckpoint, EnqueueSection, Reply, Verify,
     RenamePart, RemoveCheckpoint, FinalReply, ReadSessionEnd, ProxyLosesConnection,
     ProxyRestart, BeginFails, DispatchFails, DistributionHangs, BarrierFails, Break, Kill,
     PowerLoss, Down, Writeback
<1>2. /\ toCentral # <<>> /\ section' = Head(toCentral).next
      /\ Head(toCentral).next # SectionCount(limit)
  BY <1>1 DEF ReadResume, CentralThrows
<1>3. Head(toCentral) \in CentralFrames /\ Head(toCentral).type = "RESUME"
      /\ confirmed <= Head(toCentral).next /\ confirmed \in Nat
  BY <1>2, HeadTailProperties DEF Session, AnswersInOrder, Typed, Queues, Values
<1>4. Head(toCentral).next \in Nat
  BY <1>3, FrameTypes, CentralCacheAssumption
<1> QED
  BY <1>2, <1>3, <1>4

\* What was confirmed to the central sender since the connection that followed the last
\* power loss is never sent by it again, however often the proxy was killed since and the
\* connection broke: neither the checkpoint nor its name is ever synced, and the code
\* promises no more.
THEOREM NothingConfirmedIsResent == Spec => ConfirmedIsNotResent
<1>1. Inv /\ Session /\ Typed /\ [Next]_vars =>
        [central = "resume" /\ central' = "send" => section' >= confirmed]_vars
  BY ResumesBehind
<1> QED
  BY <1>1, SessionInvariance, PTL DEF Spec, ConfirmedIsNotResent
==============================================================================
