---------------------------- MODULE ReceiverStore ----------------------------
(***************************************************************************)
(* What one receiver keeps on disk for one transfer id, and what survives  *)
(* when the process is killed or the machine loses power at any point:     *)
(* the .part file, its .state file (the received bitmap) and the final     *)
(* file (src/src/receiver.cpp).                                            *)
(*                                                                         *)
(* The receiver is single threaded, so a handler that makes several system *)
(* calls is a chain of steps (`step'), and a crash may fall between any    *)
(* two of them.  The proxy is the environment: it may send FILE_META with  *)
(* one of Limits as section_block_count, a block (0 .. TotalBlocks: one    *)
(* number past the end), BACKFILL_END, an ACK or a failure at any time the *)
(* receiver would take it.                                                 *)
(*                                                                         *)
(* Only the data of .part is ever synced.  The names (the creation of      *)
(* .part, the renames of .state and .part, the removal of .state) and the  *)
(* contents of .state reach the disk when the kernel writes them back, in  *)
(* the order they were made: `disk' is the directory a power loss would    *)
(* leave, older than the one the process sees.                             *)
(***************************************************************************)
EXTENDS SectionMath

CONSTANTS TotalBlocks,   \* total_blocks of the file
          Limits        \* section_block_count values a META may carry

AllBlocks == 0 .. TotalBlocks - 1
Steps == {"run", "sync", "save", "backfill_sync", "backfill_save", "check", "rename",
          "unlink"}

ASSUME ReceiverStoreAssumption ==
    /\ TotalBlocks \in Nat \ {0}
    /\ Limits \subseteq Nat \ {0}

VARIABLES
    proc,       \* what the process is doing
    step,       \* the next system call of the handler that is running
    limit,      \* meta.section_block_count of the TransferState
    bits,       \* the received bitmap in memory
    closing,    \* the section a handler is about to report
    part,       \* size of the .part file
    written,    \* blocks of .part with the right bytes
    synced,     \* those of them that survive a power loss
    state,      \* the .state file
    output,     \* the file under its final name
    disk,       \* the directory as it is on the disk: .part, .state, final name
    reported,   \* sections reported complete since the last power loss
    leftBehind  \* history: a .state file outlived the .part it was written for

vars == <<proc, step, limit, bits, closing, part, written, synced, state, output, disk,
          reported, leftBehind>>

NoState == [limit |-> 0, bits |-> {}]

Sections(l) == {s \in AllBlocks : SectionInRange(TotalBlocks, s, l)}
Blocks(s, l) == SectionBlocks(TotalBlocks, s, l)

TypeOK ==
    /\ proc \in {"down", "idle", "opening", "active", "awaiting", "shafailed"}
    /\ step \in Steps
    /\ limit \in Limits \cup {0}
    /\ bits \subseteq AllBlocks
    /\ closing \in AllBlocks
    /\ part \in {"absent", "short", "full"}
    /\ written \subseteq AllBlocks
    /\ synced \subseteq AllBlocks
    /\ state \in [limit : Limits \cup {0}, bits : SUBSET AllBlocks]
    /\ output \in {"absent", "good", "bad"}
    /\ disk \in [part : {"absent", "current", "renamed"},
                 state : [limit : Limits \cup {0}, bits : SUBSET AllBlocks],
                 output : {"absent", "good", "bad"}]
    /\ reported \subseteq AllBlocks
    /\ leftBehind \in BOOLEAN

Init ==
    /\ proc = "idle" /\ step = "run" /\ limit = 0 /\ bits = {} /\ closing = 0
    /\ part = "absent" /\ written = {} /\ synced = {}
    /\ state = NoState /\ output = "absent"
    /\ disk = [part |-> "absent", state |-> NoState, output |-> "absent"]
    /\ reported = {} /\ leftBehind = FALSE

------------------------------------------------------------------------------
(* FILE_META: initialize_transfer *)

\* load_receiver_state: both files exist, .part has its full size and every
\* parameter of the .state file agrees with the META.
Loads(l) == state # NoState /\ part = "full" /\ state.limit = l

\* MUTANT: .part is truncated although its bitmap was loaded.
FileMetaTruncates(l) ==
    /\ proc = "idle"
    /\ proc' = "opening" /\ limit' = l
    /\ bits' = IF Loads(l) THEN state.bits ELSE {}
    /\ part' = "short" /\ written' = {} /\ synced' = {} /\ reported' = {}
    /\ leftBehind' = (leftBehind \/ (state # NoState /\ ~Loads(l)))
    /\ UNCHANGED <<step, closing, state, output, disk>>

\* open(2) of .part, with O_TRUNC unless the state was loaded.  A .state file
\* that was not loaded stays where it is.
FileMeta(l) ==
    /\ proc = "idle"
    /\ proc' = "opening" /\ limit' = l
    /\ IF Loads(l)
       THEN /\ bits' = state.bits
            /\ UNCHANGED <<part, written, synced, reported>>
       ELSE /\ bits' = {} /\ part' = "short" /\ written' = {} /\ synced' = {}
            /\ reported' = {}
    /\ leftBehind' = (leftBehind \/ (state # NoState /\ ~Loads(l)))
    /\ UNCHANGED <<step, closing, state, output, disk>>

\* ftruncate(2) to the file size, then META_READY.
SizePart ==
    /\ proc = "opening"
    /\ proc' = "active" /\ part' = "full"
    /\ UNCHANGED <<step, limit, bits, closing, written, synced, state, output, disk,
                   reported, leftBehind>>

------------------------------------------------------------------------------
(* Blocks *)

\* MUTANT: off by one at the end of the file.
InFileInclusive(b) == b <= TotalBlocks

\* The block number of a frame is checked against total_blocks.
InFile(b) == b < TotalBlocks

Write(b) ==
    /\ InFile(b) /\ b \notin bits
    /\ bits' = bits \cup {b} /\ written' = written \cup {b}

\* A DATA datagram: pwrite, then the bit, and nothing is synced.
Data(b) ==
    /\ proc = "active" /\ step = "run"
    /\ Write(b)
    /\ UNCHANGED <<proc, step, limit, closing, part, synced, state, output, disk,
                   reported, leftBehind>>

\* A BACKFILL_DATA frame: pwrite, bit, then fsync and save for this one block.
BackfillData(b) ==
    /\ proc = "active" /\ step = "run"
    /\ Write(b)
    /\ step' = "backfill_sync"
    /\ UNCHANGED <<proc, limit, closing, part, synced, state, output, disk,
                   reported, leftBehind>>

\* The drain of a section ends with nothing missing in it.
DrainEnds(s) ==
    /\ proc = "active" /\ step = "run"
    /\ s \in Sections(limit) /\ Blocks(s, limit) \subseteq bits
    /\ closing' = s /\ step' = "sync"
    /\ UNCHANGED <<proc, limit, bits, part, written, synced, state, output, disk,
                   reported, leftBehind>>

\* MUTANT: the data is not synced before the state is saved.
SyncSkipped ==
    /\ proc = "active" /\ step \in {"sync", "backfill_sync"}
    /\ step' = IF step = "sync" THEN "save" ELSE "backfill_save"
    /\ UNCHANGED <<proc, limit, bits, closing, part, written, synced, state, output, disk,
                   reported, leftBehind>>

\* fdatasync in finish_drain_and_report, fsync in the backfill handler.
Sync ==
    /\ proc = "active" /\ step \in {"sync", "backfill_sync"}
    /\ synced' = written
    /\ step' = IF step = "sync" THEN "save" ELSE "backfill_save"
    /\ UNCHANGED <<proc, limit, bits, closing, part, written, state, output, disk,
                   reported, leftBehind>>

\* MUTANT: a section is reported without saving its bits.
SaveSkipped ==
    /\ proc = "active" /\ step \in {"save", "backfill_save"}
    /\ step' = IF step = "save" THEN "check" ELSE "run"
    /\ UNCHANGED <<proc, limit, bits, closing, part, written, synced, state, output, disk,
                   reported, leftBehind>>

\* save_receiver_state: .tmp, then rename over .state.
SaveState ==
    /\ proc = "active" /\ step \in {"save", "backfill_save"}
    /\ state' = [limit |-> limit, bits |-> bits]
    /\ step' = IF step = "save" THEN "check" ELSE "run"
    /\ UNCHANGED <<proc, limit, bits, closing, part, written, synced, output, disk,
                   reported, leftBehind>>

------------------------------------------------------------------------------
(* finalize_transfer and the report *)

Report == reported' = reported \cup {closing}

\* BACKFILL_END goes to finalize_transfer without a section to report.
BackfillEnd ==
    /\ proc = "active" /\ step = "run" /\ bits = AllBlocks
    /\ step' = "check" /\ closing' = 0
    /\ UNCHANGED <<proc, limit, bits, part, written, synced, state, output, disk,
                   reported, leftBehind>>

\* Blocks of other sections are missing: the section is complete, no more.
ReportSection ==
    /\ proc = "active" /\ step = "check" /\ bits # AllBlocks
    /\ Report /\ step' = "run"
    /\ UNCHANGED <<proc, limit, bits, closing, part, written, synced, state, output,
                   disk, leftBehind>>

\* MUTANT: the digest is not compared.
CheckShaSkipped ==
    /\ proc = "active" /\ step = "check" /\ bits = AllBlocks
    /\ synced' = written
    /\ step' = "rename" /\ UNCHANGED proc
    /\ UNCHANGED <<limit, bits, closing, part, written, state, output, disk,
                   reported, leftBehind>>

\* fsync and SHA-256 of the whole .part file.
CheckSha ==
    /\ proc = "active" /\ step = "check" /\ bits = AllBlocks
    /\ synced' = written
    /\ IF written = AllBlocks THEN step' = "rename" /\ UNCHANGED proc
       ELSE step' = "run" /\ proc' = "shafailed"
    /\ UNCHANGED <<limit, bits, closing, part, written, state, output, disk,
                   reported, leftBehind>>

\* .part gets its final name ...
RenamePart ==
    /\ proc = "active" /\ step = "rename"
    /\ output' = IF written = AllBlocks THEN "good" ELSE "bad"
    /\ part' = "absent" /\ written' = {} /\ synced' = {}
    /\ disk' = [disk EXCEPT !.part = IF @ = "absent" THEN "absent" ELSE "renamed"]
    /\ step' = "unlink"
    /\ UNCHANGED <<proc, limit, bits, closing, state, reported, leftBehind>>

\* ... and .state is removed; then RECEIVER_COMPLETE is sent.
RemoveState ==
    /\ proc = "active" /\ step = "unlink"
    /\ state' = NoState /\ reported' = {}
    /\ step' = "run" /\ proc' = "awaiting"
    /\ UNCHANGED <<limit, bits, closing, part, written, synced, output, disk, leftBehind>>

\* COMPLETE_ACK, or TRANSFER_RESULT failed: the TransferState is dropped and
\* the files stay.
EndTransfer ==
    /\ proc \in {"active", "awaiting", "shafailed"} /\ step = "run"
    /\ proc' = "idle" /\ limit' = 0 /\ bits' = {}
    /\ UNCHANGED <<step, closing, part, written, synced, state, output, disk,
                   reported, leftBehind>>

------------------------------------------------------------------------------
(* Crashes *)

\* The kernel commits the names and the small .state to the disk.  Until then
\* the .part a power loss would leave may be one already renamed.
Writeback ==
    /\ disk' = [part |-> IF part = "absent" THEN "absent" ELSE "current",
                state |-> state, output |-> output]
    /\ UNCHANGED <<proc, step, limit, bits, closing, part, written, synced, state, output,
                   reported, leftBehind>>

Die == /\ proc # "down"
       /\ proc' = "down" /\ step' = "run" /\ limit' = 0 /\ bits' = {}
       /\ UNCHANGED <<closing, leftBehind>>

\* kill -9: the page cache survives.
Kill == Die /\ UNCHANGED <<part, written, synced, state, output, disk, reported>>

\* .part as the disk has it: gone; with every synced byte and any of the others;
\* or the file that was verified and renamed, under its old name again.
PartFromDisk ==
    CASE disk.part = "absent" -> part' = "absent" /\ written' = {} /\ synced' = {}
      [] disk.part = "current" ->
            /\ \E lost \in SUBSET (written \ synced) : written' = written \ lost
            /\ part' \in IF synced = {} THEN {"short", "full"} ELSE {part}
            /\ UNCHANGED synced
      [] OTHER -> part' = "full" /\ written' = AllBlocks /\ synced' = AllBlocks

\* Neither .state nor the directory was ever synced: .state is the last one
\* committed, or its name without its contents, which does not load.
PowerLoss ==
    /\ Die
    /\ PartFromDisk
    /\ state' \in {disk.state, NoState} /\ output' = disk.output
    /\ disk' = [part |-> IF disk.part = "absent" THEN "absent" ELSE "current",
                state |-> state', output |-> output']
    /\ reported' = {}

\* A new process registers as IDLE.
Restart ==
    /\ proc = "down" /\ proc' = "idle"
    /\ UNCHANGED <<step, limit, bits, closing, part, written, synced, state, output,
                   disk, reported, leftBehind>>

Next ==
    \/ \E l \in Limits : FileMeta(l)
    \/ SizePart
    \/ \E b \in 0 .. TotalBlocks : Data(b) \/ BackfillData(b)
    \/ \E s \in AllBlocks : DrainEnds(s)
    \/ Sync \/ SaveState \/ BackfillEnd \/ ReportSection \/ CheckSha
    \/ RenamePart \/ RemoveState \/ EndTransfer
    \/ Writeback \/ Kill \/ PowerLoss \/ Restart

Spec == Init /\ [][Next]_vars

------------------------------------------------------------------------------
(* Properties *)

\* "After a crash blocks are received again, never skipped" (the comment of the
\* backfill handler): a set bit in memory stands for right bytes in .part.
NeverSkipped == proc \in {"opening", "active", "shafailed"} /\ step # "unlink"
                    => bits \subseteq written

\* The same, unless a .state file was left behind.
BitmapSound == ~leftBehind => NeverSkipped

\* A bit in the .state file stands for bytes that even a power loss keeps,
\* whichever .state it leaves.
StateSound == ~leftBehind /\ part = "full" => state.bits \subseteq synced

\* The final name never shows a file with a wrong byte, whatever crashed when,
\* whatever was left behind.
OutputVerified == output # "bad"

\* A section once reported complete is in the .state file: a receiver that was
\* killed and started again does not ask for it under the same parameters
\* (src/README.md:81).  A power loss may take that back, and `reported' starts
\* anew with it: nothing is promised of what was reported before.
ReportedIsDurable ==
    ~leftBehind => \A s \in reported : \E l \in Limits :
                      state.limit = l /\ Blocks(s, l) \subseteq state.bits
==============================================================================
