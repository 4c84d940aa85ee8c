------------------------- MODULE ReceiverStore_proof -------------------------
(***************************************************************************)
(* Proofs about ReceiverStore, for every file and every set of section     *)
(* sizes, with crashes between any two steps.                              *)
(*                                                                         *)
(* OutputVerified holds of every execution.  The other properties hold     *)
(* until a .state file is left behind, which a crash between the rename of *)
(* .part and the removal of .state does, and a change of the section size  *)
(* of a transfer id; the run StoreStaleState shows what happens then.      *)
(* Names and .state may be lost in a power loss: what the proof needs of   *)
(* them is only the order in which they reach the disk (DiskOfPart).       *)
(***************************************************************************)
EXTENDS ReceiverStore, TLAPS

USE DEF AllBlocks, Steps

------------------------------------------------------------------------------
(* The variables keep their types. *)

\* Every variable starts with a value of its type: the state of a receiver
\* that has just registered.
LEMMA TypeInit == Init => TypeOK
<1> SUFFICES ASSUME Init PROVE TypeOK
  OBVIOUS
<1>1. leftBehind \in BOOLEAN
  BY Zenon DEF Init
<1>2. NoState \in [limit : Limits \cup {0}, bits : SUBSET AllBlocks]
  BY DEF NoState
<1> QED
  BY <1>1, <1>2, ReceiverStoreAssumption DEF Init, TypeOK

\* Every handler, crash and restart keeps the types.
LEMMA TypeStep == TypeOK /\ [Next]_vars => TypeOK'
<1> SUFFICES ASSUME TypeOK, [Next]_vars PROVE TypeOK'
  OBVIOUS
<1> USE DEF TypeOK
<1>1. ASSUME NEW l \in Limits, FileMeta(l) PROVE TypeOK'
  <2>1. bits' \subseteq AllBlocks /\ part' \in {"absent", "short", "full"}
        /\ reported' \subseteq AllBlocks
    BY <1>1 DEF FileMeta
  <2>2. written' \subseteq AllBlocks /\ synced' \subseteq AllBlocks
    BY <1>1 DEF FileMeta
  <2>3. leftBehind' \in BOOLEAN
    BY <1>1, Zenon DEF FileMeta
  <2> QED
    BY <1>1, <2>1, <2>2, <2>3 DEF FileMeta
<1>2. CASE SizePart
  BY <1>2 DEF SizePart
<1>3. ASSUME NEW b \in 0 .. TotalBlocks, Data(b) PROVE TypeOK'
  BY <1>3, ReceiverStoreAssumption DEF Data, Write, InFile
<1>4. ASSUME NEW b \in 0 .. TotalBlocks, BackfillData(b) PROVE TypeOK'
  BY <1>4, ReceiverStoreAssumption DEF BackfillData, Write, InFile
<1>5. ASSUME NEW s \in AllBlocks, DrainEnds(s) PROVE TypeOK'
  BY <1>5 DEF DrainEnds
<1>6. CASE Sync
  BY <1>6 DEF Sync
<1>7. CASE SaveState
  BY <1>7 DEF SaveState
<1>8. CASE BackfillEnd
  BY <1>8, ReceiverStoreAssumption DEF BackfillEnd
<1>9. CASE ReportSection
  BY <1>9 DEF ReportSection, Report
<1>10. CASE CheckSha
  BY <1>10 DEF CheckSha
<1>11. CASE RenamePart
  BY <1>11 DEF RenamePart
<1>12. CASE RemoveState
  BY <1>12 DEF RemoveState, NoState
<1>13. CASE EndTransfer
  BY <1>13 DEF EndTransfer
<1>14. CASE Writeback
  BY <1>14 DEF Writeback
<1>15. CASE Kill
  BY <1>15 DEF Kill, Die
<1>16. CASE PowerLoss
  <2>1. part' \in {"absent", "short", "full"} /\ written' \subseteq AllBlocks
        /\ synced' \subseteq AllBlocks
    BY <1>16 DEF PowerLoss, PartFromDisk
  <2>2. state' \in [limit : Limits \cup {0}, bits : SUBSET AllBlocks]
    BY <1>16 DEF PowerLoss, NoState
  <2>3. output' \in {"absent", "good", "bad"}
    BY <1>16 DEF PowerLoss
  <2> QED
    BY <1>16, <2>1, <2>2, <2>3 DEF PowerLoss, Die
<1>17. CASE Restart
  BY <1>17 DEF Restart
<1>18. CASE UNCHANGED vars
  BY <1>18 DEF vars
<1> QED
  BY <1>1, <1>2, <1>3, <1>4, <1>5, <1>6, <1>7, <1>8, <1>9, <1>10, <1>11, <1>12, <1>13,
     <1>14, <1>15, <1>16, <1>17, <1>18 DEF Next

\* The type invariant holds of every execution, whatever crashes.
THEOREM TypeCorrect == Spec => []TypeOK
  BY TypeInit, TypeStep, PTL DEF Spec

------------------------------------------------------------------------------
(* The final name never shows a wrong file. *)

\* Between the digest and the rename nothing changes the bytes of .part, and
\* the bytes under the final name are never bad.
Checked ==
    /\ OutputVerified /\ disk.output # "bad"
    /\ proc # "active" => step = "run"
    /\ step = "rename" => written = AllBlocks

\* The digest of CheckSha is the only way to a rename, and a crash forgets it.
LEMMA CheckedStep == TypeOK /\ Checked /\ [Next]_vars => Checked'
<1> SUFFICES ASSUME TypeOK, Checked, [Next]_vars PROVE Checked'
  OBVIOUS
<1> USE DEF TypeOK, Checked, OutputVerified
<1>1. ASSUME NEW l \in Limits, FileMeta(l) PROVE Checked'
  BY <1>1 DEF FileMeta
<1>2. CASE SizePart
  BY <1>2 DEF SizePart
<1>3. ASSUME NEW b \in 0 .. TotalBlocks, Data(b) \/ BackfillData(b) PROVE Checked'
  BY <1>3 DEF Data, BackfillData
<1>4. ASSUME NEW s \in AllBlocks, DrainEnds(s) PROVE Checked'
  BY <1>4 DEF DrainEnds
<1>5. CASE Sync \/ SaveState \/ BackfillEnd \/ ReportSection
  BY <1>5 DEF Sync, SaveState, BackfillEnd, ReportSection
<1>6. CASE CheckSha
  BY <1>6 DEF CheckSha
<1>7. CASE RenamePart
  BY <1>7 DEF RenamePart
<1>8. CASE RemoveState \/ EndTransfer
  BY <1>8 DEF RemoveState, EndTransfer
<1>9. CASE Writeback \/ Kill \/ PowerLoss
  BY <1>9 DEF Writeback, Kill, PowerLoss, Die
<1>10. CASE Restart
  BY <1>10 DEF Restart
<1>11. CASE UNCHANGED vars
  BY <1>11 DEF vars
<1> QED
  BY <1>1, <1>2, <1>3, <1>4, <1>5, <1>6, <1>7, <1>8, <1>9, <1>10, <1>11 DEF Next

\* Whatever crashes and whenever, under any section sizes, a file with a wrong
\* byte never appears under its final name.
THEOREM OutputIsVerified == Spec => []OutputVerified
<1>1. Init => Checked
  BY DEF Init, Checked, OutputVerified
<1>2. Checked => OutputVerified
  BY DEF Checked
<1> QED
  BY <1>1, <1>2, CheckedStep, TypeCorrect, PTL DEF Spec

------------------------------------------------------------------------------
(* What .state promises until it is left behind. *)

\* A handler runs in an open transfer, whose .part has its size until it is
\* renamed.
Handling ==
    /\ proc # "active" => step = "run"
    /\ proc \notin {"down", "idle"} => limit \in Limits
    /\ proc \in {"active", "shafailed"} /\ step # "unlink" => part = "full"
    /\ step = "unlink" => part = "absent"
    /\ proc = "opening" => part # "absent"

\* While there is a .part, the bits of .state are synced ones, and while the
\* transfer is open .state is of the section size in use.
StateOfPart ==
    /\ part # "absent" => state.bits \subseteq synced
    /\ state # NoState /\ proc \in {"opening", "active", "shafailed"} /\ step # "unlink" =>
          part = "full" /\ state.limit = limit /\ state.bits \subseteq bits

\* While the disk has the same .part as the process, the .state it has is one of
\* that .part, and its bits are synced ones too.
DiskOfPart ==
    disk.part = "current" =>
        /\ part # "absent"
        /\ disk.state.bits \subseteq synced
        /\ state = NoState => disk.state = NoState

\* What is synced is written, and what is about to be saved is synced.
Saving ==
    /\ synced \subseteq written
    /\ step \in {"save", "backfill_save"} => bits \subseteq synced

\* The section about to be reported is complete and, once saved, in .state.
Closing ==
    /\ step \in {"sync", "save"} => Blocks(closing, limit) \subseteq bits
    /\ step = "check" /\ bits # AllBlocks =>
          /\ state = [limit |-> limit, bits |-> bits]
          /\ Blocks(closing, limit) \subseteq bits

\* The inductive invariant.
Durable ==
    /\ TypeOK /\ Handling
    /\ ~leftBehind => StateOfPart /\ DiskOfPart /\ Saving /\ Closing
    /\ BitmapSound /\ ReportedIsDurable

USE DEF Durable, TypeOK, Handling, StateOfPart, DiskOfPart, Saving, Closing,
        BitmapSound, NeverSkipped, ReportedIsDurable

\* The invariant holds of an empty directory.
LEMMA DurableInit == Init => Durable
  BY TypeInit DEF Init, NoState

\* FILE_META loads what .state says, or finds no .state to contradict.
LEMMA DurableMeta ==
  ASSUME Durable, NEW l \in Limits, FileMeta(l), TypeOK' PROVE Durable'
<1>1. proc = "idle" /\ step = "run" /\ step' = "run"
  BY DEF FileMeta
<1>2. CASE Loads(l)
  BY <1>1, <1>2 DEF FileMeta, Loads
<1>3. CASE ~Loads(l)
  <2>1. ~leftBehind' => state = NoState
    BY <1>1, <1>3 DEF FileMeta
  <2> QED
    BY <1>1, <1>3, <2>1 DEF FileMeta, NoState
<1> QED
  BY <1>2, <1>3

\* Saving replaces a .state whose bits are all in memory still.
LEMMA DurableSave == ASSUME Durable, SaveState, TypeOK' PROVE Durable'
<1>1. state' = [limit |-> limit, bits |-> bits] /\ limit \in Limits
  BY DEF SaveState
<1>2. ASSUME ~leftBehind, NEW s \in reported PROVE Blocks(s, limit) \subseteq bits
  <2>1. PICK l \in Limits : state.limit = l /\ Blocks(s, l) \subseteq state.bits
    BY <1>2
  <2>2. state # NoState
    BY <2>1, ReceiverStoreAssumption DEF NoState
  <2> QED
    BY <1>2, <2>1, <2>2 DEF SaveState
<1>3. ReportedIsDurable'
  BY <1>1, <1>2 DEF SaveState
<1>4. Handling' /\ BitmapSound'
  BY DEF SaveState
<1>5. leftBehind' = leftBehind
  BY DEF SaveState
<1>6. ASSUME ~leftBehind PROVE StateOfPart' /\ DiskOfPart'
  BY <1>1, <1>6, ReceiverStoreAssumption DEF SaveState, NoState
<1>7. ASSUME ~leftBehind PROVE Saving' /\ Closing'
  BY <1>1, <1>7 DEF SaveState
<1> QED
  BY <1>3, <1>4, <1>5, <1>6, <1>7

\* A power loss leaves the .part and the .state that the disk has of it.
LEMMA DurablePowerLoss == ASSUME Durable, PowerLoss, TypeOK' PROVE Durable'
<1>1. Handling' /\ BitmapSound' /\ ReportedIsDurable' /\ leftBehind' = leftBehind
  BY DEF PowerLoss, Die
<1>2. ASSUME ~leftBehind PROVE StateOfPart' /\ DiskOfPart'
  <2>1. state'.bits \subseteq disk.state.bits
    BY DEF PowerLoss, NoState
  <2>2. disk.part # "absent" => disk.state.bits \subseteq synced'
    BY <1>2 DEF PowerLoss, PartFromDisk
  <2>3. part' # "absent" <=> disk.part # "absent"
    BY <1>2 DEF PowerLoss, PartFromDisk
  <2> QED
    BY <2>1, <2>2, <2>3 DEF PowerLoss, Die
<1>3. ASSUME ~leftBehind PROVE Saving' /\ Closing'
  BY <1>3 DEF PowerLoss, PartFromDisk, Die
<1> QED
  BY <1>1, <1>2, <1>3

\* Every other handler, crash and restart keeps the invariant.
LEMMA DurableStep == Durable /\ [Next]_vars => Durable'
<1> SUFFICES ASSUME Durable, [Next]_vars PROVE Durable'
  OBVIOUS
<1>0. TypeOK'
  BY TypeStep
<1>1. ASSUME NEW l \in Limits, FileMeta(l) PROVE Durable'
  BY <1>0, <1>1, DurableMeta
<1>2. CASE SizePart
  BY <1>0, <1>2 DEF SizePart
<1>3. ASSUME NEW b \in 0 .. TotalBlocks, Data(b) PROVE Durable'
  BY <1>0, <1>3 DEF Data, Write
<1>4. ASSUME NEW b \in 0 .. TotalBlocks, BackfillData(b) PROVE Durable'
  BY <1>0, <1>4 DEF BackfillData, Write
<1>5. ASSUME NEW s \in AllBlocks, DrainEnds(s) PROVE Durable'
  BY <1>0, <1>5 DEF DrainEnds
<1>6. CASE Sync
  BY <1>0, <1>6 DEF Sync
<1>7. CASE SaveState
  BY <1>0, <1>7, DurableSave
<1>8. CASE BackfillEnd
  BY <1>0, <1>8 DEF BackfillEnd
<1>9. CASE ReportSection
  BY <1>0, <1>9 DEF ReportSection, Report
<1>10. CASE CheckSha
  BY <1>0, <1>10 DEF CheckSha
<1>11. CASE RenamePart
  BY <1>0, <1>11 DEF RenamePart
<1>12. CASE RemoveState
  BY <1>0, <1>12 DEF RemoveState, NoState
<1>13. CASE EndTransfer
  BY <1>0, <1>13 DEF EndTransfer
<1>14. CASE Writeback
  BY <1>0, <1>14 DEF Writeback
<1>15. CASE Kill
  BY <1>0, <1>15 DEF Kill, Die
<1>16. CASE PowerLoss
  BY <1>0, <1>16, DurablePowerLoss
<1>17. CASE Restart
  BY <1>0, <1>17 DEF Restart
<1>18. CASE UNCHANGED vars
  BY <1>0, <1>18 DEF vars
<1> QED
  BY <1>1, <1>2, <1>3, <1>4, <1>5, <1>6, <1>7, <1>8, <1>9, <1>10, <1>11, <1>12, <1>13,
     <1>14, <1>15, <1>16, <1>17, <1>18 DEF Next

\* The invariant holds of every execution.
LEMMA AlwaysDurable == Spec => []Durable
<1> HIDE DEF Durable
<1> QED
  BY DurableInit, DurableStep, PTL DEF Spec

\* After any crashes, a set bit in memory stands for right bytes in .part,
\* until a .state file is left behind.
THEOREM BitmapIsSound == Spec => []BitmapSound
<1>1. Durable => BitmapSound
  OBVIOUS
<1> HIDE DEF Durable, BitmapSound
<1> QED
  BY <1>1, AlwaysDurable, PTL

\* The .state file never runs ahead of the data that survives a power loss,
\* until a .state file is left behind.
THEOREM StateIsSound == Spec => []StateSound
<1>1. Durable => StateSound
  BY DEF StateSound, NoState
<1> HIDE DEF Durable
<1> QED
  BY <1>1, AlwaysDurable, PTL

\* A section reported complete since the last power loss is in .state with all
\* its blocks: no kill makes the receiver ask for it again, until a .state file
\* is left behind.
THEOREM ReportsAreDurable == Spec => []ReportedIsDurable
<1>1. Durable => ReportedIsDurable
  OBVIOUS
<1> HIDE DEF Durable, ReportedIsDurable
<1> QED
  BY <1>1, AlwaysDurable, PTL
==============================================================================
