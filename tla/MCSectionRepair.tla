--------------------------- MODULE MCSectionRepair ---------------------------
(* Instances of SectionRepair for TLC. *)
EXTENDS SectionRepair

\* A transfer with a new id: nothing recovered.
FreshPart == {[b \in AllBlocks |-> "none"]}

\* A .part recovered with a .state that tells the truth.
RecoveredPart == [AllBlocks -> {"none", "good"}]

\* A .part whose recovered .state may be stale: set bits over wrong bytes.
StalePart == [AllBlocks -> Content]
==============================================================================
