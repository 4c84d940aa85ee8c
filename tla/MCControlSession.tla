-------------------------- MODULE MCControlSession --------------------------
(* Instances of ControlSession for TLC. *)
EXTENDS ControlSession

\* A file of two sections, then one of a single section.
TwoFiles == <<2, 1>>

OneFile == <<1>>
==============================================================================
