---------------------------- MODULE Configuration ----------------------------
(****************************************************************************)
(* The operator's configuration file (config.ts), as its readers see it: a  *)
(* read finds it whole and valid, or throws. Every reader reads it afresh,  *)
(* and it is edited under all of them.                                      *)
(****************************************************************************)
EXTENDS Naturals

CONSTANTS
  Broken,       \* missing, malformed, too large or invalid: a read throws
  None,         \* no value
  Profiles,     \* the sets of worker profiles it may name
  MaxCost,      \* the largest maxGraphCostUsd
  MaxEdits      \* bound of the model

ASSUME ConfigurationAssumption ==
  /\ None \notin Profiles /\ None \notin Nat
  /\ MaxCost \in Nat /\ MaxEdits \in Nat

Readable == [orchestrator : BOOLEAN, profiles : Profiles, ceiling : {None} \cup 1..MaxCost]

ASSUME BrokenAssumption == Broken \notin Readable

VARIABLES
  file,         \* what a read of the configuration finds
  edits         \* how often it was edited

configuration == <<file, edits>>

ConfigurationInit == file \in Readable /\ edits = 0

(* A file caught in the middle of a save reads as broken.                   *)
EditFile ==
  /\ edits < MaxEdits /\ edits' = edits + 1
  /\ file' \in Readable \cup {Broken} /\ file' # file

ConfigurationTypeOK == file \in Readable \cup {Broken} /\ edits \in 0..MaxEdits
=============================================================================
