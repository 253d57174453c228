------------------------------ MODULE EventLog ------------------------------
(****************************************************************************)
(* What the coordination journal of a run promises: a bounded log to which  *)
(* one record at a time is appended, and from which nothing is removed.     *)
(****************************************************************************)
EXTENDS Naturals, Sequences

CONSTANTS
  Entries,     \* what a record may be
  MaxRecords   \* RUN_COORDINATION_MAX_RECORDS

VARIABLE log

Init == log = <<>>

Publish ==
  /\ Len(log) < MaxRecords
  /\ \E e \in Entries : log' = Append(log, e)

Spec == Init /\ [][Publish]_log
=============================================================================
