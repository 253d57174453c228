----------------------------- MODULE NodeRecords -----------------------------
(****************************************************************************)
(* What the records of one run promise to whoever reads them: NodeLifecycle *)
(* with the outputs and artifacts a run publishes (store.ts) in the order   *)
(* it does (persistCompletion): an artifact, the output that claims it, and *)
(* then the state the output justifies. It stands between NodeLifecycle and *)
(* RunGraph, which implements it, and RunReader reads what it writes.       *)
(*                                                                          *)
(* The store itself refuses less than this: it would block a task that has  *)
(* an output, or start one. That nobody asks it to is the run's promise.    *)
(****************************************************************************)
EXTENDS NodeLifecycle

VARIABLES
  output,     \* the status each task's output record has, or "none"
  stored,     \* tasks with an artifact record
  claims      \* tasks whose output claims an artifact

records == <<status, output, stored, claims>>

OutputStatuses == {"succeeded", "failed", "aborted"}

RecordsInit ==
  /\ Init
  /\ output = [t \in Tasks |-> "none"]
  /\ stored = {}
  /\ claims = {}

Unpublished(t) == output[t] = "none"

StartTask(t) ==
  /\ Start(t) /\ Unpublished(t)
  /\ UNCHANGED <<output, stored, claims>>

(* publishNodeOutput accepts an output of this status.                      *)
CanPublish(t, s) ==
  \/ status[t] = "running"
  \/ status[t] = "pending" /\ s # "succeeded"
  \/ status[t] = s

(* Both files are created exclusively, and an aborted task has no artifact. *)
PublishArtifact(t) ==
  /\ \E s \in {"succeeded", "failed"} : CanPublish(t, s)
  /\ Unpublished(t) /\ t \notin stored
  /\ stored' = stored \cup {t}
  /\ UNCHANGED <<status, output, claims>>

PublishOutput(t, s) ==
  /\ CanPublish(t, s) /\ Unpublished(t)
  /\ t \in stored => s # "aborted"
  /\ output' = [output EXCEPT ![t] = s]
  /\ claims' = claims \cup ({t} \cap stored)
  /\ UNCHANGED <<status, stored>>

(* A terminal state requires a published output of the same status.         *)
SettleTask(t, s) ==
  /\ Settle(t, s) /\ output[t] = s
  /\ UNCHANGED <<output, stored, claims>>

(* Deviation: a task is blocked whatever it has published.                  *)
BlockPublished(t) == Block(t) /\ UNCHANGED <<output, stored, claims>>

BlockTask(t) ==
  /\ Block(t) /\ Unpublished(t)
  /\ UNCHANGED <<output, stored, claims>>

WriteRecord ==
  \E t \in Tasks :
    \/ StartTask(t) \/ PublishArtifact(t) \/ BlockTask(t)
    \/ \E s \in OutputStatuses : PublishOutput(t, s) \/ SettleTask(t, s)

RecordsSpec == RecordsInit /\ [][WriteRecord]_records
=============================================================================
