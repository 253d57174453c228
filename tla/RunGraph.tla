------------------------------ MODULE RunGraph ------------------------------
(****************************************************************************)
(* runGraph (run.ts): the scheduler of one run, its executions and the      *)
(* records it leaves on disk.                                               *)
(*                                                                          *)
(* The scheduler is one coroutine; `at` is the await it stands at. Between  *)
(* two of its steps anything else may happen: an executor answers, a task   *)
(* timer or a cleanup timer fires, the caller aborts, an operator forces    *)
(* the run's release, the process is killed. It keeps its own node states   *)
(* (`memory`) beside the persisted ones (`disk`), and schedules from its    *)
(* own.                                                                     *)
(*                                                                          *)
(* A store call is one step per record it writes. Its validation and its    *)
(* write happen under the mutation lock, which RunLock shows to exclude     *)
(* every other mutation and to imply ownership; here the lock is only a     *)
(* reason for a call to be refused, as is any failing read or write.        *)
(****************************************************************************)
EXTENDS TaskGraph, FiniteSets

CONSTANTS
  Concurrency,      \* graph.concurrency, at most as many executions at once
  NoTask            \* no task is in hand

ASSUME ConcurrencyAssumption ==
  /\ IsFiniteSet(Tasks)
  /\ Concurrency \in Nat \ {0}
  /\ NoTask \notin Tasks

VARIABLES
  \* the store
  disk,       \* node-state records: the status of each task
  output,     \* node-output records: the status each claims, or "none"
  artifacts,  \* tasks with an artifact file
  claims,     \* tasks whose output record claims an artifact
  owned,      \* owner.json still records this run's capability
  \* the scheduler's process
  memory,     \* its node states
  exec,       \* each task's entry in the map `running`, "idle" when absent
  aborted,    \* runController.signal.aborted
  at,         \* where the coroutine stands
  mode,       \* what settlePersistedBlocked returns to: the loop ("run"), the
              \* final settlement ("last") or abortPending ("abort")
  batch,      \* tasks left in the `for` loop in progress
  hand,       \* the task the coroutine is working on
  verdict,    \* the status it is being given
  outcome     \* how the call ends: a GraphRunStatus, or the kind of error

store == <<disk, output, artifacts, claims, owned>>
vars == <<disk, output, artifacts, claims, owned, memory, exec, aborted, at, mode, batch,
          hand, verdict, outcome>>

OutputStatuses == {"succeeded", "failed", "aborted"}

(* "executing": the executor runs. "timedOut", "cancelled": its signal is   *)
(* aborted and the cleanup timer runs. The rest: the promise has settled.   *)
Unsettled == {"executing", "timedOut", "cancelled"}

Active == {t \in Tasks : exec[t] # "idle"}

Init ==
  /\ disk = CreateInitialState
  /\ output = [t \in Tasks |-> "none"]
  /\ artifacts = {}
  /\ claims = {}
  /\ owned = TRUE
  /\ memory = CreateInitialState
  /\ exec = [t \in Tasks |-> "idle"]
  /\ aborted \in BOOLEAN
  /\ at = "loop"
  /\ mode = "run"
  /\ batch = {}
  /\ hand = NoTask
  /\ verdict = "pending"
  /\ outcome = "none"

-----------------------------------------------------------------------------
(* The abort signal reaches every execution in the same synchronous call.   *)
(* One that already timed out keeps that verdict.                           *)
Cancelled ==
  [t \in Tasks |-> IF exec[t] = "executing" THEN "cancelled" ELSE exec[t]]

(* A call throws: the catch block aborts whatever still executes.           *)
Throw(kind) ==
  /\ at' = "failing"
  /\ aborted' = TRUE
  /\ exec' = Cancelled
  /\ outcome' = kind
  /\ UNCHANGED <<memory, mode, batch, hand, verdict>>

Available == Concurrency - Cardinality(Active)

(* The head of the `while`: the ready tasks that fit are picked, none after *)
(* an abort. Which ones come first is the graph's order; any choice is      *)
(* allowed here.                                                            *)
Schedule ==
  /\ at = "loop"
  /\ IF IsGraphComplete(memory)
     THEN at' = "report" /\ UNCHANGED batch
     ELSE /\ at' = "batch"
          /\ batch' \in {S \in SUBSET ReadyFrontier(memory) :
               IF aborted THEN S = {}
               ELSE \/ Cardinality(S) = Available
                    \/ S = ReadyFrontier(memory) /\ Cardinality(S) < Available}
  /\ UNCHANGED <<store, memory, exec, aborted, mode, hand, verdict, outcome>>

(* prerequisiteOutputs: every direct prerequisite's output must be there,   *)
(* agree with its node state (assertOutputMatchesState) and have succeeded. *)
PrerequisiteReadable(d) == output[d] = "succeeded" /\ disk[d] \notin Blocking

TakeReady(t) ==
  /\ at = "batch" /\ ~aborted
  /\ t \in batch
  /\ IF \A d \in Needs[t] : PrerequisiteReadable(d)
     THEN /\ at' = "start"
          /\ batch' = batch \ {t}
          /\ hand' = t
          /\ UNCHANGED <<memory, exec, aborted, mode, verdict, outcome>>
     ELSE Throw("scheduling")
  /\ UNCHANGED store

(* writeNodeState(hand, "running"), validated against the records on disk.  *)
WriteRunning ==
  /\ at = "start" /\ owned
  /\ IF MaySetStatus(disk, hand, "running")
     THEN /\ disk' = SetNodeStatus(disk, hand, "running")
          /\ at' = "launch"
          /\ UNCHANGED <<memory, exec, aborted, mode, batch, hand, verdict, outcome>>
     ELSE Throw("scheduling") /\ UNCHANGED disk
  /\ UNCHANGED <<output, artifacts, claims, owned>>

(* Deviation: the signal is not looked at again after the write.            *)
LaunchAnyway == {"executing"}

(* What enters the map `running`: a result decided without executing when   *)
(* the run was aborted during the write or the prerequisite context is too  *)
(* large, an execution otherwise.                                           *)
Launched ==
  IF aborted THEN {"aborted"}
  ELSE IF Needs[hand] = {} THEN {"executing"} ELSE {"executing", "failed"}

Launch ==
  /\ at = "launch"
  /\ IF MaySetStatus(memory, hand, "running")
     THEN /\ memory' = SetNodeStatus(memory, hand, "running")
          /\ \E e \in Launched : exec' = [exec EXCEPT ![hand] = e]
          /\ at' = "batch"
          /\ hand' = NoTask
          /\ UNCHANGED <<aborted, mode, batch, verdict, outcome>>
     ELSE Throw("scheduling")
  /\ UNCHANGED store

(* The `for` loop is over: wait for a completion, or, with nothing running, *)
(* abort what is pending or settle the graph for the last time.             *)
LeaveBatch ==
  /\ at = "batch"
  /\ batch = {} \/ aborted
  /\ IF Active # {}
     THEN at' = "race" /\ batch' = {} /\ UNCHANGED mode
     ELSE /\ at' = "settle"
          /\ batch' = Doomed(memory)
          /\ mode' = IF aborted THEN "abort" ELSE "last"
  /\ UNCHANGED <<store, memory, exec, aborted, hand, verdict, outcome>>

(* Promise.race and running.delete: one settled execution is taken out.     *)
Reap(t) ==
  /\ at = "race"
  /\ exec[t] \in OutputStatuses
  /\ at' = "publish"
  /\ hand' = t
  /\ verdict' = exec[t]
  /\ exec' = [exec EXCEPT ![t] = "idle"]
  /\ UNCHANGED <<store, memory, aborted, mode, batch, outcome>>

-----------------------------------------------------------------------------
(* persistCompletion: publishNodeOutput, then writeNodeState.               *)

CanPublish(t, s) ==
  \/ disk[t] = "running"
  \/ disk[t] = "pending" /\ s # "succeeded"
  \/ disk[t] = s

(* Deviation: the output record is written before the artifact it claims.   *)
PublishClaimFirst ==
  /\ at = "publish" /\ owned /\ CanPublish(hand, verdict)
  /\ verdict # "aborted"
  /\ claims' = claims \cup {hand}
  /\ at' = "publishOutput"
  /\ UNCHANGED <<disk, output, artifacts, owned, memory, exec, aborted, mode, batch, hand,
                 verdict, outcome>>

(* An answer may carry an artifact; it is written before the output record. *)
(* Both files are created exclusively.                                      *)
PublishArtifact ==
  /\ at = "publish" /\ owned /\ CanPublish(hand, verdict)
  /\ verdict # "aborted"
  /\ IF hand \notin artifacts
     THEN /\ artifacts' = artifacts \cup {hand}
          /\ at' = "publishOutput"
          /\ UNCHANGED <<memory, exec, aborted, mode, batch, hand, verdict, outcome>>
     ELSE Throw("scheduling") /\ UNCHANGED artifacts
  /\ UNCHANGED <<disk, output, claims, owned>>

PublishOutput ==
  /\ \/ at = "publish" /\ owned /\ claims' = claims
     \/ at = "publishOutput" /\ claims' = claims \cup {hand}
  /\ IF CanPublish(hand, verdict) /\ output[hand] = "none"
     THEN /\ output' = [output EXCEPT ![hand] = verdict]
          /\ at' = "persist"
          /\ UNCHANGED <<memory, exec, aborted, mode, batch, hand, verdict, outcome>>
     ELSE Throw("scheduling") /\ UNCHANGED output
  /\ UNCHANGED <<disk, artifacts, owned>>

PersistState ==
  /\ at = "persist" /\ owned
  /\ IF MaySetStatus(disk, hand, verdict) /\ output[hand] = verdict
     THEN /\ disk' = SetNodeStatus(disk, hand, verdict)
          /\ at' = "complete"
          /\ UNCHANGED <<memory, exec, aborted, mode, batch, hand, verdict, outcome>>
     ELSE Throw("scheduling") /\ UNCHANGED disk
  /\ UNCHANGED <<output, artifacts, claims, owned>>

(* Back from persistCompletion: the scheduler's own state follows, and      *)
(* settlePersistedBlocked begins, in abortPending once its frontier is done. *)
Complete ==
  /\ at = "complete"
  /\ IF MaySetStatus(memory, hand, verdict)
     THEN /\ memory' = SetNodeStatus(memory, hand, verdict)
          /\ IF batch = {}
             THEN at' = "settle" /\ batch' = Doomed(memory')
             ELSE at' = "abort" /\ UNCHANGED batch
          /\ hand' = NoTask
          /\ UNCHANGED <<exec, aborted, mode, verdict, outcome>>
     ELSE Throw("scheduling")
  /\ UNCHANGED store

-----------------------------------------------------------------------------
(* settlePersistedBlocked: one writeNodeState(t, "blocked") after another.  *)
WriteBlocked(t) ==
  /\ at = "settle" /\ owned
  /\ t \in batch
  /\ IF t \in Doomed(disk)
     THEN /\ disk' = SetNodeStatus(disk, t, "blocked")
          /\ batch' = batch \ {t}
          /\ UNCHANGED <<memory, exec, aborted, at, mode, hand, verdict, outcome>>
     ELSE Throw("scheduling") /\ UNCHANGED disk
  /\ UNCHANGED <<output, artifacts, claims, owned>>

Settled == SettleBlocked(memory)

(* Deviation: abortPending aborts one frontier only.                        *)
AbortOneFrontier ==
  IF mode = "run" THEN "loop" ELSE IF mode = "abort" THEN "report" ELSE "stuck"

(* Where the settled state leads: back to the loop, to the report of a      *)
(* complete graph, to the next frontier to abort, or to one of the two      *)
(* errors of a graph that cannot go on.                                     *)
AfterSettling ==
  IF mode = "run" THEN "loop"
  ELSE IF IsGraphComplete(Settled) THEN "report"
  ELSE IF mode = "abort" /\ ReadyFrontier(Settled) # {} THEN "abort"
  ELSE "stuck"

FinishSettling ==
  /\ at = "settle" /\ batch = {}
  /\ IF AfterSettling = "stuck" THEN Throw("scheduling")
     ELSE /\ memory' = Settled
          /\ at' = AfterSettling
          /\ batch' = IF AfterSettling = "abort" THEN ReadyFrontier(Settled) ELSE {}
          /\ UNCHANGED <<exec, aborted, mode, hand, verdict, outcome>>
  /\ UNCHANGED store

(* abortPending: the next task of the frontier completes as aborted.        *)
AbortReady(t) ==
  /\ at = "abort"
  /\ t \in batch
  /\ batch' = batch \ {t}
  /\ hand' = t
  /\ verdict' = "aborted"
  /\ at' = "publish"
  /\ UNCHANGED <<store, memory, exec, aborted, mode, outcome>>

-----------------------------------------------------------------------------
(* aggregateStatus of the records read back from disk.                      *)
Aggregate ==
  IF \E t \in Tasks : disk[t] = "aborted" THEN "aborted"
  ELSE IF \E t \in Tasks : disk[t] # "succeeded" THEN "failed"
  ELSE "succeeded"

Report ==
  /\ at = "report"
  /\ outcome' = Aggregate
  /\ at' = "release"
  /\ UNCHANGED <<store, memory, exec, aborted, mode, batch, hand, verdict>>

(* A store call is refused: the lock stayed busy, the run is no longer      *)
(* owned, or a read or a write failed.                                      *)
StoreRefuses ==
  /\ \/ at \in {"start", "publish", "publishOutput", "persist", "report"}
     \/ at = "batch" /\ batch # {} /\ ~aborted
     \/ at = "settle" /\ batch # {}
  /\ Throw("refused")
  /\ UNCHANGED store

(* Deviation: the error is rethrown at once.                                *)
RethrowAtOnce ==
  /\ at = "failing"
  /\ at' = "release"
  /\ UNCHANGED <<store, memory, exec, aborted, mode, batch, hand, verdict, outcome>>

(* Promise.allSettled: nothing executes when the error is rethrown.         *)
AwaitExecutions ==
  /\ at = "failing"
  /\ \A t \in Tasks : exec[t] \notin Unsettled
  /\ at' = "release"
  /\ UNCHANGED <<store, memory, exec, aborted, mode, batch, hand, verdict, outcome>>

(* releaseRunHold. A refused release fails a call that would have returned  *)
(* and never replaces an earlier error. An owner record already gone is not *)
(* an error.                                                                *)
Release ==
  /\ at = "release"
  /\ \/ owned' = FALSE /\ UNCHANGED outcome
     \/ /\ UNCHANGED owned
        /\ outcome' = IF outcome = "scheduling" THEN outcome ELSE "refused"
  /\ at' = "ended"
  /\ UNCHANGED <<disk, output, artifacts, claims, memory, exec, aborted, mode, batch, hand,
                 verdict>>

Scheduler ==
  \/ Schedule \/ WriteRunning \/ Launch \/ LeaveBatch
  \/ PublishArtifact \/ PublishOutput \/ PersistState \/ Complete
  \/ FinishSettling \/ Report \/ StoreRefuses \/ AwaitExecutions \/ Release
  \/ \E t \in Tasks : TakeReady(t) \/ Reap(t) \/ WriteBlocked(t) \/ AbortReady(t)

-----------------------------------------------------------------------------
(* executeTask: what happens to one execution.                              *)

(* Every step below belongs to the scheduler's process.                     *)
Alive == at \notin {"ended", "dead"}

SetExec(t, from, to) ==
  /\ Alive
  /\ exec[t] = from
  /\ exec' = [exec EXCEPT ![t] = to]
  /\ UNCHANGED <<store, memory, aborted, at, mode, batch, hand, verdict, outcome>>

(* The executor's promise settles first: with a report, or with blockers,   *)
(* an invalid result or an error.                                           *)
Answer(t) == \E s \in {"succeeded", "failed"} : SetExec(t, "executing", s)

TimeOut(t) == SetExec(t, "executing", "timedOut")

(* Deviation: the abort listener starts no cleanup timer of its own.        *)
CleanUpTimedOut(t) == SetExec(t, "timedOut", "failed")

(* A late answer or the cleanup timer: either way the verdict was already   *)
(* decided by what aborted the execution, and the answer only adds usage.   *)
CleanUp(t) == SetExec(t, "timedOut", "failed") \/ SetExec(t, "cancelled", "aborted")

(* The caller's signal, until the `finally` block stops listening to it.    *)
UserAbort ==
  /\ Alive /\ at # "release"
  /\ ~aborted
  /\ aborted' = TRUE
  /\ exec' = Cancelled
  /\ UNCHANGED <<store, memory, at, mode, batch, hand, verdict, outcome>>

(* An operator's forceReleaseRunOwnership. It takes the mutation lock, so   *)
(* it never falls between the two writes of one publication.                *)
ForceRelease ==
  /\ owned /\ at # "publishOutput"
  /\ owned' = FALSE
  /\ UNCHANGED <<disk, output, artifacts, claims, memory, exec, aborted, at, mode, batch,
                 hand, verdict, outcome>>

(* The process is killed. Nothing resumes a run: what is on disk stays.     *)
Crash ==
  /\ Alive
  /\ at' = "dead"
  /\ UNCHANGED <<store, memory, exec, aborted, mode, batch, hand, verdict, outcome>>

Next ==
  \/ Scheduler
  \/ \E t \in Tasks : Answer(t) \/ TimeOut(t) \/ CleanUp(t)
  \/ UserAbort \/ ForceRelease \/ Crash

Spec == Init /\ [][Next]_vars

(* An await whose promise is settled resumes; a store call returns or       *)
(* throws; task timers and cleanup timers fire.                             *)
Fairness ==
  /\ WF_vars(Scheduler)
  /\ \A t \in Tasks : WF_vars(TimeOut(t)) /\ WF_vars(CleanUp(t))

FairSpec == Spec /\ Fairness

-----------------------------------------------------------------------------
Points == {"loop", "batch", "start", "launch", "race", "publish", "publishOutput", "persist",
           "complete", "settle", "abort", "report", "failing", "release", "ended", "dead"}
Outcomes == {"none", "succeeded", "failed", "aborted", "refused", "scheduling"}

TypeOK ==
  /\ disk \in GraphStates
  /\ output \in [Tasks -> OutputStatuses \cup {"none"}]
  /\ artifacts \subseteq Tasks /\ claims \subseteq Tasks
  /\ owned \in BOOLEAN
  /\ memory \in GraphStates
  /\ exec \in [Tasks -> {"idle"} \cup Unsettled \cup OutputStatuses]
  /\ aborted \in BOOLEAN
  /\ at \in Points
  /\ mode \in {"run", "last", "abort"}
  /\ batch \subseteq Tasks
  /\ hand \in Tasks \cup {NoTask}
  /\ verdict \in Statuses
  /\ outcome \in Outcomes

(* The scheduler decides from states the store also holds. It is one record *)
(* ahead or behind only between a write and the await's return, and in the  *)
(* middle of a settlement, whose rest is still what it will write.          *)
MemoryTracksDisk ==
  /\ at \in {"loop", "batch", "start", "race", "publish", "publishOutput", "persist",
             "abort", "report"} => memory = disk
  /\ at = "launch" => disk = SetNodeStatus(memory, hand, "running")
  /\ at = "complete" => disk = SetNodeStatus(memory, hand, verdict)
  /\ at = "settle" => SettleBlocked(disk) = Settled /\ batch = Doomed(disk)

(* Whatever step a crash, a refusal or a forced release interrupts: a       *)
(* terminal record is backed by an output of the same status, a succeeded   *)
(* output by a task that ran, and a claimed artifact exists. A task settled *)
(* as blocked has published nothing.                                        *)
OutputBacksState ==
  /\ \A t \in Tasks :
       /\ disk[t] \in OutputStatuses => output[t] = disk[t]
       /\ output[t] = "succeeded" => disk[t] \in {"running", "succeeded"}
       /\ disk[t] = "blocked" => output[t] = "none"
  /\ claims \subseteq artifacts

(* A task executes only while its record says so, and only when every       *)
(* direct prerequisite durably succeeded with an output a dependent may     *)
(* read. No crash can leave an execution the store knows nothing of.        *)
StartsOnDurableInputs ==
  \A t \in Tasks : exec[t] \in Unsettled =>
    /\ disk[t] = "running"
    /\ \A d \in Needs[t] : disk[d] = "succeeded" /\ output[d] = "succeeded"

(* Neither the executions nor the records that say "running" outnumber the  *)
(* graph's concurrency, although a completion leaves the map before its     *)
(* record is replaced.                                                      *)
ConcurrencyBound ==
  /\ Cardinality(Active) <= Concurrency
  /\ Cardinality({t \in Tasks : disk[t] = "running"}) <= Concurrency

(* The scheduler never asks the store for a transition, an output or a      *)
(* prerequisite it must refuse, never breaks setNodeStatus's rules on its   *)
(* own states, and never meets "no scheduling progress" or "no abortable    *)
(* frontier": only the lock, the ownership or I/O ends a run early.         *)
NeverMisschedules == outcome # "scheduling"

(* A result describes a run that is over: every record terminal, nothing    *)
(* executing. Aborted means that the caller aborted and some task felt it,  *)
(* failed that a task failed and none was aborted, succeeded that every     *)
(* task has a succeeded output.                                             *)
ResultIsTrue ==
  outcome \in OutputStatuses =>
    /\ IsGraphComplete(disk) /\ Active = {}
    /\ outcome = "aborted" <=> \E t \in Tasks : disk[t] = "aborted"
    /\ outcome = "aborted" => aborted
    /\ outcome = "failed" => \E t \in Tasks : disk[t] = "failed"
    /\ outcome = "succeeded" => \A t \in Tasks : output[t] = "succeeded"

(* No executor is started once the run is aborted, even if the abort came   *)
(* during the awaits that precede its start.                                *)
NoStartAfterAbort ==
  [][aborted => \A t \in Tasks :
       exec'[t] = "executing" => exec[t] = "executing"]_vars

(* When ownership is given up no promise of the run is left unsettled: what *)
(* the release recovers without looking may be recovered.                   *)
ReleaseWaitsForExecutions ==
  at \in {"release", "ended"} => \A t \in Tasks : exec[t] \notin Unsettled

(* The call returns or throws, whatever executors, signals and locks do.    *)
RunEnds == <>(at \in {"ended", "dead"})

(* The records evolve as NodeLifecycle promises, whatever interrupts them.  *)
Lifecycle == INSTANCE NodeLifecycle WITH status <- disk
RecordsFollowLifecycle == Lifecycle!Spec

(* The four kinds of record evolve together as NodeRecords promises to      *)
(* whoever reads them: an artifact before the output that claims it, an     *)
(* output before the state it justifies, one of each, and neither a start   *)
(* nor a blocking of a task that has published.                             *)
Protocol ==
  INSTANCE NodeRecords WITH status <- disk, output <- output, stored <- artifacts,
                            claims <- claims
RecordsFollowProtocol == Protocol!RecordsSpec

-----------------------------------------------------------------------------
(* The inductive invariant behind the theorems of RunGraphProofs.           *)

Over == at \in {"failing", "release", "ended", "dead"}
Completing == at \in {"publish", "publishOutput", "persist", "complete"}

(* What the types rest on: a completion is of a task, and final.            *)
InHand ==
  at \in {"publish", "publishOutput"} => hand \in Tasks /\ verdict \in OutputStatuses

(* Whatever the loop still has to do, and what it has in hand, is ready in  *)
(* the scheduler's own states; a completion is of a task that ran or, in    *)
(* abortPending, of one that is ready.                                      *)
WorkIsReady ==
  /\ at \in {"loop", "batch", "race", "settle", "abort"} => hand = NoTask
  /\ at \in {"loop", "race", "report"} => batch = {}
  /\ at \in {"start", "launch"} => hand \in ReadyFrontier(memory)
  /\ Completing => hand \in Tasks /\ exec[hand] = "idle"
  /\ Completing /\ mode = "abort" => hand \in ReadyFrontier(memory)
  /\ ~Over /\ at # "settle" => batch \subseteq ReadyFrontier(memory) \ {hand}

(* Why the scheduler is where it is.                                        *)
ModeHonest ==
  /\ at \in {"loop", "batch", "start", "launch", "race"} => mode = "run"
  /\ at = "abort" => mode = "abort"
  /\ Completing => mode # "last" /\ (mode = "run" => batch = {})
  /\ mode = "abort" => aborted
  /\ mode # "run" => Active = {}
  /\ at = "batch" => batch # {} \/ Active # {} \/ aborted \/ ReadyFrontier(memory) = {}
  /\ at = "settle" /\ mode = "last" => ReadyFrontier(memory) = {}
  /\ at = "report" => Active = {} /\ IsGraphComplete(memory)

(* The tasks that run are the executions and the one just taken from them.  *)
RunningExecutes ==
  /\ \A t \in Tasks : exec[t] # "idle" => disk[t] = "running"
  /\ ~Over => \A t \in Tasks :
       memory[t] = "running"
         <=> (exec[t] # "idle" \/ (Completing /\ mode = "run" /\ t = hand))

(* A verdict is a task's own, and says "aborted" only in an aborted run.    *)
VerdictTrue ==
  /\ Completing => verdict \in OutputStatuses
  /\ Completing /\ verdict = "aborted" => aborted
  /\ Completing /\ mode = "abort" => verdict = "aborted"
  /\ \A t \in Tasks : exec[t] \in {"cancelled", "aborted"} \/ disk[t] = "aborted" => aborted

(* Outputs and artifacts exist only for settled tasks and the one in hand.  *)
OutputsFresh ==
  /\ ~Over => \A t \in Tasks :
       output[t] # "none" => disk[t] \in OutputStatuses \/ (at = "persist" /\ t = hand)
  /\ ~Over => \A t \in artifacts :
       output[t] # "none" \/ (at = "publishOutput" /\ t = hand)
  /\ at = "publishOutput" => hand \in artifacts /\ verdict # "aborted"
  /\ at = "persist" => output[hand] = verdict

OutcomeAtEnd ==
  /\ ~Over => outcome = "none"
  /\ at = "failing" => outcome = "refused"

IInv ==
  /\ TypeOK /\ WorkIsReady /\ ModeHonest /\ RunningExecutes /\ VerdictTrue /\ OutputsFresh
  /\ OutcomeAtEnd /\ MemoryTracksDisk /\ OutputBacksState /\ StartsOnDurableInputs
  /\ NeverMisschedules /\ ResultIsTrue /\ ReleaseWaitsForExecutions

(* Tasks picked but not started, the one in hand and the executions fit.    *)
Running == {t \in Tasks : disk[t] = "running"}
SlotsFree ==
  /\ at = "batch" => Cardinality(batch) + Cardinality(Active) <= Concurrency
  /\ at \in {"start", "launch"} =>
       Cardinality(batch) + Cardinality(Active) + 1 <= Concurrency
  /\ Completing /\ mode = "run" => Cardinality(Active) + 1 <= Concurrency
  /\ ConcurrencyBound
=============================================================================
