--------------------------- MODULE RunGraphProofs ---------------------------
(****************************************************************************)
(* Theorems of RunGraph, for every acyclic graph of finitely many tasks and *)
(* every concurrency, and of Admission, which lets only such graphs pass.   *)
(*                                                                          *)
(* IInv (in RunGraph) is inductive. Its heart is that the scheduler's own   *)
(* states are the stored ones whenever it decides (MemoryTracksDisk), that  *)
(* what it has picked stays ready until it is started (WorkIsReady) and     *)
(* that an output exists only for what is settled or in hand                *)
(* (OutputsFresh): from these, no store call is refused for its contents.   *)
(* Each action has a lemma. Its first steps say what the action does when   *)
(* the invariant holds, which rules out the branches that throw; the rest   *)
(* checks the parts of IInv in groups. Types come first, and with them the  *)
(* refinement of NodeLifecycle, whose theorems then hold of these records.  *)
(*                                                                          *)
(* Admission is last. SearchInv is the invariant of its depth-first search, *)
(* stated of any dependencies; AdmissionInv says what each layer has made   *)
(* sure of.                                                                 *)
(****************************************************************************)
EXTENDS RunGraph, Admission, FiniteSetTheorems, TLAPS

-----------------------------------------------------------------------------
(* What RunReaderProofs shows of the task graph and of the node states a    *)
(* run records, here of this run's, which nobody reads.                     *)
Records ==
  INSTANCE RunReaderProofs
    WITH status <- disk, stored <- artifacts, Asked <- {}, deleting <- FALSE, call <- <<>>,
         saw <- [k \in {"state", "output", "artifact"} |-> "unread"], ran <- FALSE,
         contradiction <- FALSE, hidden <- FALSE, Followed <- {}

LEMMA SameGraph ==
  /\ Records!GraphStates = GraphStates /\ (Acyclic <=> Records!Acyclic)
  /\ \A state : /\ Records!Doomed(state) = Doomed(state)
                /\ Records!SettleBlocked(state) = SettleBlocked(state)
                /\ Records!ReadyFrontier(state) = ReadyFrontier(state)
                /\ Records!IsGraphComplete(state) <=> IsGraphComplete(state)
  /\ \A state, t, s : Records!SetNodeStatus(state, t, s) = SetNodeStatus(state, t, s)
BY DEF GraphStates, Records!GraphStates, Statuses, Records!Statuses, Terminal, Records!Terminal,
   Acyclic, Records!Acyclic, Doomed, Records!Doomed, Pending, Records!Pending, Absorbs,
   Records!Absorbs, HasBlockingNeed, Records!HasBlockingNeed, Blocking, Records!Blocking,
   SettleBlocked, Records!SettleBlocked, ReadyFrontier, Records!ReadyFrontier,
   NeedsSucceeded, Records!NeedsSucceeded, IsGraphComplete, Records!IsGraphComplete,
   SetNodeStatus, Records!SetNodeStatus

LEMMA SameRequests == Records!RawIds = RawIds /\ Records!Payloads = Payloads
BY DEF RawIds, Records!RawIds, Payloads, Records!Payloads

LEMMA SettleBlockedType ==
  ASSUME NEW state \in GraphStates
  PROVE  SettleBlocked(state) \in GraphStates
BY GraphAssumption, RequestsAssumption, SameRequests, SameGraph, Records!SettleBlockedType

LEMMA FrontierOfSettled ==
  ASSUME NEW state \in GraphStates,
         \A t \in Tasks : SettleBlocked(state)[t] # "running",
         ~IsGraphComplete(SettleBlocked(state))
  PROVE  ReadyFrontier(SettleBlocked(state)) # {}
BY GraphAssumption, RequestsAssumption, SameRequests, SameGraph, Records!FrontierOfSettled

LEMMA NothingDoomed ==
  ASSUME NEW state \in GraphStates, Doomed(state) = {}
  PROVE  SettleBlocked(state) = state
BY GraphAssumption, RequestsAssumption, SameRequests, SameGraph, Records!NothingDoomed

LEMMA SettlingReadiesNothing ==
  ASSUME NEW state \in GraphStates
  PROVE  ReadyFrontier(SettleBlocked(state)) \subseteq ReadyFrontier(state)
BY GraphAssumption, RequestsAssumption, SameRequests, SameGraph, Records!SettlingReadiesNothing

LEMMA BlockKeepsOthersDoomed ==
  ASSUME NEW state \in GraphStates, NEW t \in Doomed(state)
  PROVE  Doomed(SetNodeStatus(state, t, "blocked")) = Doomed(state) \ {t}
BY GraphAssumption, RequestsAssumption, SameRequests, SameGraph, Records!BlockKeepsOthersDoomed

LEMMA BlockKeepsSettlement ==
  ASSUME NEW state \in GraphStates, NEW t \in Doomed(state)
  PROVE  SettleBlocked(SetNodeStatus(state, t, "blocked")) = SettleBlocked(state)
BY GraphAssumption, RequestsAssumption, SameRequests, SameGraph, Records!BlockKeepsSettlement

-----------------------------------------------------------------------------
(* Every step keeps the types, whether or not it is one IInv allows.        *)
LEMMA TypeStep ==
  ASSUME TypeOK, InHand, [Next]_vars
  PROVE  (TypeOK /\ InHand)'
<1> USE GraphAssumption, ConcurrencyAssumption
   DEF TypeOK, InHand, GraphStates, Statuses, Terminal,
      Points, Outcomes, OutputStatuses, Unsettled, Throw, Cancelled, SetNodeStatus, store
<1>1. CASE Schedule
  BY <1>1 DEF Schedule, ReadyFrontier
<1>2. CASE WriteRunning
  <2>1. disk' \in GraphStates
    BY <1>2 DEF WriteRunning
  <2>2. exec' \in [Tasks -> {"idle"} \cup Unsettled \cup OutputStatuses]
    BY <1>2 DEF WriteRunning
  <2>3. at' \in Points \ {"publish", "publishOutput"} /\ outcome' \in Outcomes /\ aborted' \in
         BOOLEAN
    BY <1>2 DEF WriteRunning
  <2> QED
    BY <1>2, <2>1, <2>2, <2>3 DEF WriteRunning
<1>3. CASE Launch
  <2>1. memory' \in GraphStates
    BY <1>3 DEF Launch
  <2>2. exec' \in [Tasks -> {"idle"} \cup Unsettled \cup OutputStatuses]
    BY <1>3 DEF Launch, Launched
  <2>3. at' \in Points /\ outcome' \in Outcomes /\ aborted' \in BOOLEAN
    BY <1>3 DEF Launch
  <2>4. hand' \in Tasks \cup {NoTask} /\ UNCHANGED <<store, mode, batch, verdict>>
    BY <1>3 DEF Launch
  <2> QED
    BY <1>3, <2>1, <2>2, <2>3, <2>4 DEF Launch
<1>4. CASE LeaveBatch
  BY <1>4 DEF LeaveBatch, Doomed, Pending
<1>5. CASE PublishArtifact
  <2>1. artifacts' \in SUBSET Tasks
    BY <1>5 DEF PublishArtifact
  <2>2. exec' \in [Tasks -> {"idle"} \cup Unsettled \cup OutputStatuses]
    BY <1>5 DEF PublishArtifact
  <2>3. at' \in Points /\ outcome' \in Outcomes /\ aborted' \in BOOLEAN
    BY <1>5 DEF PublishArtifact
  <2> QED
    BY <1>5, <2>1, <2>2, <2>3 DEF PublishArtifact
<1>6. CASE PublishOutput
  <2>1. output' \in [Tasks -> OutputStatuses \cup {"none"}]
    BY <1>6 DEF PublishOutput, CanPublish
  <2>2. claims' \in SUBSET Tasks
    BY <1>6 DEF PublishOutput
  <2>3. exec' \in [Tasks -> {"idle"} \cup Unsettled \cup OutputStatuses]
    BY <1>6 DEF PublishOutput
  <2>4. at' \in Points /\ outcome' \in Outcomes /\ aborted' \in BOOLEAN
    BY <1>6 DEF PublishOutput
  <2> QED
    BY <1>6, <2>1, <2>2, <2>3, <2>4 DEF PublishOutput
<1>7. CASE PersistState
  <2>1. disk' \in GraphStates
    BY <1>7 DEF PersistState
  <2>2. exec' \in [Tasks -> {"idle"} \cup Unsettled \cup OutputStatuses]
    BY <1>7 DEF PersistState
  <2>3. at' \in Points /\ outcome' \in Outcomes /\ aborted' \in BOOLEAN
    BY <1>7 DEF PersistState
  <2> QED
    BY <1>7, <2>1, <2>2, <2>3 DEF PersistState
<1>8. CASE Complete
  <2>1. memory' \in GraphStates
    BY <1>8 DEF Complete
  <2>2. exec' \in [Tasks -> {"idle"} \cup Unsettled \cup OutputStatuses]
    BY <1>8 DEF Complete
  <2>3. at' \in Points /\ outcome' \in Outcomes /\ aborted' \in BOOLEAN
    BY <1>8 DEF Complete
  <2>4. batch' \in SUBSET Tasks /\ hand' \in Tasks \cup {NoTask}
    BY <1>8 DEF Complete, Doomed, Pending
  <2> QED
    BY <1>8, <2>1, <2>2, <2>3, <2>4 DEF Complete
<1>9. CASE FinishSettling
  <2>1. memory' \in GraphStates
    BY <1>9, SettleBlockedType DEF FinishSettling, Settled
  <2>2. exec' \in [Tasks -> {"idle"} \cup Unsettled \cup OutputStatuses]
    BY <1>9 DEF FinishSettling
  <2>3. at' \in {"loop", "report", "abort", "failing"} /\ outcome' \in Outcomes /\ aborted' \in
         BOOLEAN
    BY <1>9 DEF FinishSettling, AfterSettling
  <2>4. batch' \in SUBSET Tasks
    BY <1>9 DEF FinishSettling, ReadyFrontier
  <2> QED
    BY <1>9, <2>1, <2>2, <2>3, <2>4 DEF FinishSettling
<1>10. CASE Report
  BY <1>10 DEF Report, Aggregate
<1>11. CASE StoreRefuses
  BY <1>11 DEF StoreRefuses
<1>12. CASE AwaitExecutions
  BY <1>12 DEF AwaitExecutions
<1>13. CASE Release
  <2>1. /\ outcome' = outcome \/ outcome' = "refused"
        /\ at' = "ended"
        /\ UNCHANGED <<disk, output, artifacts, claims, memory, exec, aborted, mode, batch, hand,
                       verdict>>
    BY <1>13 DEF Release
  <2>2. outcome' \in Outcomes
    BY <2>1
  <2>3. owned' \in BOOLEAN
    BY <1>13 DEF Release
  <2> QED
    BY <2>1, <2>2, <2>3
<1>14. ASSUME NEW t \in Tasks, TakeReady(t)
      PROVE  (TypeOK /\ InHand)'
  <2>1. batch' \in SUBSET Tasks /\ hand' \in Tasks \cup {NoTask}
    BY <1>14 DEF TakeReady
  <2>2. exec' \in [Tasks -> {"idle"} \cup Unsettled \cup OutputStatuses]
    BY <1>14 DEF TakeReady
  <2>3. at' \in Points \ {"publish", "publishOutput"} /\ outcome' \in Outcomes /\ aborted' \in
         BOOLEAN
    BY <1>14 DEF TakeReady
  <2> QED
    BY <1>14, <2>1, <2>2, <2>3 DEF TakeReady
<1>15. ASSUME NEW t \in Tasks, Reap(t)
      PROVE  (TypeOK /\ InHand)'
  BY <1>15 DEF Reap
<1>16. ASSUME NEW t \in Tasks, WriteBlocked(t)
      PROVE  (TypeOK /\ InHand)'
  <2>1. disk' \in GraphStates
    BY <1>16 DEF WriteBlocked
  <2>2. exec' \in [Tasks -> {"idle"} \cup Unsettled \cup OutputStatuses]
    BY <1>16 DEF WriteBlocked
  <2>3. at' \in Points \ {"publish", "publishOutput"} /\ outcome' \in Outcomes /\ aborted' \in
         BOOLEAN
    BY <1>16 DEF WriteBlocked
  <2> QED
    BY <1>16, <2>1, <2>2, <2>3 DEF WriteBlocked
<1>17. ASSUME NEW t \in Tasks, AbortReady(t)
      PROVE  (TypeOK /\ InHand)'
  BY <1>17 DEF AbortReady
<1>18. ASSUME NEW t \in Tasks, Answer(t)
      PROVE  (TypeOK /\ InHand)'
  BY <1>18 DEF Answer, SetExec
<1>19. ASSUME NEW t \in Tasks, TimeOut(t)
      PROVE  (TypeOK /\ InHand)'
  BY <1>19 DEF TimeOut, SetExec
<1>20. ASSUME NEW t \in Tasks, CleanUp(t)
      PROVE  (TypeOK /\ InHand)'
  BY <1>20 DEF CleanUp, SetExec
<1>21. CASE UserAbort
  BY <1>21 DEF UserAbort
<1>22. CASE ForceRelease
  <2>1. owned' \in BOOLEAN
    BY <1>22, Zenon DEF ForceRelease
  <2> QED
    BY <1>22, <2>1 DEF ForceRelease
<1>23. CASE Crash
  BY <1>23 DEF Crash
<1>24. CASE UNCHANGED vars
  BY <1>24 DEF vars
<1> QED
  BY <1>1, <1>2, <1>3, <1>4, <1>5, <1>6, <1>7, <1>8, <1>9, <1>10, <1>11, <1>12, <1>13, <1>14,
     <1>15, <1>16, <1>17, <1>18, <1>19, <1>20, <1>21, <1>22, <1>23, <1>24
     DEF Next, Scheduler

(* Types of the scheduler and of its records, for every graph.              *)
THEOREM TypeCorrect == Spec => []TypeOK
<1>1. Init => TypeOK /\ InHand
  BY ConcurrencyAssumption
     DEF Init, TypeOK, InHand, CreateInitialState, GraphStates, Statuses, Points, Outcomes
<1> QED
  BY <1>1, TypeStep, PTL DEF Spec

(* RunGraph implements NodeLifecycle: whatever is answered, refused,        *)
(* aborted, taken over or killed, a step changes at most one node-state     *)
(* record, and as the lifecycle of its task allows.                         *)
THEOREM ImplementsLifecycle == Spec => RecordsFollowLifecycle
<1>1. Init => Lifecycle!Init
  BY DEF Init, Lifecycle!Init, CreateInitialState, Lifecycle!CreateInitialState
<1>2. TypeOK /\ [Next]_vars => [Lifecycle!Next]_disk
  <2> SUFFICES ASSUME TypeOK, [Next]_vars, disk' # disk
               PROVE  Lifecycle!Next
    OBVIOUS
  <2>1. CASE WriteRunning
    <3>1. /\ hand \in Tasks /\ MaySetStatus(disk, hand, "running")
          /\ disk' = [disk EXCEPT ![hand] = "running"]
      BY <2>1 DEF WriteRunning, SetNodeStatus, TypeOK, GraphStates
    <3>2. disk[hand] = "pending"
      BY <3>1 DEF MaySetStatus, AllowedTransitions, TypeOK, GraphStates
    <3>3. Lifecycle!Start(hand)
      BY <3>1, <3>2 DEF Lifecycle!Start, MaySetStatus, NeedsSucceeded, Lifecycle!NeedsSucceeded
    <3> QED
      BY <3>1, <3>3 DEF Lifecycle!Next
  <2>2. CASE PersistState
    <3>1. /\ hand \in Tasks /\ MaySetStatus(disk, hand, verdict) /\ disk[hand] # verdict
          /\ disk' = [disk EXCEPT ![hand] = verdict]
      BY <2>2 DEF PersistState, SetNodeStatus, TypeOK, GraphStates
    <3>2. verdict \in AllowedTransitions[disk[hand]]
      BY <3>1 DEF MaySetStatus
    <3>3. disk[hand] \in Statuses
      BY <3>1 DEF TypeOK, GraphStates
    <3>4. verdict \in {"running", "succeeded", "failed", "aborted"}
      BY <3>2, <3>3 DEF AllowedTransitions
    <3>5. CASE verdict = "running"
      <4>1. disk[hand] = "pending"
        BY <3>2, <3>3, <3>5 DEF AllowedTransitions
      <4> QED
        BY <3>1, <3>5, <4>1 DEF MaySetStatus, NeedsSucceeded, Lifecycle!NeedsSucceeded,
           Lifecycle!Next, Lifecycle!Start
    <3>6. CASE verdict # "running"
      <4>1. Lifecycle!AllowedTransitions = AllowedTransitions
        BY DEF AllowedTransitions, Lifecycle!AllowedTransitions, Statuses, Lifecycle!Statuses,
               Terminal, Lifecycle!Terminal
      <4>2. Lifecycle!Settle(hand, verdict)
        BY <3>1, <3>2, <3>6, <4>1 DEF Lifecycle!Settle
      <4> QED
        BY <3>1, <3>4, <3>6, <4>2 DEF Lifecycle!Next
    <3> QED
      BY <3>5, <3>6
  <2>3. ASSUME NEW t \in Tasks, WriteBlocked(t)
        PROVE  Lifecycle!Next
    <3>1. t \in Doomed(disk) /\ disk' = [disk EXCEPT ![t] = "blocked"]
      BY <2>3 DEF WriteBlocked, SetNodeStatus
    <3>2. Lifecycle!Doomed(disk) = Doomed(disk)
      BY DEF Doomed, Lifecycle!Doomed, Pending, Lifecycle!Pending, Absorbs, Lifecycle!Absorbs,
             HasBlockingNeed, Lifecycle!HasBlockingNeed, Blocking, Lifecycle!Blocking
    <3> QED
      BY <3>1, <3>2 DEF Lifecycle!Next, Lifecycle!Block
  <2>4. WriteRunning \/ PersistState \/ \E t \in Tasks : WriteBlocked(t)
    BY DEF Next, Scheduler, vars, store, Schedule, Launch, LeaveBatch, PublishArtifact,
           PublishOutput, Complete, FinishSettling, Report, StoreRefuses, AwaitExecutions,
           Release, TakeReady, Reap, AbortReady, Answer, TimeOut, CleanUp, SetExec, UserAbort,
           ForceRelease, Crash
  <2> QED
    BY <2>1, <2>2, <2>3, <2>4
<1> QED
  BY <1>1, <1>2, TypeCorrect, PTL DEF Spec, RecordsFollowLifecycle, Lifecycle!Spec

(* A run begins with nothing picked, nothing executing, nothing stored.     *)
LEMMA InitHolds == Init => IInv
<1> SUFFICES ASSUME Init PROVE IInv
  OBVIOUS
<1> USE DEF Init, Active, Completing, Over
<1>1. TypeOK
  BY ConcurrencyAssumption
     DEF TypeOK, CreateInitialState, GraphStates, Statuses, Points, Outcomes
<1>2. WorkIsReady /\ ModeHonest /\ RunningExecutes
  BY DEF WorkIsReady, ModeHonest, RunningExecutes, CreateInitialState
<1>3. VerdictTrue /\ OutputsFresh /\ OutcomeAtEnd
  BY DEF VerdictTrue, OutputsFresh, OutcomeAtEnd, CreateInitialState
<1>4. MemoryTracksDisk /\ OutputBacksState /\ StartsOnDurableInputs
  BY DEF MemoryTracksDisk, OutputBacksState, StartsOnDurableInputs, CreateInitialState,
         OutputStatuses, Unsettled
<1>5. NeverMisschedules /\ ResultIsTrue /\ ReleaseWaitsForExecutions
  BY DEF NeverMisschedules, ResultIsTrue, ReleaseWaitsForExecutions, OutputStatuses
<1> QED
  BY <1>1, <1>2, <1>3, <1>4, <1>5 DEF IInv

(* Picking nothing means that there is nothing to pick, unless something    *)
(* still executes or the run is aborted.                                    *)
LEMMA ScheduleKeeps ==
  ASSUME IInv, Schedule, TypeOK'
  PROVE  IInv'
<1> USE DEF Schedule, store, IInv, Over, Completing, Active
<1>1. at' = "batch" => batch' # {} \/ Active # {} \/ aborted \/ ReadyFrontier(memory) = {}
  BY FS_EmptySet, ConcurrencyAssumption DEF Available
<1>2. at' = "report" => Active = {} /\ IsGraphComplete(memory)
  BY DEF RunningExecutes, IsGraphComplete, Terminal, ModeHonest, TypeOK
<1>3. mode = "run" /\ batch = {} /\ batch' \subseteq ReadyFrontier(memory) \ {hand}
  BY ConcurrencyAssumption DEF ModeHonest, WorkIsReady, ReadyFrontier
<1>4. batch' \in SUBSET Tasks
  BY <1>3 DEF ReadyFrontier
<1>5. WorkIsReady' /\ ModeHonest'
  BY <1>1, <1>2, <1>3, <1>4 DEF WorkIsReady, ModeHonest, TypeOK, GraphStates
<1>6. RunningExecutes'
  BY <1>1, <1>2, <1>3, <1>4 DEF RunningExecutes, TypeOK, GraphStates
<1>7. VerdictTrue' /\ OutputsFresh' /\ OutcomeAtEnd'
  BY <1>1, <1>2, <1>3, <1>4
     DEF VerdictTrue, OutputsFresh, OutcomeAtEnd, TypeOK, GraphStates, OutputStatuses
<1>8. MemoryTracksDisk'
  BY <1>1, <1>2, <1>3, <1>4 DEF MemoryTracksDisk, TypeOK, GraphStates, SetNodeStatus
<1>9. OutputBacksState'
  BY <1>1, <1>2, <1>3, <1>4 DEF OutputBacksState, TypeOK, GraphStates, OutputStatuses
<1>10. StartsOnDurableInputs'
  BY <1>1, <1>2, <1>3, <1>4 DEF StartsOnDurableInputs, Unsettled, TypeOK, GraphStates
<1>11. NeverMisschedules' /\ ResultIsTrue' /\ ReleaseWaitsForExecutions'
  BY <1>1, <1>2, <1>3, <1>4
     DEF NeverMisschedules, ResultIsTrue, ReleaseWaitsForExecutions, OutcomeAtEnd,
         OutputStatuses
<1> QED
  BY <1>5, <1>6, <1>7, <1>8, <1>9, <1>10, <1>11

(* What was picked can be read: its prerequisites and their outputs are     *)
(* there.                                                                   *)
LEMMA TakeReadyKeeps ==
  ASSUME IInv, NEW t \in Tasks, TakeReady(t), TypeOK'
  PROVE  IInv'
<1> USE DEF TakeReady, store, IInv, Over, Completing, Active
<1>1. t \in ReadyFrontier(memory) /\ memory = disk /\ Needs[t] \in SUBSET Tasks
  BY GraphAssumption DEF WorkIsReady, MemoryTracksDisk
<1>2. \A d \in Needs[t] : PrerequisiteReadable(d)
  BY <1>1 DEF ReadyFrontier, NeedsSucceeded, PrerequisiteReadable, OutputBacksState,
              OutputStatuses, Blocking
<1>3. /\ at' = "start" /\ batch' = batch \ {t} /\ hand' = t
      /\ UNCHANGED <<store, memory, exec, aborted, mode, verdict, outcome>>
  BY <1>2
<1>4. WorkIsReady' /\ ModeHonest'
  BY <1>1, <1>2, <1>3 DEF WorkIsReady, ModeHonest, TypeOK, GraphStates
<1>5. RunningExecutes'
  BY <1>1, <1>2, <1>3 DEF RunningExecutes, TypeOK, GraphStates
<1>6. VerdictTrue' /\ OutputsFresh' /\ OutcomeAtEnd'
  BY <1>1, <1>2, <1>3
     DEF VerdictTrue, OutputsFresh, OutcomeAtEnd, TypeOK, GraphStates, OutputStatuses
<1>7. MemoryTracksDisk'
  BY <1>1, <1>2, <1>3 DEF MemoryTracksDisk, TypeOK, GraphStates, SetNodeStatus
<1>8. OutputBacksState'
  BY <1>1, <1>2, <1>3 DEF OutputBacksState, TypeOK, GraphStates, OutputStatuses
<1>9. StartsOnDurableInputs'
  BY <1>1, <1>2, <1>3 DEF StartsOnDurableInputs, Unsettled, TypeOK, GraphStates
<1>10. NeverMisschedules' /\ ResultIsTrue' /\ ReleaseWaitsForExecutions'
  BY <1>1, <1>2, <1>3
     DEF NeverMisschedules, ResultIsTrue, ReleaseWaitsForExecutions, OutcomeAtEnd,
         OutputStatuses
<1> QED
  BY <1>4, <1>5, <1>6, <1>7, <1>8, <1>9, <1>10

(* The store accepts the start of a task the scheduler found ready.         *)
LEMMA WriteRunningKeeps ==
  ASSUME IInv, WriteRunning, TypeOK'
  PROVE  IInv'
<1> USE DEF WriteRunning, IInv, Over, Completing, Active
<1>1. /\ hand \in Tasks /\ memory = disk /\ memory[hand] = "pending"
      /\ NeedsSucceeded(memory, hand)
  BY DEF WorkIsReady, MemoryTracksDisk, ReadyFrontier
<1>2. /\ disk' = [disk EXCEPT ![hand] = "running"] /\ at' = "launch"
      /\ UNCHANGED <<memory, exec, aborted, mode, batch, hand, verdict, outcome, output,
                     artifacts, claims, owned>>
  BY <1>1 DEF MaySetStatus, SetNodeStatus, AllowedTransitions, Statuses
<1>3. WorkIsReady' /\ ModeHonest'
  BY <1>1, <1>2 DEF WorkIsReady, ModeHonest, TypeOK, GraphStates
<1>4. RunningExecutes'
  BY <1>1, <1>2 DEF RunningExecutes, TypeOK, GraphStates
<1>5. VerdictTrue' /\ OutputsFresh' /\ OutcomeAtEnd'
  BY <1>1, <1>2 DEF VerdictTrue, OutputsFresh, OutcomeAtEnd, TypeOK, GraphStates, OutputStatuses
<1>6. MemoryTracksDisk'
  BY <1>1, <1>2 DEF MemoryTracksDisk, TypeOK, GraphStates, SetNodeStatus
<1>7. OutputBacksState'
  BY <1>1, <1>2 DEF OutputBacksState, TypeOK, GraphStates, OutputStatuses, OutputsFresh
<1>8. StartsOnDurableInputs'
  BY <1>1, <1>2, GraphAssumption DEF StartsOnDurableInputs, Unsettled, TypeOK, GraphStates
<1>9. NeverMisschedules' /\ ResultIsTrue' /\ ReleaseWaitsForExecutions'
  BY <1>1, <1>2
     DEF NeverMisschedules, ResultIsTrue, ReleaseWaitsForExecutions, OutcomeAtEnd,
         OutputStatuses
<1> QED
  BY <1>3, <1>4, <1>5, <1>6, <1>7, <1>8, <1>9

(* The prerequisites of a task that starts are settled for good: starting   *)
(* it leaves the other picked tasks ready.                                  *)
LEMMA LaunchKeeps ==
  ASSUME IInv, Launch, TypeOK'
  PROVE  IInv'
<1> USE DEF Launch, store, IInv, Over, Completing, Active
<1>1. /\ hand \in Tasks /\ memory[hand] = "pending" /\ NeedsSucceeded(memory, hand)
      /\ disk = [memory EXCEPT ![hand] = "running"]
  BY DEF WorkIsReady, MemoryTracksDisk, ReadyFrontier, SetNodeStatus
<1>2. PICK e \in Launched :
        /\ exec' = [exec EXCEPT ![hand] = e]
        /\ memory' = disk
        /\ at' = "batch" /\ hand' = NoTask
        /\ UNCHANGED <<store, aborted, mode, batch, verdict, outcome>>
  BY <1>1 DEF MaySetStatus, SetNodeStatus, AllowedTransitions, Statuses
<1>3. e \in {"executing", "failed", "aborted"} /\ (e = "aborted" => aborted)
  BY DEF Launched
<1>4. exec'[hand] # "idle" /\ Needs \in [Tasks -> SUBSET Tasks]
  BY <1>1, <1>2, <1>3, GraphAssumption DEF TypeOK
<1>5. batch' \subseteq ReadyFrontier(memory') \ {hand'}
  BY <1>1, <1>2, <1>4, ConcurrencyAssumption
     DEF WorkIsReady, ReadyFrontier, NeedsSucceeded, TypeOK, GraphStates
<1>6. \A d \in Needs[hand] : disk[d] = "succeeded" /\ output[d] = "succeeded"
  <2>1. \A d \in Needs[hand] : d \in Tasks /\ disk[d] = "succeeded"
    BY <1>1, <1>4 DEF NeedsSucceeded, TypeOK, GraphStates
  <2> QED
    BY <2>1 DEF OutputBacksState, OutputStatuses
<1>7. WorkIsReady' /\ ModeHonest'
  BY <1>1, <1>2, <1>3, <1>4, <1>5, <1>6 DEF WorkIsReady, ModeHonest, TypeOK, GraphStates
<1>8. RunningExecutes'
  BY <1>1, <1>2, <1>3, <1>4, <1>5, <1>6 DEF RunningExecutes, TypeOK, GraphStates
<1>9. VerdictTrue' /\ OutputsFresh' /\ OutcomeAtEnd'
  BY <1>1, <1>2, <1>3, <1>4, <1>5, <1>6
     DEF VerdictTrue, OutputsFresh, OutcomeAtEnd, TypeOK, GraphStates, OutputStatuses
<1>10. MemoryTracksDisk'
  BY <1>1, <1>2, <1>3, <1>4, <1>5, <1>6 DEF MemoryTracksDisk, TypeOK, GraphStates, SetNodeStatus
<1>11. OutputBacksState'
  BY <1>1, <1>2, <1>3, <1>4, <1>5, <1>6
     DEF OutputBacksState, TypeOK, GraphStates, OutputStatuses
<1>12. StartsOnDurableInputs'
  BY <1>1, <1>2, <1>3, <1>4, <1>5, <1>6
     DEF StartsOnDurableInputs, Unsettled, TypeOK, GraphStates
<1>13. NeverMisschedules' /\ ResultIsTrue' /\ ReleaseWaitsForExecutions'
  BY <1>1, <1>2, <1>3, <1>4, <1>5, <1>6
     DEF NeverMisschedules, ResultIsTrue, ReleaseWaitsForExecutions, OutcomeAtEnd,
         OutputStatuses
<1> QED
  BY <1>7, <1>8, <1>9, <1>10, <1>11, <1>12, <1>13

(* The loop leaves a graph with nothing running only when it can start      *)
(* nothing, or must not.                                                    *)
LEMMA LeaveBatchKeeps ==
  ASSUME IInv, LeaveBatch, TypeOK'
  PROVE  IInv'
<1> USE DEF LeaveBatch, store, IInv, Over, Completing, Active
<1>1. memory = disk /\ mode = "run" /\ Doomed(memory) \in SUBSET Tasks
  BY DEF MemoryTracksDisk, ModeHonest, Doomed, Pending
<1>2. WorkIsReady' /\ ModeHonest'
  BY <1>1 DEF WorkIsReady, ModeHonest, TypeOK, GraphStates
<1>3. RunningExecutes'
  BY <1>1 DEF RunningExecutes, TypeOK, GraphStates
<1>4. VerdictTrue' /\ OutputsFresh' /\ OutcomeAtEnd'
  BY <1>1 DEF VerdictTrue, OutputsFresh, OutcomeAtEnd, TypeOK, GraphStates, OutputStatuses
<1>5. MemoryTracksDisk'
  BY <1>1 DEF MemoryTracksDisk, TypeOK, GraphStates, SetNodeStatus, Settled
<1>6. OutputBacksState'
  BY <1>1 DEF OutputBacksState, TypeOK, GraphStates, OutputStatuses
<1>7. StartsOnDurableInputs'
  BY <1>1 DEF StartsOnDurableInputs, Unsettled, TypeOK, GraphStates
<1>8. NeverMisschedules' /\ ResultIsTrue' /\ ReleaseWaitsForExecutions'
  BY <1>1
     DEF NeverMisschedules, ResultIsTrue, ReleaseWaitsForExecutions, OutcomeAtEnd,
         OutputStatuses
<1> QED
  BY <1>2, <1>3, <1>4, <1>5, <1>6, <1>7, <1>8

(* A task taken from the executions is still recorded as running.           *)
LEMMA ReapKeeps ==
  ASSUME IInv, NEW t \in Tasks, Reap(t), TypeOK'
  PROVE  IInv'
<1> USE DEF Reap, store, IInv, Over, Completing, Active, OutputStatuses
<1>1. batch = {} /\ mode = "run" /\ memory = disk /\ disk[t] = "running" /\ exec'[t] = "idle"
  BY DEF WorkIsReady, ModeHonest, MemoryTracksDisk, RunningExecutes, TypeOK
<1>2. WorkIsReady' /\ ModeHonest'
  BY <1>1 DEF WorkIsReady, ModeHonest, TypeOK, GraphStates
<1>3. RunningExecutes'
  BY <1>1 DEF RunningExecutes, TypeOK, GraphStates
<1>4. VerdictTrue' /\ OutputsFresh' /\ OutcomeAtEnd'
  BY <1>1 DEF VerdictTrue, OutputsFresh, OutcomeAtEnd, TypeOK, GraphStates, OutputStatuses
<1>5. MemoryTracksDisk'
  BY <1>1 DEF MemoryTracksDisk, TypeOK, GraphStates, SetNodeStatus
<1>6. OutputBacksState'
  BY <1>1 DEF OutputBacksState, TypeOK, GraphStates, OutputStatuses
<1>7. StartsOnDurableInputs'
  BY <1>1 DEF StartsOnDurableInputs, Unsettled, TypeOK, GraphStates
<1>8. NeverMisschedules' /\ ResultIsTrue' /\ ReleaseWaitsForExecutions'
  BY <1>1
     DEF NeverMisschedules, ResultIsTrue, ReleaseWaitsForExecutions, OutcomeAtEnd,
         OutputStatuses
<1> QED
  BY <1>2, <1>3, <1>4, <1>5, <1>6, <1>7, <1>8

(* The artifact of a task is created once.                                  *)
LEMMA PublishArtifactKeeps ==
  ASSUME IInv, PublishArtifact, TypeOK'
  PROVE  IInv'
<1> USE DEF PublishArtifact, IInv, Over, Completing, Active
<1>1. /\ hand \in Tasks /\ memory = disk /\ exec[hand] = "idle"
      /\ disk[hand] = IF mode = "run" THEN "running" ELSE "pending"
      /\ verdict \in OutputStatuses /\ (mode # "run" => verdict = "aborted")
  BY DEF WorkIsReady, ModeHonest, MemoryTracksDisk, RunningExecutes, VerdictTrue, ReadyFrontier,
         TypeOK
<1>2. output[hand] = "none"
  BY <1>1 DEF OutputsFresh, OutputStatuses, TypeOK
<1>3. /\ artifacts' = artifacts \cup {hand} /\ at' = "publishOutput"
      /\ UNCHANGED <<disk, output, claims, owned, memory, exec, aborted, mode, batch, hand,
                     verdict, outcome>>
  BY <1>2 DEF OutputsFresh
<1>4. WorkIsReady' /\ ModeHonest'
  BY <1>1, <1>2, <1>3 DEF WorkIsReady, ModeHonest, TypeOK, GraphStates
<1>5. RunningExecutes'
  BY <1>1, <1>2, <1>3 DEF RunningExecutes, TypeOK, GraphStates
<1>6. VerdictTrue' /\ OutputsFresh' /\ OutcomeAtEnd'
  BY <1>1, <1>2, <1>3
     DEF VerdictTrue, OutputsFresh, OutcomeAtEnd, TypeOK, GraphStates, OutputStatuses
<1>7. MemoryTracksDisk'
  BY <1>1, <1>2, <1>3 DEF MemoryTracksDisk, TypeOK, GraphStates, SetNodeStatus
<1>8. OutputBacksState'
  BY <1>1, <1>2, <1>3 DEF OutputBacksState, TypeOK, GraphStates, OutputStatuses
<1>9. StartsOnDurableInputs'
  BY <1>1, <1>2, <1>3 DEF StartsOnDurableInputs, Unsettled, TypeOK, GraphStates
<1>10. NeverMisschedules' /\ ResultIsTrue' /\ ReleaseWaitsForExecutions'
  BY <1>1, <1>2, <1>3
     DEF NeverMisschedules, ResultIsTrue, ReleaseWaitsForExecutions, OutcomeAtEnd,
         OutputStatuses
<1> QED
  BY <1>4, <1>5, <1>6, <1>7, <1>8, <1>9, <1>10

(* The output of a task is created once, while its record lets it be.       *)
LEMMA PublishOutputKeeps ==
  ASSUME IInv, PublishOutput, TypeOK'
  PROVE  IInv'
<1> USE DEF PublishOutput, IInv, Over, Completing, Active
<1>1. /\ hand \in Tasks /\ memory = disk /\ exec[hand] = "idle"
      /\ disk[hand] = IF mode = "run" THEN "running" ELSE "pending"
      /\ verdict \in OutputStatuses /\ (mode # "run" => verdict = "aborted")
  BY DEF WorkIsReady, ModeHonest, MemoryTracksDisk, RunningExecutes, VerdictTrue, ReadyFrontier,
         TypeOK
<1>2. output[hand] = "none"
  BY <1>1 DEF OutputsFresh, OutputStatuses, TypeOK
<1>3. CanPublish(hand, verdict)
  BY <1>1 DEF CanPublish, OutputStatuses
<1>4. /\ output' = [output EXCEPT ![hand] = verdict] /\ at' = "persist"
      /\ UNCHANGED <<disk, artifacts, owned, memory, exec, aborted, mode, batch, hand, verdict,
                     outcome>>
      /\ claims' \subseteq artifacts /\ claims \subseteq claims'
  BY <1>2, <1>3 DEF OutputsFresh, OutputBacksState
<1>5. WorkIsReady' /\ ModeHonest'
  BY <1>1, <1>2, <1>3, <1>4 DEF WorkIsReady, ModeHonest, TypeOK, GraphStates
<1>6. RunningExecutes'
  BY <1>1, <1>2, <1>3, <1>4 DEF RunningExecutes, TypeOK, GraphStates
<1>7. VerdictTrue' /\ OutputsFresh' /\ OutcomeAtEnd'
  BY <1>1, <1>2, <1>3, <1>4
     DEF VerdictTrue, OutputsFresh, OutcomeAtEnd, TypeOK, GraphStates, OutputStatuses
<1>8. MemoryTracksDisk'
  BY <1>1, <1>2, <1>3, <1>4 DEF MemoryTracksDisk, TypeOK, GraphStates, SetNodeStatus
<1>9. OutputBacksState'
  BY <1>1, <1>2, <1>3, <1>4 DEF OutputBacksState, TypeOK, GraphStates, OutputStatuses
<1>10. StartsOnDurableInputs'
  BY <1>1, <1>2, <1>3, <1>4, GraphAssumption
     DEF StartsOnDurableInputs, Unsettled, TypeOK, GraphStates
<1>11. NeverMisschedules' /\ ResultIsTrue' /\ ReleaseWaitsForExecutions'
  BY <1>1, <1>2, <1>3, <1>4
     DEF NeverMisschedules, ResultIsTrue, ReleaseWaitsForExecutions, OutcomeAtEnd,
         OutputStatuses
<1> QED
  BY <1>5, <1>6, <1>7, <1>8, <1>9, <1>10, <1>11

(* The store accepts the status its output record already claims.           *)
LEMMA PersistStateKeeps ==
  ASSUME IInv, PersistState, TypeOK'
  PROVE  IInv'
<1> USE DEF PersistState, IInv, Over, Completing, Active
<1>1. /\ hand \in Tasks /\ memory = disk /\ exec[hand] = "idle"
      /\ disk[hand] = IF mode = "run" THEN "running" ELSE "pending"
      /\ verdict \in OutputStatuses /\ (mode # "run" => verdict = "aborted")
  BY DEF WorkIsReady, ModeHonest, MemoryTracksDisk, RunningExecutes, VerdictTrue, ReadyFrontier,
         TypeOK
<1>2. output[hand] = verdict /\ MaySetStatus(disk, hand, verdict)
  BY <1>1 DEF OutputsFresh, MaySetStatus, AllowedTransitions, Statuses, OutputStatuses
<1>3. /\ disk' = [disk EXCEPT ![hand] = verdict] /\ at' = "complete"
      /\ UNCHANGED <<output, artifacts, claims, owned, memory, exec, aborted, mode, batch, hand,
                     verdict, outcome>>
  BY <1>2 DEF SetNodeStatus
<1>4. WorkIsReady' /\ ModeHonest'
  BY <1>1, <1>2, <1>3 DEF WorkIsReady, ModeHonest, TypeOK, GraphStates
<1>5. RunningExecutes'
  BY <1>1, <1>2, <1>3 DEF RunningExecutes, TypeOK, GraphStates
<1>6. VerdictTrue' /\ OutputsFresh' /\ OutcomeAtEnd'
  BY <1>1, <1>2, <1>3
     DEF VerdictTrue, OutputsFresh, OutcomeAtEnd, TypeOK, GraphStates, OutputStatuses
<1>7. MemoryTracksDisk'
  BY <1>1, <1>2, <1>3 DEF MemoryTracksDisk, TypeOK, GraphStates, SetNodeStatus
<1>8. OutputBacksState'
  BY <1>1, <1>2, <1>3 DEF OutputBacksState, TypeOK, GraphStates, OutputStatuses, OutputsFresh
<1>9. StartsOnDurableInputs'
  BY <1>1, <1>2, <1>3, GraphAssumption DEF StartsOnDurableInputs, Unsettled, TypeOK, GraphStates
<1>10. NeverMisschedules' /\ ResultIsTrue' /\ ReleaseWaitsForExecutions'
  BY <1>1, <1>2, <1>3
     DEF NeverMisschedules, ResultIsTrue, ReleaseWaitsForExecutions, OutcomeAtEnd,
         OutputStatuses
<1> QED
  BY <1>4, <1>5, <1>6, <1>7, <1>8, <1>9, <1>10

(* The scheduler's states catch up with the record; the rest of a frontier  *)
(* being aborted stays ready.                                               *)
LEMMA CompleteKeeps ==
  ASSUME IInv, Complete, TypeOK'
  PROVE  IInv'
<1> USE DEF Complete, store, IInv, Over, Completing, Active
<1>1. /\ hand \in Tasks /\ exec[hand] = "idle"
      /\ memory[hand] = IF mode = "run" THEN "running" ELSE "pending"
      /\ verdict \in OutputStatuses /\ (mode # "run" => verdict = "aborted")
      /\ disk = [memory EXCEPT ![hand] = verdict]
  BY DEF WorkIsReady, ModeHonest, MemoryTracksDisk, RunningExecutes, VerdictTrue, ReadyFrontier,
         TypeOK, SetNodeStatus
<1>2. MaySetStatus(memory, hand, verdict)
  BY <1>1 DEF MaySetStatus, AllowedTransitions, Statuses, OutputStatuses
<1>3. /\ memory' = disk /\ hand' = NoTask
      /\ IF batch = {}
         THEN at' = "settle" /\ batch' = Doomed(disk)
         ELSE at' = "abort" /\ UNCHANGED batch
      /\ UNCHANGED <<disk, output, artifacts, claims, owned, exec, aborted, mode, verdict,
             outcome>>
  BY <1>1, <1>2 DEF SetNodeStatus
<1>4. Doomed(disk) \in SUBSET Tasks /\ Needs \in [Tasks -> SUBSET Tasks]
  BY GraphAssumption DEF Doomed, Pending
<1>5. at' # "settle" => batch' \subseteq ReadyFrontier(memory') \ {hand'}
  BY <1>1, <1>3, <1>4, ConcurrencyAssumption
     DEF WorkIsReady, ModeHonest, ReadyFrontier, NeedsSucceeded, TypeOK, GraphStates
<1>6. batch' \in SUBSET Tasks /\ at' \in {"settle", "abort"}
  BY <1>3, <1>4 DEF TypeOK
<1>7. WorkIsReady' /\ ModeHonest'
  BY <1>1, <1>2, <1>3, <1>4, <1>5, <1>6 DEF WorkIsReady, ModeHonest, TypeOK, GraphStates
<1>8. RunningExecutes'
  BY <1>1, <1>2, <1>3, <1>4, <1>5, <1>6
     DEF RunningExecutes, TypeOK, GraphStates, OutputStatuses, ModeHonest
<1>9. VerdictTrue' /\ OutputsFresh' /\ OutcomeAtEnd'
  BY <1>1, <1>2, <1>3, <1>4, <1>5, <1>6
     DEF VerdictTrue, OutputsFresh, OutcomeAtEnd, TypeOK, GraphStates, OutputStatuses
<1>10. MemoryTracksDisk'
  BY <1>1, <1>2, <1>3, <1>4, <1>5, <1>6
     DEF MemoryTracksDisk, TypeOK, GraphStates, SetNodeStatus, Settled
<1>11. OutputBacksState'
  BY <1>1, <1>2, <1>3, <1>4, <1>5, <1>6
     DEF OutputBacksState, TypeOK, GraphStates, OutputStatuses
<1>12. StartsOnDurableInputs'
  BY <1>1, <1>2, <1>3, <1>4, <1>5, <1>6
     DEF StartsOnDurableInputs, Unsettled, TypeOK, GraphStates
<1>13. NeverMisschedules' /\ ResultIsTrue' /\ ReleaseWaitsForExecutions'
  BY <1>1, <1>2, <1>3, <1>4, <1>5, <1>6
     DEF NeverMisschedules, ResultIsTrue, ReleaseWaitsForExecutions, OutcomeAtEnd,
         OutputStatuses
<1> QED
  BY <1>7, <1>8, <1>9, <1>10, <1>11, <1>12, <1>13

(* Each record of a settlement is accepted, and leaves the rest of it as it *)
(* was.                                                                     *)
LEMMA WriteBlockedKeeps ==
  ASSUME IInv, NEW t \in Tasks, WriteBlocked(t), TypeOK'
  PROVE  IInv'
<1> USE DEF WriteBlocked, IInv, Over, Completing, Active
<1>1. t \in Doomed(disk) /\ disk[t] = "pending" /\ disk \in GraphStates
  BY DEF MemoryTracksDisk, Doomed, Pending, TypeOK
<1>2. /\ disk' = [disk EXCEPT ![t] = "blocked"] /\ batch' = batch \ {t}
      /\ UNCHANGED <<memory, exec, aborted, at, mode, hand, verdict, outcome, output, artifacts,
                     claims, owned>>
  BY <1>1 DEF SetNodeStatus
<1>3. /\ Doomed(disk') = Doomed(disk) \ {t}
      /\ SettleBlocked(disk') = SettleBlocked(disk)
  BY <1>1, <1>2, BlockKeepsOthersDoomed, BlockKeepsSettlement DEF SetNodeStatus
<1>4. WorkIsReady' /\ ModeHonest'
  BY <1>1, <1>2, <1>3 DEF WorkIsReady, ModeHonest, TypeOK, GraphStates
<1>5. RunningExecutes'
  BY <1>1, <1>2, <1>3 DEF RunningExecutes, TypeOK, GraphStates
<1>6. VerdictTrue' /\ OutputsFresh' /\ OutcomeAtEnd'
  BY <1>1, <1>2, <1>3
     DEF VerdictTrue, OutputsFresh, OutcomeAtEnd, TypeOK, GraphStates, OutputStatuses
<1>7. MemoryTracksDisk'
  BY <1>1, <1>2, <1>3 DEF MemoryTracksDisk, TypeOK, GraphStates, SetNodeStatus, Settled
<1>8. OutputBacksState'
  BY <1>1, <1>2, <1>3 DEF OutputBacksState, TypeOK, GraphStates, OutputStatuses, OutputsFresh
<1>9. StartsOnDurableInputs'
  BY <1>1, <1>2, <1>3, GraphAssumption DEF StartsOnDurableInputs, Unsettled, TypeOK, GraphStates
<1>10. NeverMisschedules' /\ ResultIsTrue' /\ ReleaseWaitsForExecutions'
  BY <1>1, <1>2, <1>3
     DEF NeverMisschedules, ResultIsTrue, ReleaseWaitsForExecutions, OutcomeAtEnd,
         OutputStatuses
<1> QED
  BY <1>4, <1>5, <1>6, <1>7, <1>8, <1>9, <1>10

(* The settled state is the stored one. If nothing runs in it, it is        *)
(* complete, or, in an aborted run, has a task to abort.                    *)
LEMMA FinishSettlingKeeps ==
  ASSUME IInv, FinishSettling, TypeOK'
  PROVE  IInv'
<1> USE DEF FinishSettling, store, IInv, Over, Completing, Active
<1>1. Settled = disk /\ memory \in GraphStates
  BY NothingDoomed DEF MemoryTracksDisk, Settled, TypeOK
<1>2. \A t \in Tasks : disk[t] = "running" <=> exec[t] # "idle"
  <2>1. \A t \in Tasks : disk[t] = "running" <=> memory[t] = "running"
    BY <1>1 DEF Settled, SettleBlocked, Doomed, Pending
  <2> QED
    BY <2>1 DEF RunningExecutes
<1>3. mode # "run" /\ ~IsGraphComplete(disk) => ReadyFrontier(disk) # {}
  <2>1. mode # "run" => \A t \in Tasks : disk[t] # "running"
    BY <1>2 DEF ModeHonest
  <2> QED
    BY <1>1, <2>1, FrontierOfSettled DEF Settled
<1>4. mode = "last" => ReadyFrontier(disk) = {}
  BY <1>1, SettlingReadiesNothing DEF ModeHonest, Settled
<1>5. mode \in {"run", "last", "abort"}
  BY DEF TypeOK
<1>6. /\ memory' = disk /\ at' = AfterSettling /\ AfterSettling \in {"loop", "report", "abort"}
      /\ batch' = IF AfterSettling = "abort" THEN ReadyFrontier(disk) ELSE {}
      /\ UNCHANGED <<disk, output, artifacts, claims, owned, exec, aborted, mode, hand, verdict,
                     outcome>>
  BY <1>1, <1>3, <1>4, <1>5 DEF AfterSettling
<1>7. /\ at' = "loop" => mode = "run"
      /\ at' = "abort" => mode = "abort"
      /\ at' = "report" => mode # "run" /\ IsGraphComplete(disk)
  BY <1>1, <1>6 DEF AfterSettling
<1>8. ReadyFrontier(disk) \in SUBSET Tasks /\ NoTask \notin Tasks
  BY ConcurrencyAssumption DEF ReadyFrontier
<1>9. WorkIsReady' /\ ModeHonest'
  BY <1>1, <1>2, <1>3, <1>4, <1>5, <1>6, <1>7, <1>8
     DEF WorkIsReady, ModeHonest, TypeOK, GraphStates
<1>10. RunningExecutes'
  BY <1>1, <1>2, <1>3, <1>4, <1>5, <1>6, <1>7, <1>8 DEF RunningExecutes, TypeOK, GraphStates
<1>11. VerdictTrue' /\ OutputsFresh' /\ OutcomeAtEnd'
  BY <1>1, <1>2, <1>3, <1>4, <1>5, <1>6, <1>7, <1>8
     DEF VerdictTrue, OutputsFresh, OutcomeAtEnd, TypeOK, GraphStates, OutputStatuses
<1>12. MemoryTracksDisk'
  BY <1>1, <1>2, <1>3, <1>4, <1>5, <1>6, <1>7, <1>8
     DEF MemoryTracksDisk, TypeOK, GraphStates, SetNodeStatus
<1>13. OutputBacksState'
  BY <1>1, <1>2, <1>3, <1>4, <1>5, <1>6, <1>7, <1>8
     DEF OutputBacksState, TypeOK, GraphStates, OutputStatuses
<1>14. StartsOnDurableInputs'
  BY <1>1, <1>2, <1>3, <1>4, <1>5, <1>6, <1>7, <1>8
     DEF StartsOnDurableInputs, Unsettled, TypeOK, GraphStates
<1>15. NeverMisschedules' /\ ResultIsTrue' /\ ReleaseWaitsForExecutions'
  BY <1>1, <1>2, <1>3, <1>4, <1>5, <1>6, <1>7, <1>8
     DEF NeverMisschedules, ResultIsTrue, ReleaseWaitsForExecutions, OutcomeAtEnd,
         OutputStatuses
<1> QED
  BY <1>9, <1>10, <1>11, <1>12, <1>13, <1>14, <1>15

(* abortPending takes a ready task, which no output describes yet.          *)
LEMMA AbortReadyKeeps ==
  ASSUME IInv, NEW t \in Tasks, AbortReady(t), TypeOK'
  PROVE  IInv'
<1> USE DEF AbortReady, store, IInv, Over, Completing, Active
<1>1. t \in ReadyFrontier(memory) /\ memory = disk /\ mode = "abort" /\ aborted /\ disk[t] =
       "pending"
  BY DEF WorkIsReady, ModeHonest, MemoryTracksDisk, ReadyFrontier
<1>2. exec[t] = "idle"
  BY <1>1 DEF RunningExecutes, TypeOK
<1>3. WorkIsReady' /\ ModeHonest'
  BY <1>1, <1>2 DEF WorkIsReady, ModeHonest, TypeOK, GraphStates
<1>4. RunningExecutes'
  BY <1>1, <1>2 DEF RunningExecutes, TypeOK, GraphStates
<1>5. VerdictTrue' /\ OutputsFresh' /\ OutcomeAtEnd'
  BY <1>1, <1>2 DEF VerdictTrue, OutputsFresh, OutcomeAtEnd, TypeOK, GraphStates, OutputStatuses
<1>6. MemoryTracksDisk'
  BY <1>1, <1>2 DEF MemoryTracksDisk, TypeOK, GraphStates, SetNodeStatus
<1>7. OutputBacksState'
  BY <1>1, <1>2 DEF OutputBacksState, TypeOK, GraphStates, OutputStatuses
<1>8. StartsOnDurableInputs'
  BY <1>1, <1>2 DEF StartsOnDurableInputs, Unsettled, TypeOK, GraphStates
<1>9. NeverMisschedules' /\ ResultIsTrue' /\ ReleaseWaitsForExecutions'
  BY <1>1, <1>2
     DEF NeverMisschedules, ResultIsTrue, ReleaseWaitsForExecutions, OutcomeAtEnd,
         OutputStatuses
<1> QED
  BY <1>3, <1>4, <1>5, <1>6, <1>7, <1>8, <1>9

(* The report is read from records that are complete.                       *)
LEMMA ReportKeeps ==
  ASSUME IInv, Lifecycle!BlockedHasCause, Report, TypeOK'
  PROVE  IInv'
<1> USE DEF Report, store, IInv, Over, Completing, Active
<1>1. IsGraphComplete(disk) /\ \A t \in Tasks : exec[t] = "idle"
  BY DEF ModeHonest, MemoryTracksDisk
<1>2. outcome' \in OutputStatuses
  BY DEF Aggregate, OutputStatuses
<1>3. (\E t \in Tasks : disk[t] \in {"failed", "aborted"})
        \/ (\A t \in Tasks : disk[t] # "blocked")
  <2>1. Needs \in [Tasks -> SUBSET Tasks]
    BY GraphAssumption
  <2> SUFFICES ASSUME \A t \in Tasks : disk[t] \notin {"failed", "aborted"}
               PROVE  \A t \in Tasks : disk[t] # "blocked"
    OBVIOUS
  <2>2. \A B \in SUBSET Tasks :
          (\A t \in B : FALSE) => \A t \in Tasks : disk[t] = "blocked" => t \in B
    BY <2>1 DEF Lifecycle!BlockedHasCause
  <2>3. {} \in SUBSET Tasks
    OBVIOUS
  <2> QED
    BY <2>2, <2>3
<1>4. WorkIsReady' /\ ModeHonest'
  BY <1>1, <1>2, <1>3 DEF WorkIsReady, ModeHonest, TypeOK, GraphStates
<1>5. RunningExecutes'
  BY <1>1, <1>2, <1>3 DEF RunningExecutes, TypeOK, GraphStates
<1>6. VerdictTrue' /\ OutputsFresh' /\ OutcomeAtEnd'
  BY <1>1, <1>2, <1>3
     DEF VerdictTrue, OutputsFresh, OutcomeAtEnd, TypeOK, GraphStates, OutputStatuses
<1>7. MemoryTracksDisk'
  BY <1>1, <1>2, <1>3 DEF MemoryTracksDisk, TypeOK, GraphStates, SetNodeStatus
<1>8. OutputBacksState'
  BY <1>1, <1>2, <1>3 DEF OutputBacksState, TypeOK, GraphStates, OutputStatuses
<1>9. StartsOnDurableInputs'
  BY <1>1, <1>2, <1>3 DEF StartsOnDurableInputs, Unsettled, TypeOK, GraphStates
<1>10. NeverMisschedules' /\ ResultIsTrue' /\ ReleaseWaitsForExecutions'
  BY <1>1, <1>2, <1>3
     DEF NeverMisschedules, ResultIsTrue, ReleaseWaitsForExecutions, OutcomeAtEnd,
         OutputStatuses, Aggregate, IsGraphComplete, Terminal, OutputBacksState, VerdictTrue,
         Unsettled
<1> QED
  BY <1>4, <1>5, <1>6, <1>7, <1>8, <1>9, <1>10

(* A refused call ends the scheduling; what executes is told to stop.       *)
LEMMA StoreRefusesKeeps ==
  ASSUME IInv, StoreRefuses, TypeOK'
  PROVE  IInv'
<1> USE DEF StoreRefuses, Throw, Cancelled, store, IInv, Over, Completing, Active
<1>1. WorkIsReady' /\ ModeHonest'
  BY DEF WorkIsReady, ModeHonest, TypeOK, GraphStates
<1>2. RunningExecutes'
  BY DEF RunningExecutes, TypeOK, GraphStates
<1>3. VerdictTrue' /\ OutputsFresh' /\ OutcomeAtEnd'
  BY DEF VerdictTrue, OutputsFresh, OutcomeAtEnd, TypeOK, GraphStates, OutputStatuses
<1>4. MemoryTracksDisk'
  BY DEF MemoryTracksDisk, TypeOK, GraphStates, SetNodeStatus
<1>5. OutputBacksState'
  BY DEF OutputBacksState, TypeOK, GraphStates, OutputStatuses
<1>6. StartsOnDurableInputs'
  BY DEF StartsOnDurableInputs, Unsettled, TypeOK, GraphStates
<1>7. NeverMisschedules' /\ ResultIsTrue' /\ ReleaseWaitsForExecutions'
  BY
     DEF NeverMisschedules, ResultIsTrue, ReleaseWaitsForExecutions, OutcomeAtEnd,
         OutputStatuses
<1> QED
  BY <1>1, <1>2, <1>3, <1>4, <1>5, <1>6, <1>7

(* The error is rethrown when every execution has settled.                  *)
LEMMA AwaitExecutionsKeeps ==
  ASSUME IInv, AwaitExecutions, TypeOK'
  PROVE  IInv'
<1> USE DEF AwaitExecutions, store, IInv, Over, Completing, Active
<1>1. WorkIsReady' /\ ModeHonest'
  BY DEF WorkIsReady, ModeHonest, TypeOK, GraphStates
<1>2. RunningExecutes'
  BY DEF RunningExecutes, TypeOK, GraphStates
<1>3. VerdictTrue' /\ OutputsFresh' /\ OutcomeAtEnd'
  BY DEF VerdictTrue, OutputsFresh, OutcomeAtEnd, TypeOK, GraphStates, OutputStatuses
<1>4. MemoryTracksDisk'
  BY DEF MemoryTracksDisk, TypeOK, GraphStates, SetNodeStatus
<1>5. OutputBacksState'
  BY DEF OutputBacksState, TypeOK, GraphStates, OutputStatuses
<1>6. StartsOnDurableInputs'
  BY DEF StartsOnDurableInputs, Unsettled, TypeOK, GraphStates
<1>7. NeverMisschedules' /\ ResultIsTrue' /\ ReleaseWaitsForExecutions'
  BY
     DEF NeverMisschedules, ResultIsTrue, ReleaseWaitsForExecutions, OutcomeAtEnd,
         OutputStatuses
<1> QED
  BY <1>1, <1>2, <1>3, <1>4, <1>5, <1>6, <1>7

(* Releasing changes no record, and can only turn a result into a refusal.  *)
LEMMA ReleaseKeeps ==
  ASSUME IInv, Release, TypeOK'
  PROVE  IInv'
<1> USE DEF Release, IInv, Over, Completing, Active
<1>1. WorkIsReady' /\ ModeHonest'
  BY DEF WorkIsReady, ModeHonest, TypeOK, GraphStates
<1>2. RunningExecutes'
  BY DEF RunningExecutes, TypeOK, GraphStates
<1>3. VerdictTrue' /\ OutputsFresh' /\ OutcomeAtEnd'
  BY DEF VerdictTrue, OutputsFresh, OutcomeAtEnd, TypeOK, GraphStates, OutputStatuses
<1>4. MemoryTracksDisk'
  BY DEF MemoryTracksDisk, TypeOK, GraphStates, SetNodeStatus
<1>5. OutputBacksState'
  BY DEF OutputBacksState, TypeOK, GraphStates, OutputStatuses
<1>6. StartsOnDurableInputs'
  BY DEF StartsOnDurableInputs, Unsettled, TypeOK, GraphStates
<1>7. NeverMisschedules' /\ ResultIsTrue' /\ ReleaseWaitsForExecutions'
  BY
     DEF NeverMisschedules, ResultIsTrue, ReleaseWaitsForExecutions, OutcomeAtEnd,
         OutputStatuses
<1> QED
  BY <1>1, <1>2, <1>3, <1>4, <1>5, <1>6, <1>7

(* An execution that moves on, without becoming idle or starting, disturbs  *)
(* nothing else.                                                            *)
LEMMA SetExecKeeps ==
  ASSUME IInv, NEW t \in Tasks, NEW from \in Unsettled,
         NEW to \in {"timedOut", "succeeded", "failed", "aborted"},
         to = "aborted" => from = "cancelled", SetExec(t, from, to), TypeOK'
  PROVE  IInv'
<1> USE DEF SetExec, Alive, store, Unsettled, IInv, Over, Completing, Active
<1>1. \A u \in Tasks : exec'[u] = "idle" <=> exec[u] = "idle"
  BY DEF TypeOK
<1>2. mode = "run"
  BY DEF ModeHonest, TypeOK
<1>3. WorkIsReady' /\ ModeHonest'
  BY <1>1, <1>2 DEF WorkIsReady, ModeHonest, TypeOK, GraphStates
<1>4. RunningExecutes'
  BY <1>1, <1>2 DEF RunningExecutes, TypeOK, GraphStates
<1>5. VerdictTrue' /\ OutputsFresh' /\ OutcomeAtEnd'
  BY <1>1, <1>2 DEF VerdictTrue, OutputsFresh, OutcomeAtEnd, TypeOK, GraphStates, OutputStatuses
<1>6. MemoryTracksDisk'
  BY <1>1, <1>2 DEF MemoryTracksDisk, TypeOK, GraphStates, SetNodeStatus, Settled
<1>7. OutputBacksState'
  BY <1>1, <1>2 DEF OutputBacksState, TypeOK, GraphStates, OutputStatuses
<1>8. StartsOnDurableInputs'
  BY <1>1, <1>2 DEF StartsOnDurableInputs, Unsettled, TypeOK, GraphStates
<1>9. NeverMisschedules' /\ ResultIsTrue' /\ ReleaseWaitsForExecutions'
  BY <1>1, <1>2
     DEF NeverMisschedules, ResultIsTrue, ReleaseWaitsForExecutions, OutcomeAtEnd,
         OutputStatuses
<1> QED
  BY <1>3, <1>4, <1>5, <1>6, <1>7, <1>8, <1>9

(* An abort cancels what executes and changes nothing else.                 *)
LEMMA UserAbortKeeps ==
  ASSUME IInv, UserAbort, TypeOK'
  PROVE  IInv'
<1> USE DEF UserAbort, Alive, Cancelled, store, IInv, Over, Completing, Active
<1>1. \A u \in Tasks : exec'[u] = "idle" <=> exec[u] = "idle"
  BY DEF TypeOK
<1>2. WorkIsReady' /\ ModeHonest'
  BY <1>1 DEF WorkIsReady, ModeHonest, TypeOK, GraphStates
<1>3. RunningExecutes'
  BY <1>1 DEF RunningExecutes, TypeOK, GraphStates
<1>4. VerdictTrue' /\ OutputsFresh' /\ OutcomeAtEnd'
  BY <1>1 DEF VerdictTrue, OutputsFresh, OutcomeAtEnd, TypeOK, GraphStates, OutputStatuses
<1>5. MemoryTracksDisk'
  BY <1>1 DEF MemoryTracksDisk, TypeOK, GraphStates, SetNodeStatus, Settled
<1>6. OutputBacksState'
  BY <1>1 DEF OutputBacksState, TypeOK, GraphStates, OutputStatuses
<1>7. StartsOnDurableInputs'
  BY <1>1 DEF StartsOnDurableInputs, Unsettled, TypeOK, GraphStates
<1>8. NeverMisschedules' /\ ResultIsTrue' /\ ReleaseWaitsForExecutions'
  BY <1>1
     DEF NeverMisschedules, ResultIsTrue, ReleaseWaitsForExecutions, OutcomeAtEnd,
         OutputStatuses
<1> QED
  BY <1>2, <1>3, <1>4, <1>5, <1>6, <1>7, <1>8

(* A forced release touches the owner record only.                          *)
LEMMA ForceReleaseKeeps ==
  ASSUME IInv, ForceRelease, TypeOK'
  PROVE  IInv'
<1> USE DEF ForceRelease, IInv, Over, Completing, Active
<1>1. owned' \in BOOLEAN
  BY Zenon
<1>2. WorkIsReady' /\ ModeHonest'
  BY <1>1 DEF WorkIsReady, ModeHonest, TypeOK, GraphStates
<1>3. RunningExecutes'
  BY <1>1 DEF RunningExecutes, TypeOK, GraphStates
<1>4. VerdictTrue' /\ OutputsFresh' /\ OutcomeAtEnd'
  BY <1>1 DEF VerdictTrue, OutputsFresh, OutcomeAtEnd, TypeOK, GraphStates, OutputStatuses
<1>5. MemoryTracksDisk'
  BY <1>1 DEF MemoryTracksDisk, TypeOK, GraphStates, SetNodeStatus, Settled
<1>6. OutputBacksState'
  BY <1>1 DEF OutputBacksState, TypeOK, GraphStates, OutputStatuses
<1>7. StartsOnDurableInputs'
  BY <1>1 DEF StartsOnDurableInputs, Unsettled, TypeOK, GraphStates
<1>8. NeverMisschedules' /\ ResultIsTrue' /\ ReleaseWaitsForExecutions'
  BY <1>1
     DEF NeverMisschedules, ResultIsTrue, ReleaseWaitsForExecutions, OutcomeAtEnd,
         OutputStatuses
<1> QED
  BY <1>2, <1>3, <1>4, <1>5, <1>6, <1>7, <1>8

(* A kill leaves the records as they are.                                   *)
LEMMA CrashKeeps ==
  ASSUME IInv, Crash, TypeOK'
  PROVE  IInv'
<1> USE DEF Crash, Alive, store, IInv, Over, Completing, Active
<1>1. WorkIsReady' /\ ModeHonest'
  BY DEF WorkIsReady, ModeHonest, TypeOK, GraphStates
<1>2. RunningExecutes'
  BY DEF RunningExecutes, TypeOK, GraphStates
<1>3. VerdictTrue' /\ OutputsFresh' /\ OutcomeAtEnd'
  BY DEF VerdictTrue, OutputsFresh, OutcomeAtEnd, TypeOK, GraphStates, OutputStatuses
<1>4. MemoryTracksDisk'
  BY DEF MemoryTracksDisk, TypeOK, GraphStates, SetNodeStatus
<1>5. OutputBacksState'
  BY DEF OutputBacksState, TypeOK, GraphStates, OutputStatuses
<1>6. StartsOnDurableInputs'
  BY DEF StartsOnDurableInputs, Unsettled, TypeOK, GraphStates
<1>7. NeverMisschedules' /\ ResultIsTrue' /\ ReleaseWaitsForExecutions'
  BY
     DEF NeverMisschedules, ResultIsTrue, ReleaseWaitsForExecutions, OutcomeAtEnd,
         OutputStatuses
<1> QED
  BY <1>1, <1>2, <1>3, <1>4, <1>5, <1>6, <1>7

-----------------------------------------------------------------------------
(* The theorems of NodeLifecycle hold of the records of a run: in           *)
(* particular, only descendants of a failed or aborted task are blocked.    *)
LEMMA BlockedRecordsDescend == Spec => []Lifecycle!BlockedHasCause
<1>1. Lifecycle!Init => Records!Init
  BY DEF Lifecycle!Init, Records!Init, Lifecycle!CreateInitialState, Records!CreateInitialState
<1>2. ASSUME Lifecycle!Next PROVE Records!Next
  <2>1. ASSUME NEW t \in Tasks, Lifecycle!Start(t) PROVE Records!Next
    BY <2>1 DEF Lifecycle!Start, Records!Start, Lifecycle!NeedsSucceeded,
       Records!NeedsSucceeded, Records!Next
  <2>2. ASSUME NEW t \in Tasks, NEW s \in {"succeeded", "failed", "aborted"},
               Lifecycle!Settle(t, s)
        PROVE  Records!Next
    <3>1. Lifecycle!AllowedTransitions = Records!AllowedTransitions
      BY DEF Lifecycle!AllowedTransitions, Records!AllowedTransitions, Lifecycle!Statuses,
             Records!Statuses, Lifecycle!Terminal, Records!Terminal
    <3>2. Records!Settle(t, s)
      BY <2>2, <3>1 DEF Lifecycle!Settle, Records!Settle
    <3> QED
      BY <3>2 DEF Records!Next
  <2>3. ASSUME NEW t \in Tasks, Lifecycle!Block(t) PROVE Records!Next
    <3>1. Lifecycle!Doomed(disk) = Records!Doomed(disk)
      BY DEF Lifecycle!Doomed, Records!Doomed, Lifecycle!Pending, Records!Pending,
             Lifecycle!Absorbs, Records!Absorbs, Lifecycle!HasBlockingNeed,
             Records!HasBlockingNeed, Lifecycle!Blocking, Records!Blocking
    <3>2. Records!Block(t)
      BY <2>3, <3>1 DEF Lifecycle!Block, Records!Block
    <3> QED
      BY <3>2 DEF Records!Next
  <2> QED
    BY <1>2, <2>1, <2>2, <2>3 DEF Lifecycle!Next
<1>3. Lifecycle!Spec => Records!Spec
  BY <1>1, <1>2, PTL DEF Lifecycle!Spec, Records!Spec
<1>4. Records!Spec => []Records!BlockedHasCause
  BY GraphAssumption, RequestsAssumption, SameRequests, Records!BlockedDescends DEF Acyclic, Records!Acyclic
<1>5. Records!BlockedHasCause => Lifecycle!BlockedHasCause
  BY DEF Records!BlockedHasCause, Lifecycle!BlockedHasCause
<1> QED
  BY <1>3, <1>4, <1>5, ImplementsLifecycle, PTL DEF RecordsFollowLifecycle

(* Every step keeps the invariant.                                          *)
LEMMA InvStep ==
  ASSUME IInv, TypeOK', Lifecycle!BlockedHasCause, [Next]_vars
  PROVE  IInv'
<1>1. CASE Schedule
  BY <1>1, ScheduleKeeps
<1>2. CASE WriteRunning
  BY <1>2, WriteRunningKeeps
<1>3. CASE Launch
  BY <1>3, LaunchKeeps
<1>4. CASE LeaveBatch
  BY <1>4, LeaveBatchKeeps
<1>5. CASE PublishArtifact
  BY <1>5, PublishArtifactKeeps
<1>6. CASE PublishOutput
  BY <1>6, PublishOutputKeeps
<1>7. CASE PersistState
  BY <1>7, PersistStateKeeps
<1>8. CASE Complete
  BY <1>8, CompleteKeeps
<1>9. CASE FinishSettling
  BY <1>9, FinishSettlingKeeps
<1>10. CASE Report
  BY <1>10, ReportKeeps
<1>11. CASE StoreRefuses
  BY <1>11, StoreRefusesKeeps
<1>12. CASE AwaitExecutions
  BY <1>12, AwaitExecutionsKeeps
<1>13. CASE Release
  BY <1>13, ReleaseKeeps
<1>14. ASSUME NEW t \in Tasks, TakeReady(t)
      PROVE  IInv'
  BY <1>14, TakeReadyKeeps
<1>15. ASSUME NEW t \in Tasks, Reap(t)
      PROVE  IInv'
  BY <1>15, ReapKeeps
<1>16. ASSUME NEW t \in Tasks, WriteBlocked(t)
      PROVE  IInv'
  BY <1>16, WriteBlockedKeeps
<1>17. ASSUME NEW t \in Tasks, AbortReady(t)
      PROVE  IInv'
  BY <1>17, AbortReadyKeeps
<1>18. ASSUME NEW t \in Tasks, Answer(t)
      PROVE  IInv'
  BY <1>18, SetExecKeeps DEF Answer, Unsettled
<1>19. ASSUME NEW t \in Tasks, TimeOut(t)
      PROVE  IInv'
  BY <1>19, SetExecKeeps DEF TimeOut, Unsettled
<1>20. ASSUME NEW t \in Tasks, CleanUp(t)
      PROVE  IInv'
  BY <1>20, SetExecKeeps DEF CleanUp, Unsettled
<1>21. CASE UserAbort
  BY <1>21, UserAbortKeeps
<1>22. CASE ForceRelease
  BY <1>22, ForceReleaseKeeps
<1>23. CASE Crash
  BY <1>23, CrashKeeps
<1>24. CASE UNCHANGED vars
  BY <1>24 DEF vars, IInv, TypeOK, WorkIsReady, ModeHonest, RunningExecutes, VerdictTrue,
     OutputsFresh, OutcomeAtEnd, MemoryTracksDisk, OutputBacksState, StartsOnDurableInputs,
     NeverMisschedules, ResultIsTrue, ReleaseWaitsForExecutions, Over, Completing, Active,
            Settled
<1> QED
  BY <1>1, <1>2, <1>3, <1>4, <1>5, <1>6, <1>7, <1>8, <1>9, <1>10, <1>11, <1>12, <1>13,
     <1>14, <1>15, <1>16, <1>17, <1>18, <1>19, <1>20, <1>21, <1>22, <1>23, <1>24
     DEF Next, Scheduler

(* The invariant holds throughout every run.                                *)
LEMMA Invariant == Spec => []IInv
<1>1. IInv /\ TypeOK' /\ Lifecycle!BlockedHasCause /\ [Next]_vars => IInv'
  BY InvStep
<1> QED
  BY <1>1, InitHolds, TypeCorrect, BlockedRecordsDescend, PTL DEF Spec

(* Whenever the scheduler decides, its own node states are the stored ones. *)
THEOREM DecidesFromTheStore == Spec => []MemoryTracksDisk
BY Invariant, PTL DEF IInv

(* No crash, refusal or takeover leaves a record that another one does not  *)
(* back.                                                                    *)
THEOREM RecordsAgree == Spec => []OutputBacksState
BY Invariant, PTL DEF IInv

(* Whatever executes is recorded as running on durable prerequisites.       *)
THEOREM ExecutesOnDurableInputs == Spec => []StartsOnDurableInputs
BY Invariant, PTL DEF IInv

(* The store never refuses what the scheduler asks for because of what it   *)
(* asks, and the two stall errors are unreachable, in any graph.            *)
THEOREM NeverAsksTheImpossible == Spec => []NeverMisschedules
BY Invariant, PTL DEF IInv

(* A returned result describes the records.                                 *)
THEOREM ReportsTheTruth == Spec => []ResultIsTrue
BY Invariant, PTL DEF IInv

(* Ownership is given up only when no execution is left.                    *)
THEOREM ReleasesWhenQuiet == Spec => []ReleaseWaitsForExecutions
BY Invariant, PTL DEF IInv

-----------------------------------------------------------------------------
(* Counting. Sets of tasks are finite, and a part of one is no larger.      *)
LEMMA TaskSets ==
  ASSUME NEW S \in SUBSET Tasks
  PROVE  /\ IsFiniteSet(S) /\ Cardinality(S) \in Nat
         /\ \A T \in SUBSET S : Cardinality(T) <= Cardinality(S)
         /\ \A t \in S : Cardinality(S \ {t}) + 1 = Cardinality(S)
         /\ \A t \in Tasks \ S : Cardinality(S \cup {t}) = Cardinality(S) + 1
<1>1. IsFiniteSet(S)
  BY ConcurrencyAssumption, FS_Subset
<1>2. Cardinality(S) \in Nat
  BY <1>1, FS_CardinalityType
<1>3. \A T \in SUBSET S : Cardinality(T) <= Cardinality(S)
  BY <1>1, FS_Subset
<1>4. \A t \in S : Cardinality(S \ {t}) + 1 = Cardinality(S)
  <2> SUFFICES ASSUME NEW t \in S PROVE Cardinality(S \ {t}) + 1 = Cardinality(S)
    OBVIOUS
  <2>1. Cardinality(S \ {t}) = Cardinality(S) - 1
    BY <1>1, FS_RemoveElement
  <2> QED
    BY <1>2, <2>1
<1>5. \A t \in Tasks \ S : Cardinality(S \cup {t}) = Cardinality(S) + 1
  BY <1>1, FS_AddElement
<1> QED
  BY <1>1, <1>2, <1>3, <1>4, <1>5

(* Most steps pick nothing, start nothing and mark nothing as running.      *)
LEMMA QuietStep ==
  ASSUME IInv, SlotsFree, Active' = Active, Running' \subseteq Running,
         at' \notin {"batch", "start", "launch"},
         Completing' /\ mode' = "run" => Completing /\ mode = "run"
  PROVE  SlotsFree'
<1>1. Running \in SUBSET Tasks
  BY DEF Running
<1>2. Cardinality(Running') <= Cardinality(Running)
  BY <1>1, TaskSets
<1>3. Cardinality(Running') \in Nat /\ Cardinality(Running) \in Nat
  BY <1>1, TaskSets
<1>4. Cardinality(Active') = Cardinality(Active)
  OBVIOUS
<1>5. Cardinality(Active') <= Concurrency
  BY <1>4 DEF SlotsFree, ConcurrencyBound
<1>6. Cardinality(Running') <= Concurrency
  BY <1>2, <1>3, ConcurrencyAssumption DEF SlotsFree, ConcurrencyBound, Running
<1>7. ConcurrencyBound'
  BY <1>5, <1>6 DEF ConcurrencyBound, Running
<1>8. Completing' /\ mode' = "run" => Cardinality(Active') + 1 <= Concurrency
  BY <1>4 DEF SlotsFree
<1> QED
  BY <1>7, <1>8 DEF SlotsFree

(* Picking fills what the executions leave; starting and completing move a  *)
(* task from one side to the other.                                         *)
LEMMA SlotsStep ==
  ASSUME IInv, TypeOK', SlotsFree, [Next]_vars
  PROVE  SlotsFree'
<1> DEFINE C == Concurrency
<1>1. C \in Nat /\ Active \in SUBSET Tasks /\ batch \in SUBSET Tasks
  BY ConcurrencyAssumption DEF Active, IInv, TypeOK
<1>2. Cardinality(Active) \in Nat /\ Cardinality(batch) \in Nat /\ Cardinality({}) = 0
  BY <1>1, TaskSets, FS_EmptySet
<1>3. UNCHANGED exec \/ exec' = Cancelled => Active' = Active
  BY DEF Active, Cancelled, IInv, TypeOK
<1>4. UNCHANGED disk => Running' = Running
  BY DEF Running
<1>5. ASSUME NEW k, Throw(k), UNCHANGED disk
      PROVE  SlotsFree'
  BY <1>3, <1>4, <1>5, QuietStep DEF Throw, Completing
<1>6. CASE Schedule
  <2>1. Active' = Active /\ Running' = Running /\ mode' = mode
    BY <1>3, <1>4, <1>6 DEF Schedule, store
  <2>2. at' = "batch" => Cardinality(batch') + Cardinality(Active) <= C
    <3>1. ASSUME at' = "batch"
          PROVE  \/ batch' = {}
                 \/ batch' \in SUBSET Tasks /\ Cardinality(batch') <= C - Cardinality(Active)
      <4>1. /\ batch' \in SUBSET Tasks
            /\ \/ batch' = {}
               \/ Cardinality(batch') = Available
               \/ Cardinality(batch') < Available
        BY <1>6, <3>1 DEF Schedule, ReadyFrontier
      <4>2. Cardinality(batch') \in Nat
        BY <4>1, TaskSets
      <4> QED
        BY <1>1, <1>2, <4>1, <4>2 DEF Available
    <3>2. Cardinality(Active) <= C
      BY DEF SlotsFree, ConcurrencyBound
    <3>3. batch' \in SUBSET Tasks => Cardinality(batch') \in Nat
      BY TaskSets
    <3> QED
      BY <1>1, <1>2, <3>1, <3>2, <3>3
  <2>3. at' \in {"batch", "report"}
    BY <1>6 DEF Schedule
  <2> QED
    BY <2>1, <2>2, <2>3 DEF SlotsFree, ConcurrencyBound, Running, Completing
<1>7. ASSUME NEW t \in Tasks, TakeReady(t) PROVE SlotsFree'
  <2>1. CASE Throw("scheduling")
    BY <1>5, <1>7, <2>1 DEF TakeReady, store
  <2>2. CASE ~Throw("scheduling")
    <3>1. /\ Active' = Active /\ Running' = Running /\ at' = "start"
          /\ batch' = batch \ {t} /\ t \in batch /\ at = "batch"
      BY <1>3, <1>4, <1>7, <2>2 DEF TakeReady, store
    <3>2. Cardinality(batch') + 1 = Cardinality(batch)
      BY <1>1, <3>1, TaskSets
    <3>3. Cardinality(batch') \in Nat
      BY <1>1, <3>1, TaskSets
    <3>4. Cardinality(batch') + Cardinality(Active) + 1 <= C
      BY <1>1, <1>2, <3>1, <3>2, <3>3 DEF SlotsFree
    <3> QED
      BY <3>1, <3>4 DEF SlotsFree, ConcurrencyBound, Running, Completing
  <2> QED
    BY <2>1, <2>2
<1>8. CASE WriteRunning
  <2>1. /\ hand \in Tasks /\ memory = disk /\ memory[hand] = "pending" /\ exec[hand] = "idle"
        /\ Running = Active
    BY <1>8 DEF WriteRunning, IInv, WorkIsReady, MemoryTracksDisk, ReadyFrontier,
       RunningExecutes, Over, Completing, Running, Active, TypeOK
  <2>2. CASE Throw("scheduling")
    BY <1>5, <1>8, <2>2 DEF WriteRunning, Throw
  <2>3. CASE ~Throw("scheduling")
    <3>1. /\ Active' = Active /\ batch' = batch /\ at' = "launch" /\ at = "start"
          /\ disk' = [disk EXCEPT ![hand] = "running"]
      BY <1>3, <1>8, <2>3 DEF WriteRunning, SetNodeStatus
    <3>2. Running' = Active \cup {hand}
      BY <2>1, <3>1 DEF Running, IInv, TypeOK, GraphStates
    <3>3. hand \in Tasks \ Active
      BY <2>1 DEF Active
    <3>4. Cardinality(Running') = Cardinality(Active) + 1
      BY <1>1, <3>2, <3>3, TaskSets
    <3>5. Cardinality(Running') <= C
      BY <1>1, <1>2, <3>1, <3>4 DEF SlotsFree
    <3> QED
      BY <3>1, <3>5 DEF SlotsFree, ConcurrencyBound, Running, Completing
  <2> QED
    BY <2>2, <2>3
<1>9. CASE Launch
  <2>1. hand \in Tasks \ Active /\ at = "launch"
    BY <1>9 DEF Launch, IInv, WorkIsReady, ReadyFrontier, RunningExecutes, Over, Completing,
       Active, TypeOK
  <2>2. CASE Throw("scheduling")
    BY <1>5, <1>9, <2>2 DEF Launch, store
  <2>3. CASE ~Throw("scheduling")
    <3>1. /\ at' = "batch" /\ batch' = batch /\ Running' = Running
          /\ \E e \in {"executing", "failed", "aborted"} : exec' = [exec EXCEPT ![hand] = e]
      BY <1>4, <1>9, <2>3 DEF Launch, Launched, store
    <3>2. Active' = Active \cup {hand}
      BY <2>1, <3>1 DEF Active, IInv, TypeOK
    <3>3. Cardinality(Active') = Cardinality(Active) + 1
      BY <1>1, <2>1, <3>2, TaskSets
    <3>4. Cardinality(batch') + Cardinality(Active') <= C /\ Cardinality(Active') <= C
      BY <1>1, <1>2, <2>1, <3>1, <3>3 DEF SlotsFree
    <3> QED
      BY <3>1, <3>4 DEF SlotsFree, ConcurrencyBound, Running, Completing
  <2> QED
    BY <2>2, <2>3
<1>10. ASSUME NEW t \in Tasks, Reap(t) PROVE SlotsFree'
  <2>1. /\ exec' = [exec EXCEPT ![t] = "idle"] /\ t \in Active /\ at' = "publish"
        /\ Running' = Running
    BY <1>4, <1>10 DEF Reap, store, Active, OutputStatuses
  <2>2. Active' = Active \ {t}
    BY <2>1 DEF Active, IInv, TypeOK
  <2>3. Cardinality(Active') + 1 = Cardinality(Active)
    BY <1>1, <2>1, <2>2, TaskSets
  <2>4. Cardinality(Active') \in Nat
    BY <1>1, <2>2, TaskSets
  <2>5. Cardinality(Active') + 1 <= C /\ Cardinality(Active') <= C
    BY <1>1, <1>2, <2>3, <2>4 DEF SlotsFree, ConcurrencyBound
  <2> QED
    BY <2>1, <2>5 DEF SlotsFree, ConcurrencyBound, Running, Completing
<1>11. CASE PersistState
  <2>1. verdict \in OutputStatuses
    BY <1>11 DEF PersistState, IInv, VerdictTrue, Completing
  <2>2. Running' \subseteq Running
    BY <1>11, <2>1 DEF PersistState, SetNodeStatus, Running, OutputStatuses, IInv, TypeOK,
       GraphStates
  <2>3. Active' = Active
    BY <1>3, <1>11 DEF PersistState, Throw
  <2> QED
    BY <1>11, <2>2, <2>3, QuietStep DEF PersistState, Throw, Completing
<1>12. ASSUME NEW t \in Tasks, WriteBlocked(t) PROVE SlotsFree'
  <2>1. Running' \subseteq Running
    BY <1>12 DEF WriteBlocked, SetNodeStatus, Running, IInv, TypeOK, GraphStates
  <2>2. Active' = Active
    BY <1>3, <1>12 DEF WriteBlocked, Throw
  <2> QED
    BY <1>12, <2>1, <2>2, QuietStep DEF WriteBlocked, Throw, Completing
<1>13. CASE PublishArtifact \/ PublishOutput \/ Complete \/ FinishSettling
  BY <1>3, <1>4, <1>13, QuietStep DEF PublishArtifact, PublishOutput, Complete, FinishSettling,
     AfterSettling, Throw, Completing, store
<1>14. CASE LeaveBatch \/ Report \/ StoreRefuses \/ AwaitExecutions \/ Release
  BY <1>3, <1>4, <1>14, QuietStep
     DEF LeaveBatch, Report, StoreRefuses, AwaitExecutions, Release,
     Throw, Completing, store
<1>15. ASSUME NEW t \in Tasks, AbortReady(t) PROVE SlotsFree'
  BY <1>3, <1>4, <1>15, QuietStep DEF AbortReady, Completing, store, IInv, ModeHonest
<1>16. ASSUME Active' = Active, Running' = Running, UNCHANGED <<at, batch, mode>>
       PROVE  SlotsFree'
  BY <1>16 DEF SlotsFree, ConcurrencyBound, Running, Completing
<1>17. ASSUME NEW t \in Tasks, Answer(t) \/ TimeOut(t) \/ CleanUp(t) PROVE SlotsFree'
  <2>1. PICK from \in Unsettled, to \in {"timedOut", "succeeded", "failed", "aborted"} :
          SetExec(t, from, to)
    BY <1>17 DEF Answer, TimeOut, CleanUp, Unsettled
  <2>2. Active' = Active
    BY <2>1 DEF SetExec, Active, Unsettled, IInv, TypeOK
  <2> QED
    BY <1>4, <1>16, <2>1, <2>2 DEF SetExec, store
<1>18. CASE UserAbort \/ ForceRelease \/ UNCHANGED vars
  BY <1>3, <1>4, <1>16, <1>18 DEF UserAbort, ForceRelease, vars, store
<1>19. CASE Crash
  BY <1>3, <1>4, <1>19, QuietStep DEF Crash, Completing, store
<1> QED
  BY <1>6, <1>7, <1>8, <1>9, <1>10, <1>11, <1>12, <1>13, <1>14, <1>15, <1>17, <1>18, <1>19
     DEF Next, Scheduler

(* Neither executions nor running records ever outnumber the concurrency.   *)
THEOREM NeverExceedsConcurrency == Spec => []ConcurrencyBound
<1>1. Init => SlotsFree
  <2> SUFFICES ASSUME Init PROVE SlotsFree
    OBVIOUS
  <2>1. Active = {} /\ {t \in Tasks : disk[t] = "running"} = {} /\ at = "loop"
    BY DEF Init, Active, CreateInitialState
  <2> QED
    BY <2>1, FS_EmptySet, ConcurrencyAssumption DEF SlotsFree, ConcurrencyBound, Completing
<1>2. IInv /\ TypeOK' /\ SlotsFree /\ [Next]_vars => SlotsFree'
  BY SlotsStep
<1>3. SlotsFree => ConcurrencyBound
  BY DEF SlotsFree
<1> QED
  BY <1>1, <1>2, <1>3, Invariant, TypeCorrect, PTL DEF Spec

(* An abort is final: nothing starts after it.                              *)
THEOREM NothingStartsAfterAbort == Spec => NoStartAfterAbort
<1>1. TypeOK /\ [Next]_vars =>
        [aborted => \A t \in Tasks : exec'[t] = "executing" => exec[t] = "executing"]_vars
  <2> SUFFICES ASSUME TypeOK, Next, aborted, NEW t \in Tasks, exec'[t] = "executing"
               PROVE  exec[t] = "executing"
    OBVIOUS
  <2>1. CASE UNCHANGED exec
    BY <2>1
  <2>2. CASE exec' = Cancelled
    BY <2>2 DEF Cancelled
  <2>3. CASE Launch
    BY <2>3 DEF Launch, Launched, Throw, Cancelled, TypeOK
  <2>4. ASSUME NEW u \in Tasks, Reap(u)
        PROVE  exec[t] = "executing"
    BY <2>4 DEF Reap, TypeOK
  <2>5. ASSUME NEW u \in Tasks, NEW from, NEW to \in Statuses \cup {"timedOut"},
               SetExec(u, from, to)
        PROVE  exec[t] = "executing"
    BY <2>5 DEF SetExec, TypeOK, Statuses, Terminal
  <2>6. \/ UNCHANGED exec \/ exec' = Cancelled \/ Launch
        \/ \E u \in Tasks : Reap(u) \/ Answer(u) \/ TimeOut(u) \/ CleanUp(u)
    BY DEF Next, Scheduler, Schedule, WriteRunning, LeaveBatch, PublishArtifact, PublishOutput,
           PersistState, Complete, FinishSettling, Report, StoreRefuses, AwaitExecutions,
                  Release,
           TakeReady, WriteBlocked, AbortReady, UserAbort, ForceRelease, Crash, Throw
  <2>7. ASSUME NEW u \in Tasks, Answer(u) \/ TimeOut(u) \/ CleanUp(u)
        PROVE  exec[t] = "executing"
    BY <2>5, <2>7 DEF Answer, TimeOut, CleanUp, Statuses, Terminal
  <2> QED
    BY <2>1, <2>2, <2>3, <2>4, <2>6, <2>7
<1> QED
  BY <1>1, TypeCorrect, PTL DEF Spec, NoStartAfterAbort

(* The domain's helpers mean the same in the abstract specification.        *)
LEMMA SameDomain ==
  /\ Protocol!OutputStatuses = OutputStatuses
  /\ Protocol!AllowedTransitions = AllowedTransitions
  /\ Protocol!Doomed(disk) = Doomed(disk)
  /\ \A t \in Tasks : Protocol!NeedsSucceeded(disk, t) = NeedsSucceeded(disk, t)
<1>1. Protocol!OutputStatuses = OutputStatuses
  BY DEF OutputStatuses, Protocol!OutputStatuses
<1>2. Protocol!AllowedTransitions = AllowedTransitions
  BY DEF AllowedTransitions, Protocol!AllowedTransitions, Statuses, Protocol!Statuses,
         Terminal, Protocol!Terminal
<1>3. Protocol!Doomed(disk) = Doomed(disk)
  BY DEF Doomed, Protocol!Doomed, Pending, Protocol!Pending, Absorbs, Protocol!Absorbs,
         HasBlockingNeed, Protocol!HasBlockingNeed, Blocking, Protocol!Blocking
<1>4. \A t \in Tasks : Protocol!NeedsSucceeded(disk, t) = NeedsSucceeded(disk, t)
  BY DEF NeedsSucceeded, Protocol!NeedsSucceeded
<1> QED
  BY <1>1, <1>2, <1>3, <1>4

(* Each step that writes a record is one of NodeRecords: what the scheduler *)
(* has in hand when it writes makes the promise hold where the store itself *)
(* would accept more.                                                       *)
LEMMA RecordStep ==
  ASSUME IInv, [Next]_vars
  PROVE  [Protocol!WriteRecord]_<<disk, output, artifacts, claims>>
<1> SUFFICES ASSUME ~UNCHANGED <<disk, output, artifacts, claims>>
             PROVE  Protocol!WriteRecord
  BY DEF Protocol!records
<1> USE DEF IInv
<1>1. CASE WriteRunning
  <2>1. /\ hand \in Tasks /\ disk[hand] = "pending" /\ MaySetStatus(disk, hand, "running")
        /\ disk' = [disk EXCEPT ![hand] = "running"]
        /\ UNCHANGED <<output, artifacts, claims>>
    BY <1>1 DEF WriteRunning, SetNodeStatus, WorkIsReady, ReadyFrontier, TypeOK, GraphStates,
                MemoryTracksDisk
  <2>2. output[hand] = "none"
    BY <1>1, <2>1 DEF OutputsFresh, OutputStatuses, WriteRunning, Over, TypeOK
  <2>3. Protocol!StartTask(hand)
    BY <2>1, <2>2, SameDomain DEF Protocol!StartTask, Protocol!Start, Protocol!Unpublished,
       MaySetStatus
  <2> QED
    BY <2>1, <2>3 DEF Protocol!WriteRecord
<1>2. CASE PublishArtifact \/ PublishOutput
  <2>1. /\ hand \in Tasks /\ disk[hand] \in {"running", "pending"} /\ verdict \in OutputStatuses
        /\ at \in {"publish", "publishOutput"} /\ ~Over
        /\ disk[hand] = "pending" => verdict = "aborted"
    BY <1>2 DEF PublishArtifact, PublishOutput, WorkIsReady, ModeHonest, MemoryTracksDisk,
                RunningExecutes, VerdictTrue, ReadyFrontier, TypeOK, Completing, Over, Active
  <2>2. output[hand] = "none"
    BY <2>1 DEF OutputsFresh, OutputStatuses, TypeOK
  <2>3. Protocol!CanPublish(hand, verdict)
    BY <2>1, SameDomain DEF Protocol!CanPublish, OutputStatuses
  <2>4. CASE PublishArtifact
    <3>1. hand \notin artifacts
      BY <2>1, <2>2, <2>4 DEF OutputsFresh, PublishArtifact
    <3>2. /\ verdict \in {"succeeded", "failed"}
          /\ artifacts' = artifacts \cup {hand} /\ UNCHANGED <<disk, output, claims>>
      BY <2>1, <2>4, <3>1 DEF PublishArtifact, OutputStatuses
    <3>3. Protocol!PublishArtifact(hand)
      BY <2>2, <2>3, <3>1, <3>2 DEF Protocol!PublishArtifact, Protocol!Unpublished
    <3> QED
      BY <2>1, <3>3 DEF Protocol!WriteRecord
  <2>5. CASE PublishOutput
    <3>1. CanPublish(hand, verdict)
      BY <2>1 DEF CanPublish, OutputStatuses
    <3>2. /\ output' = [output EXCEPT ![hand] = verdict] /\ UNCHANGED <<disk, artifacts>>
          /\ at = "publish" => claims' = claims
          /\ at = "publishOutput" => claims' = claims \cup {hand}
      BY <2>2, <2>5, <3>1 DEF PublishOutput
    <3>3. hand \in artifacts => at = "publishOutput" /\ verdict # "aborted"
      BY <2>1, <2>2 DEF OutputsFresh
    <3>4. at = "publishOutput" => hand \in artifacts
      BY DEF OutputsFresh
    <3>5. claims' = claims \cup ({hand} \cap artifacts)
      BY <2>1, <3>2, <3>3, <3>4
    <3>6. Protocol!PublishOutput(hand, verdict)
      BY <2>2, <2>3, <3>2, <3>3, <3>5 DEF Protocol!PublishOutput, Protocol!Unpublished
    <3> QED
      BY <2>1, <3>6, SameDomain DEF Protocol!WriteRecord
  <2> QED
    BY <1>2, <2>4, <2>5
<1>3. CASE PersistState
  <2>1. /\ hand \in Tasks /\ disk[hand] \in {"running", "pending"} /\ verdict \in OutputStatuses
        /\ output[hand] = verdict /\ MaySetStatus(disk, hand, verdict)
        /\ disk' = [disk EXCEPT ![hand] = verdict] /\ UNCHANGED <<output, artifacts, claims>>
    BY <1>3 DEF PersistState, SetNodeStatus, WorkIsReady, ModeHonest, MemoryTracksDisk,
                RunningExecutes, VerdictTrue, ReadyFrontier, TypeOK, Completing, Over, Active,
                OutputsFresh
  <2>2. verdict \in AllowedTransitions[disk[hand]] \ {"running"}
    BY <2>1 DEF MaySetStatus, OutputStatuses
  <2>3. Protocol!SettleTask(hand, verdict)
    BY <2>1, <2>2, SameDomain DEF Protocol!SettleTask, Protocol!Settle
  <2> QED
    BY <2>1, <2>3, SameDomain DEF Protocol!WriteRecord
<1>4. ASSUME NEW t \in Tasks, WriteBlocked(t)
      PROVE  Protocol!WriteRecord
  <2>1. /\ t \in Doomed(disk) /\ disk' = [disk EXCEPT ![t] = "blocked"]
        /\ UNCHANGED <<output, artifacts, claims>> /\ at = "settle"
    BY <1>4 DEF WriteBlocked, SetNodeStatus
  <2>2. disk[t] = "pending"
    BY <2>1 DEF Doomed, Pending
  <2>3. output[t] = "none"
    BY <2>1, <2>2 DEF OutputsFresh, OutputStatuses, Over, TypeOK
  <2>4. Protocol!BlockTask(t)
    BY <2>1, <2>3, SameDomain DEF Protocol!BlockTask, Protocol!Block, Protocol!Unpublished
  <2> QED
    BY <2>4 DEF Protocol!WriteRecord
<1>5. \/ WriteRunning \/ PublishArtifact \/ PublishOutput \/ PersistState
      \/ \E t \in Tasks : WriteBlocked(t)
  BY DEF Next, Scheduler, vars, store, Schedule, Launch, LeaveBatch, Complete, FinishSettling,
         Report, StoreRefuses, AwaitExecutions, Release, TakeReady, Reap, AbortReady, Answer,
         TimeOut, CleanUp, SetExec, UserAbort, ForceRelease, Crash
<1> QED
  BY <1>1, <1>2, <1>3, <1>4, <1>5

(* RunGraph implements NodeRecords: what the readers of a run rely on holds *)
(* of every run, whatever is answered, refused, aborted or killed.          *)
THEOREM ImplementsRecords == Spec => RecordsFollowProtocol
<1>1. Init => Protocol!RecordsInit
  BY DEF Init, Protocol!RecordsInit, Protocol!Init, CreateInitialState,
         Protocol!CreateInitialState
<1>2. IInv /\ [Next]_vars => [Protocol!WriteRecord]_<<disk, output, artifacts, claims>>
  BY RecordStep
<1> QED
  BY <1>1, <1>2, Invariant, PTL
     DEF Spec, RecordsFollowProtocol, Protocol!RecordsSpec, Protocol!records

-----------------------------------------------------------------------------
(* Admission: that what a run is scheduled from is such a graph.            *)
AnyTask == [id : RawIds, needs : Seq(RawIds), payload : Payloads]
AnyRequest ==
  [via : {"tool", "library"}, concurrency : {None} \cup Int, tasks : Seq(AnyTask)]

TrimmedIds == [name : Nat, padded : {FALSE}]

LEMMA TrimmedIsTrimmed ==
  /\ \A raw \in RawIds : Trimmed(raw) \in TrimmedIds
  /\ \A raw \in TrimmedIds : Trimmed(raw) = raw
  /\ TrimmedIds \subseteq RawIds
BY DEF Trimmed, TrimmedIds, RawIds

(* A sorted list has the elements it was sorted from: how many names are    *)
(* less than one's own is another number for every name, so each number     *)
(* below the size of the set is that of some name.                          *)
LEMMA SortedHasAll ==
  ASSUME NEW ids, ids \subseteq TrimmedIds, IsFiniteSet(ids)
  PROVE  Sorted(ids) \in Seq(ids) /\ Range(Sorted(ids)) = ids
<1> DEFINE n == Cardinality(ids)
           Below(d) == {e \in ids : e.name < d.name}
           Rank(d) == Cardinality(Below(d))
           f == [d \in ids |-> Rank(d) + 1]
<1>1. \A d \in ids : d.name \in Nat
  BY DEF TrimmedIds
<1>2. \A d, e \in ids : d.name = e.name => d = e
  <2>1. \A d \in ids : d = [name |-> d.name, padded |-> d.padded]
    <3> DEFINE No == {FALSE}
    <3>1. \A d \in ids : d \in [name : Nat, padded : No]
      BY DEF TrimmedIds
    <3> HIDE DEF No
    <3> QED
      BY <3>1
  <2>2. \A d \in ids : d.padded \in {FALSE}
    BY DEF TrimmedIds
  <2>3. \A d, e \in ids : d.padded = e.padded
    BY <2>2, Zenon
  <2> HIDE DEF TrimmedIds
  <2> QED
    BY <2>1, <2>3
<1>3. n \in Nat
  BY FS_CardinalityType
<1>4. ASSUME NEW d \in ids
      PROVE  IsFiniteSet(Below(d)) /\ Rank(d) \in 0 .. n - 1 /\ Rank(d) \in Int
  <2>1. Below(d) \in SUBSET (ids \ {d})
    BY <1>1
  <2>2. IsFiniteSet(ids \ {d}) /\ Cardinality(ids \ {d}) = n - 1
    BY FS_RemoveElement
  <2>3. IsFiniteSet(Below(d)) /\ Rank(d) <= n - 1
    BY <2>1, <2>2, FS_Subset
  <2>4. Rank(d) \in Nat
    BY <2>3, FS_CardinalityType
  <2> HIDE DEF Rank, n
  <2> QED
    BY <2>3, <2>4, <1>3
<1>5. ASSUME NEW d \in ids, NEW e \in ids, d.name < e.name
      PROVE  Rank(d) < Rank(e)
  <2>1. Below(d) \in SUBSET Below(e)
    BY <1>1, <1>5
  <2>2. d \in Below(e) /\ d \notin Below(d)
    BY <1>1, <1>5
  <2>3. Rank(d) <= Rank(e) /\ Rank(d) # Rank(e)
    BY <2>1, <2>2, <1>4, FS_Subset
  <2>4. Rank(d) \in Int /\ Rank(e) \in Int
    BY <1>4
  <2> HIDE DEF Rank
  <2> QED
    BY <2>3, <2>4
<1>6. \A d, e \in ids : Rank(d) = Rank(e) => d = e
  <2> SUFFICES ASSUME NEW d \in ids, NEW e \in ids, Rank(d) = Rank(e), d # e PROVE FALSE
    OBVIOUS
  <2>1. d.name < e.name \/ e.name < d.name
    BY <1>1, <1>2
  <2>2. Rank(d) < Rank(e) \/ Rank(e) < Rank(d)
    BY <2>1, <1>5
  <2>3. Rank(d) \in Int
    BY <1>4
  <2> HIDE DEF Rank
  <2> QED
    BY <2>2, <2>3
<1>7. f \in Injection(ids, 1 .. n)
  <2>1. \A d \in ids : Rank(d) + 1 \in 1 .. n
    <3> SUFFICES ASSUME NEW d \in ids PROVE Rank(d) + 1 \in 1 .. n
      OBVIOUS
    <3>1. Rank(d) \in 0 .. n - 1
      BY <1>4
    <3> HIDE DEF Rank, n
    <3> QED
      BY <3>1, <1>3
  <2>2. \A d, e \in ids : Rank(d) + 1 = Rank(e) + 1 => Rank(d) = Rank(e)
    <3> SUFFICES ASSUME NEW d \in ids, NEW e \in ids, Rank(d) + 1 = Rank(e) + 1
                 PROVE  Rank(d) = Rank(e)
      OBVIOUS
    <3>1. Rank(d) \in Int /\ Rank(e) \in Int
      BY <1>4
    <3> HIDE DEF Rank
    <3> QED
      BY <3>1
  <2> HIDE DEF Rank, n
  <2>3. f \in [ids -> 1 .. n]
    BY <2>1
  <2>4. \A d, e \in ids : f[d] = f[e] => d = e
    BY <2>2, <1>6
  <2> QED
    BY <2>3, <2>4 DEF Injection, IsInjective
<1>8. \A k \in 1 .. n : \E d \in ids : f[d] = k
  <2>1. IsFiniteSet(1 .. n) /\ Cardinality(1 .. n) = n
    BY <1>3, FS_Interval
  <2>2. f \in Surjection(ids, 1 .. n)
    BY <2>1, <1>7, FS_Injection
  <2> HIDE DEF f, n
  <2> QED
    BY <2>2 DEF Surjection
<1>9. ASSUME NEW k \in 1 .. n
      PROVE  Sorted(ids)[k] \in ids /\ Rank(Sorted(ids)[k]) = k - 1
  <2>1. PICK d \in ids : f[d] = k
    BY <1>8
  <2>2. Rank(d) = k - 1
    <3>1. Rank(d) \in Int
      BY <1>4
    <3> HIDE DEF Rank
    <3> QED
      BY <3>1, <2>1
  <2>3. Sorted(ids)[k] = CHOOSE e \in ids : Rank(e) = k - 1
    BY DEF Sorted
  <2> HIDE DEF Rank
  <2> QED
    BY <2>2, <2>3
<1>10. DOMAIN Sorted(ids) = 1 .. n
  BY DEF Sorted
<1>11. Sorted(ids) \in Seq(ids)
  <2> DEFINE s == Sorted(ids)
           Kth(k) == CHOOSE d \in ids : Rank(d) = k - 1
  <2>1. s = [k \in 1 .. n |-> Kth(k)]
    BY DEF Sorted
  <2>2. \A k \in 1 .. n : s[k] \in ids
    BY <1>9
  <2> HIDE DEF n, s, Kth
  <2>3. s \in [1 .. n -> ids]
    BY <2>1, <2>2
  <2> QED
    BY <2>3, <1>3 DEF s
<1>12. ASSUME NEW d \in ids
       PROVE  \E k \in 1 .. n : Sorted(ids)[k] = d
  <2>1. Rank(d) \in 0 .. n - 1
    BY <1>4
  <2> DEFINE k == Rank(d) + 1
  <2> HIDE DEF Rank, n
  <2>2. k \in 1 .. n /\ k - 1 = Rank(d)
    BY <2>1, <1>3
  <2>3. Sorted(ids)[k] \in ids /\ Rank(Sorted(ids)[k]) = Rank(d)
    BY <2>2, <1>9
  <2>4. Sorted(ids)[k] = d
    BY <2>3, <1>6
  <2> QED
    BY <2>2, <2>4
<1>13. Range(Sorted(ids)) = ids
  <2> HIDE DEF n, Rank
  <2> QED
    BY <1>9, <1>10, <1>12 DEF Range
<1> QED
  BY <1>11, <1>13

LEMMA NormalNeedsAreNeeds ==
  ASSUME NEW needs \in Seq(RawIds)
  PROVE  /\ NormalNeeds(needs) \in Seq(TrimmedIds)
         /\ Range(NormalNeeds(needs)) = {Trimmed(needs[i]) : i \in DOMAIN needs}
<1> DEFINE ids == {Trimmed(needs[i]) : i \in DOMAIN needs}
           f == [i \in DOMAIN needs |-> Trimmed(needs[i])]
<1>1. ids \subseteq TrimmedIds
  BY TrimmedIsTrimmed
<1>2. DOMAIN needs = 1 .. Len(needs) /\ Len(needs) \in Nat /\ IsFiniteSet(DOMAIN needs)
  BY FS_Interval
<1>3. f \in Surjection(DOMAIN needs, ids)
  BY DEF Surjection
<1>4. IsFiniteSet(ids)
  BY <1>2, <1>3, FS_Surjection
<1>5. NormalNeeds(needs) = Sorted(ids)
  BY DEF NormalNeeds
<1> HIDE DEF ids
<1>6. Sorted(ids) \in Seq(ids) /\ Range(Sorted(ids)) = ids
  BY <1>1, <1>4, SortedHasAll
<1>7. Sorted(ids) \in Seq(TrimmedIds)
  BY <1>1, <1>6
<1> QED
  BY <1>5, <1>6, <1>7 DEF ids

(* What is normalized stays as it is: the manifest of a run is the graph it *)
(* is scheduled from.                                                       *)
LEMMA NormalTwice ==
  ASSUME NEW tasks \in Seq(AnyTask)
  PROVE  /\ NormalTasks(tasks) \in Seq(AnyTask)
         /\ NormalTasks(NormalTasks(tasks)) = NormalTasks(tasks)
<1> DEFINE normal == NormalTasks(tasks)
<1>1. /\ DOMAIN tasks = 1 .. Len(tasks) /\ Len(tasks) \in Nat
      /\ \A i \in DOMAIN tasks : tasks[i] \in AnyTask
  OBVIOUS
<1>2. DOMAIN normal = DOMAIN tasks
  BY DEF NormalTasks
<1>3. ASSUME NEW i \in DOMAIN tasks
      PROVE  /\ normal[i] = [id |-> Trimmed(tasks[i].id), needs |-> NormalNeeds(tasks[i].needs),
                             payload |-> tasks[i].payload]
             /\ normal[i] \in AnyTask
             /\ NormalTasks(normal)[i] = normal[i]
  <2> DEFINE task == tasks[i]
             needs == NormalNeeds(task.needs)
  <2>1. task \in AnyTask /\ task.needs \in Seq(RawIds)
    BY <1>1 DEF AnyTask
  <2>2. normal[i] = [task EXCEPT !.id = Trimmed(@), !.needs = NormalNeeds(@)]
    BY DEF NormalTasks
  <2>3. normal[i] = [id |-> Trimmed(task.id), needs |-> needs, payload |-> task.payload]
    BY <2>1, <2>2 DEF AnyTask
  <2>4. /\ needs \in Seq(TrimmedIds)
        /\ Range(needs) = {Trimmed(task.needs[j]) : j \in DOMAIN task.needs}
    BY <2>1, NormalNeedsAreNeeds
  <2>5. Trimmed(task.id) \in TrimmedIds
    BY <2>1, TrimmedIsTrimmed DEF AnyTask
  <2> HIDE DEF needs, normal
  <2>6. needs \in Seq(RawIds)
    BY <2>4, TrimmedIsTrimmed
  <2>7. normal[i] \in AnyTask
    BY <2>1, <2>3, <2>5, <2>6, TrimmedIsTrimmed DEF AnyTask
  <2>8. NormalNeeds(needs) = needs
    <3>1. \A j \in DOMAIN needs : Trimmed(needs[j]) = needs[j]
      BY <2>4, TrimmedIsTrimmed
    <3>2. {Trimmed(needs[j]) : j \in DOMAIN needs} = Range(needs)
      BY <3>1 DEF Range
    <3>3. NormalNeeds(needs) = Sorted(Range(needs))
      BY <3>2 DEF NormalNeeds
    <3>4. needs = Sorted({Trimmed(task.needs[j]) : j \in DOMAIN task.needs})
      BY DEF needs, NormalNeeds
    <3> QED
      BY <3>3, <3>4, <2>4
  <2>9. NormalTasks(normal)[i] = [normal[i] EXCEPT !.id = Trimmed(@), !.needs = NormalNeeds(@)]
    BY <1>2 DEF NormalTasks
  <2>10. NormalTasks(normal)[i] = [id |-> Trimmed(normal[i].id),
                                   needs |-> NormalNeeds(normal[i].needs),
                                   payload |-> normal[i].payload]
    BY <2>7, <2>9 DEF AnyTask
  <2>11. /\ normal[i].id = Trimmed(task.id) /\ normal[i].needs = needs
         /\ normal[i].payload = task.payload
    BY <2>3
  <2>12. NormalTasks(normal)[i] = normal[i]
    BY <2>3, <2>5, <2>8, <2>10, <2>11, TrimmedIsTrimmed
  <2> QED
    BY <2>3, <2>7, <2>12 DEF needs
<1>4. normal \in Seq(AnyTask)
  <2>1. normal = [i \in 1 .. Len(tasks) |-> normal[i]]
    BY <1>1 DEF NormalTasks
  <2>2. \A i \in 1 .. Len(tasks) : normal[i] \in AnyTask
    BY <1>1, <1>3
  <2> HIDE DEF normal
  <2>3. normal \in [1 .. Len(tasks) -> AnyTask]
    BY <2>1, <2>2
  <2> QED
    BY <2>3, <1>1
<1>5. NormalTasks(normal) = normal
  <2>1. normal = [i \in DOMAIN tasks |-> normal[i]]
    BY DEF NormalTasks
  <2>2. NormalTasks(normal) = [i \in DOMAIN tasks |-> NormalTasks(normal)[i]]
    BY <1>2 DEF NormalTasks
  <2> HIDE DEF normal
  <2> QED
    BY <2>1, <2>2, <1>3
<1> QED
  BY <1>4, <1>5

(* The search for a cycle, for dependencies D of any graph. The path it is  *)
(* on is a chain of dependencies, and what it has left has only             *)
(* dependencies it has left before: these form no cycle.                    *)
Marks == {"unmarked", "visiting", "visited"}
Frames(D) == [id : DOMAIN D, left : SUBSET DOMAIN D]

Left(D, marked) == {id \in DOMAIN D : marked[id] = "visited"}

Noncyclic(D, I) == \A S \in SUBSET I : S # {} => \E t \in S : D[t] \cap S = {}

Chained(D, path) ==
  /\ \A k \in 1 .. Len(path) : path[k].left \subseteq D[path[k].id]
  /\ \A k \in 1 .. Len(path) - 1 : path[k + 1].id \in D[path[k].id]
  /\ \A j, k \in 1 .. Len(path) : path[j].id = path[k].id => j = k

MarkedAsFound(D, path, marked) ==
  /\ \A id \in DOMAIN D : marked[id] = "visiting" <=> \E k \in 1 .. Len(path) : path[k].id = id
  /\ \A k \in 1 .. Len(path) : \A d \in D[path[k].id] \ path[k].left :
       marked[d] = "visited" \/ (k < Len(path) /\ d = path[k + 1].id)

Closed(D, marked) == \A id \in Left(D, marked) : D[id] \subseteq Left(D, marked)

SearchInv(D, path, marked) ==
  /\ path \in Seq(Frames(D)) /\ marked \in [DOMAIN D -> Marks]
  /\ Chained(D, path) /\ MarkedAsFound(D, path, marked)
  /\ Closed(D, marked) /\ Noncyclic(D, Left(D, marked))

Simple(D) == D \in [DOMAIN D -> SUBSET DOMAIN D] /\ \A id \in DOMAIN D : id \notin D[id]

LEMMA SearchStarts ==
  ASSUME NEW D
  PROVE  SearchInv(D, <<>>, [id \in DOMAIN D |-> "unmarked"])
<1> DEFINE m == [id \in DOMAIN D |-> "unmarked"]
<1>1. m \in [DOMAIN D -> Marks] /\ Left(D, m) = {}
  BY DEF Marks, Left
<1>2. <<>> \in Seq(Frames(D)) /\ Len(<<>>) = 0
  OBVIOUS
<1>3. Chained(D, <<>>)
  BY <1>2 DEF Chained
<1>4. MarkedAsFound(D, <<>>, m)
  BY <1>2 DEF MarkedAsFound
<1>5. Closed(D, m) /\ Noncyclic(D, Left(D, m))
  BY <1>1 DEF Closed, Noncyclic
<1> HIDE DEF m
<1>6. SearchInv(D, <<>>, m)
  BY <1>1, <1>2, <1>3, <1>4, <1>5 DEF SearchInv
<1> QED
  BY <1>6 DEF m

(* A visit adds the id to the path; it may have been taken off the list of  *)
(* the last frame for that.                                                 *)
LEMMA VisitKeeps ==
  ASSUME NEW D, Simple(D), NEW path, NEW marked, SearchInv(D, path, marked),
         NEW d \in DOMAIN D, marked[d] = "unmarked", NEW rest,
         \/ path = <<>> /\ rest = <<>>
         \/ /\ path # <<>> /\ d \in path[Len(path)].left
            /\ rest = [path EXCEPT ![Len(path)].left = @ \ {d}]
  PROVE  SearchInv(D, Append(rest, [id |-> d, left |-> D[d]]), [marked EXCEPT ![d] = "visiting"])
<1> DEFINE n == Len(path)
           frame == [id |-> d, left |-> D[d]]
           p == Append(rest, frame)
           m == [marked EXCEPT ![d] = "visiting"]
<1>1. /\ path \in Seq(Frames(D)) /\ marked \in [DOMAIN D -> Marks] /\ n \in Nat
      /\ Chained(D, path) /\ MarkedAsFound(D, path, marked)
      /\ Closed(D, marked) /\ Noncyclic(D, Left(D, marked))
  BY DEF SearchInv
<1>2. /\ \A id \in DOMAIN D : D[id] \subseteq DOMAIN D
      /\ \A id \in DOMAIN D : id \notin D[id]
  BY DEF Simple
<1>3. frame \in Frames(D)
  BY <1>2 DEF Frames
<1>4. /\ rest \in Seq(Frames(D)) /\ Len(rest) = n
      /\ \A k \in 1 .. n : rest[k].id = path[k].id
      /\ \A k \in 1 .. n - 1 : rest[k].left = path[k].left
      /\ n > 0 => /\ d \in path[n].left /\ rest[n].left = path[n].left \ {d}
  <2>1. CASE path = <<>>
    BY <2>1
  <2>2. CASE path # <<>>
    <3>1. n \in 1 .. n /\ path \in [1 .. n -> Frames(D)] /\ path[n] \in Frames(D)
      BY <1>1, <2>2
    <3>2. [path[n] EXCEPT !.left = @ \ {d}] = [id |-> path[n].id, left |-> path[n].left \ {d}]
      <4>1. \A f \in Frames(D) : \A s : [f EXCEPT !.left = s] = [id |-> f.id, left |-> s]
        BY DEF Frames
      <4> QED
        BY <3>1, <4>1
    <3>3. [path[n] EXCEPT !.left = @ \ {d}] \in Frames(D)
      BY <3>1, <3>2 DEF Frames
    <3>4. rest = [path EXCEPT ![n] = [path[n] EXCEPT !.left = @ \ {d}]] /\ d \in path[n].left
      BY <2>2, <3>1
    <3>5. /\ rest \in [1 .. n -> Frames(D)]
          /\ rest[n] = [id |-> path[n].id, left |-> path[n].left \ {d}]
          /\ \A k \in 1 .. n : k # n => rest[k] = path[k]
      BY <3>1, <3>2, <3>3, <3>4
    <3> HIDE DEF n
    <3>6. rest \in Seq(Frames(D)) /\ Len(rest) = n
      BY <1>1, <3>5
    <3>7. /\ \A k \in 1 .. n : rest[k].id = path[k].id
          /\ \A k \in 1 .. n - 1 : rest[k].left = path[k].left
      BY <1>1, <3>5
    <3> QED
      BY <3>4, <3>5, <3>6, <3>7
  <2> QED
    BY <2>1, <2>2
<1> HIDE DEF n, frame
<1>5. /\ p \in Seq(Frames(D)) /\ Len(p) = n + 1
      /\ p[n + 1] = frame /\ \A k \in 1 .. n : p[k] = rest[k]
  BY <1>1, <1>3, <1>4
<1> HIDE DEF p
<1>6. /\ frame.id = d /\ frame.left = D[d]
      /\ p[n + 1].id = d /\ p[n + 1].left = D[d]
      /\ \A k \in 1 .. n : p[k].id = path[k].id
      /\ \A k \in 1 .. n - 1 : p[k].left = path[k].left
      /\ n > 0 => p[n].left = path[n].left \ {d}
  <2>1. \A k \in 1 .. n - 1 : k \in 1 .. n
    BY <1>1
  <2>2. n > 0 => n \in 1 .. n
    BY <1>1
  <2> QED
    BY <2>1, <2>2, <1>4, <1>5 DEF frame
<1>7. /\ m \in [DOMAIN D -> Marks] /\ m[d] = "visiting"
      /\ \A id \in DOMAIN D : id # d => m[id] = marked[id]
      /\ Left(D, m) = Left(D, marked)
  BY <1>1 DEF Marks, Left
<1>8. \A k \in 1 .. n : path[k].id \in DOMAIN D /\ path[k].id # d /\ marked[path[k].id] = "visiting"
  <2>1. \A k \in 1 .. n : path[k].id \in DOMAIN D
    <3>1. \A k \in 1 .. n : path[k] \in Frames(D)
      BY <1>1 DEF n
    <3> QED
      BY <3>1 DEF Frames
  <2> QED
    BY <2>1, <1>1 DEF MarkedAsFound, n
<1>9. Chained(D, p)
  <2>1. ASSUME NEW k \in 1 .. n + 1 PROVE p[k].left \subseteq D[p[k].id]
    <3>1. CASE k = n + 1
      BY <3>1, <1>6
    <3>2. CASE k # n + 1
      <4>1. k \in 1 .. n /\ path[k].left \subseteq D[path[k].id]
        BY <3>2, <1>1 DEF Chained, n
      <4>2. p[k].left \subseteq path[k].left
        BY <4>1, <1>1, <1>6
      <4> QED
        BY <4>1, <4>2, <1>6
    <3> QED
      BY <3>1, <3>2
  <2>2. ASSUME NEW k \in 1 .. n PROVE p[k + 1].id \in D[p[k].id]
    <3>1. CASE k = n
      <4>1. d \in path[n].left /\ path[n].left \subseteq D[path[n].id] /\ n > 0
        BY <3>1, <1>1, <1>4 DEF Chained, n
      <4> QED
        BY <4>1, <3>1, <1>6
    <3>2. CASE k # n
      <4>1. k \in 1 .. n - 1 /\ k + 1 \in 1 .. n /\ path[k + 1].id \in D[path[k].id]
        BY <3>2, <1>1 DEF Chained, n
      <4> QED
        BY <4>1, <1>6
    <3> QED
      BY <3>1, <3>2
  <2>3. ASSUME NEW j \in 1 .. n + 1, NEW k \in 1 .. n + 1, p[j].id = p[k].id PROVE j = k
    <3>1. CASE j \in 1 .. n /\ k \in 1 .. n
      BY <3>1, <2>3, <1>1, <1>6 DEF Chained, n
    <3>2. CASE ~(j \in 1 .. n /\ k \in 1 .. n)
      <4>1. j = n + 1 \/ k = n + 1
        BY <3>2, <1>1
      <4>2. \A i \in 1 .. n + 1 : p[i].id = d => i = n + 1
        <5> SUFFICES ASSUME NEW i \in 1 .. n + 1, i # n + 1 PROVE p[i].id # d
          OBVIOUS
        <5>1. i \in 1 .. n
          BY <1>1
        <5> QED
          BY <5>1, <1>6, <1>8
      <4> QED
        BY <2>3, <4>1, <4>2, <1>6
    <3> QED
      BY <3>1, <3>2
  <2>4. (n + 1) - 1 = n
    BY <1>1
  <2> QED
    BY <1>5, <2>1, <2>2, <2>3, <2>4 DEF Chained
<1>10. MarkedAsFound(D, p, m)
  <2>1. ASSUME NEW id \in DOMAIN D
        PROVE  m[id] = "visiting" <=> \E k \in 1 .. n + 1 : p[k].id = id
    <3>1. CASE id = d
      <4>1. n + 1 \in 1 .. n + 1
        BY <1>1
      <4> QED
        BY <3>1, <4>1, <1>6, <1>7
    <3>2. CASE id # d
      <4>1. m[id] = "visiting" <=> \E k \in 1 .. n : path[k].id = id
        BY <3>2, <1>1, <1>7 DEF MarkedAsFound, n
      <4>2. \A k \in 1 .. n + 1 : k \in 1 .. n \/ k = n + 1
        BY <1>1
      <4>3. \A k \in 1 .. n : k \in 1 .. n + 1
        BY <1>1
      <4> QED
        BY <3>2, <4>1, <4>2, <4>3, <1>6
    <3> QED
      BY <3>1, <3>2
  <2>2. ASSUME NEW k \in 1 .. n + 1, NEW e \in D[p[k].id] \ p[k].left
        PROVE  m[e] = "visited" \/ (k < n + 1 /\ e = p[k + 1].id)
    <3>1. CASE k = n + 1
      BY <3>1, <2>2, <1>6
    <3>2. CASE k = n
      <4>1. n > 0 /\ n \in 1 .. n /\ e \in D[path[n].id] /\ e \notin path[n].left \ {d}
        BY <3>2, <2>2, <1>1, <1>6
      <4>2. CASE e = d
        BY <4>2, <3>2, <1>1, <1>6
      <4>3. CASE e # d
        <5>1. marked[e] = "visited"
          BY <4>1, <4>3, <1>1 DEF MarkedAsFound, n
        <5>2. e \in DOMAIN D
          BY <4>1, <1>2, <1>8
        <5> QED
          BY <5>1, <5>2, <4>3, <1>7
      <4> QED
        BY <4>2, <4>3
    <3>3. CASE k # n + 1 /\ k # n
      <4>1. k \in 1 .. n - 1 /\ k \in 1 .. n /\ k + 1 \in 1 .. n /\ k < n + 1
        BY <3>3, <1>1
      <4>2. e \in D[path[k].id] /\ e \notin path[k].left /\ e \in DOMAIN D
        BY <4>1, <2>2, <1>2, <1>6, <1>8
      <4>3. marked[e] = "visited" \/ e = path[k + 1].id
        BY <4>1, <4>2, <1>1 DEF MarkedAsFound, n
      <4>4. CASE marked[e] = "visited"
        BY <4>4, <4>2, <1>7
      <4>5. CASE e = path[k + 1].id
        BY <4>1, <4>5, <1>6
      <4> QED
        BY <4>3, <4>4, <4>5
    <3> QED
      BY <3>1, <3>2, <3>3
  <2> QED
    BY <1>5, <2>1, <2>2 DEF MarkedAsFound
<1>11. Closed(D, m) /\ Noncyclic(D, Left(D, m))
  BY <1>1, <1>7 DEF Closed
<1> HIDE DEF m
<1>12. SearchInv(D, p, m)
  BY <1>5, <1>7, <1>9, <1>10, <1>11 DEF SearchInv
<1> QED
  BY <1>12 DEF p, m, frame

(* Looking at one that was left before finds nothing new.                   *)
LEMMA LookKeeps ==
  ASSUME NEW D, Simple(D), NEW path, NEW marked, SearchInv(D, path, marked), path # <<>>,
         NEW d \in path[Len(path)].left, marked[d] = "visited"
  PROVE  SearchInv(D, [path EXCEPT ![Len(path)].left = @ \ {d}], marked)
<1> DEFINE n == Len(path)
           p == [path EXCEPT ![n].left = @ \ {d}]
<1>1. /\ path \in Seq(Frames(D)) /\ marked \in [DOMAIN D -> Marks] /\ n \in Nat /\ n > 0
      /\ Chained(D, path) /\ MarkedAsFound(D, path, marked)
      /\ Closed(D, marked) /\ Noncyclic(D, Left(D, marked))
  BY DEF SearchInv
<1>2. n \in 1 .. n /\ path \in [1 .. n -> Frames(D)] /\ path[n] \in Frames(D)
  BY <1>1
<1> DEFINE frame == [id |-> path[n].id, left |-> path[n].left \ {d}]
<1>3. [path[n] EXCEPT !.left = @ \ {d}] = frame /\ frame \in Frames(D)
  <2>1. \A f \in Frames(D), s \in SUBSET DOMAIN D :
          [f EXCEPT !.left = s] = [id |-> f.id, left |-> s] /\ [id |-> f.id, left |-> s] \in Frames(D)
    BY DEF Frames
  <2>2. path[n].left \ {d} \in SUBSET DOMAIN D
    BY <1>2 DEF Frames
  <2> QED
    BY <2>1, <2>2, <1>2
<1>4. p = [path EXCEPT ![n] = [path[n] EXCEPT !.left = @ \ {d}]]
  BY <1>2
<1>5. p = [path EXCEPT ![n] = frame]
  BY <1>3, <1>4
<1> HIDE DEF p, n
<1>6. /\ p \in Seq(Frames(D)) /\ Len(p) = n
      /\ p[n] = frame /\ \A k \in 1 .. n : k # n => p[k] = path[k]
  <2>1. p \in [1 .. n -> Frames(D)]
    BY <1>2, <1>3, <1>5
  <2>2. p[n] = frame /\ \A k \in 1 .. n : k # n => p[k] = path[k]
    BY <1>2, <1>5
  <2> HIDE DEF frame
  <2> QED
    BY <1>1, <2>1, <2>2
<1>7. /\ \A k \in 1 .. n : p[k].id = path[k].id /\ p[k].left \subseteq path[k].left
      /\ \A k \in 1 .. n : path[k].left \ p[k].left \subseteq {d}
  BY <1>6
<1> HIDE DEF frame
<1>8. Chained(D, p)
  <2>1. \A k \in 1 .. n - 1 : k \in 1 .. n /\ k + 1 \in 1 .. n
    BY <1>1
  <2> QED
    BY <1>1, <1>6, <1>7, <2>1 DEF Chained, n
<1>9. MarkedAsFound(D, p, marked)
  <2>1. ASSUME NEW id \in DOMAIN D
        PROVE  marked[id] = "visiting" <=> \E k \in 1 .. n : p[k].id = id
    BY <1>1, <1>7 DEF MarkedAsFound, n
  <2>2. ASSUME NEW k \in 1 .. n, NEW e \in D[p[k].id] \ p[k].left
        PROVE  marked[e] = "visited" \/ (k < n /\ e = p[k + 1].id)
    <3>1. CASE e \in path[k].left
      BY <3>1, <2>2, <1>7
    <3>2. CASE e \notin path[k].left
      <4>1. marked[e] = "visited" \/ (k < n /\ e = path[k + 1].id)
        BY <3>2, <2>2, <1>1, <1>7 DEF MarkedAsFound, n
      <4>2. k < n => k + 1 \in 1 .. n
        BY <1>1
      <4> QED
        BY <4>1, <4>2, <1>7
    <3> QED
      BY <3>1, <3>2
  <2> QED
    BY <1>6, <2>1, <2>2 DEF MarkedAsFound
<1>10. SearchInv(D, p, marked)
  BY <1>1, <1>6, <1>8, <1>9 DEF SearchInv
<1> QED
  BY <1>10 DEF p, n

(* An id is left for good when all it depends on has been: it closes no     *)
(* cycle with them, as none of them depends on it.                          *)
LEMMA ReturnKeeps ==
  ASSUME NEW D, Simple(D), NEW path, NEW marked, SearchInv(D, path, marked), path # <<>>,
         path[Len(path)].left = {}
  PROVE  SearchInv(D, SubSeq(path, 1, Len(path) - 1),
                   [marked EXCEPT ![path[Len(path)].id] = "visited"])
<1> DEFINE n == Len(path)
           top == path[n].id
           p == SubSeq(path, 1, n - 1)
           m == [marked EXCEPT ![top] = "visited"]
<1>1. /\ path \in Seq(Frames(D)) /\ marked \in [DOMAIN D -> Marks] /\ n \in Nat /\ n > 0
      /\ Chained(D, path) /\ MarkedAsFound(D, path, marked)
      /\ Closed(D, marked) /\ Noncyclic(D, Left(D, marked))
  BY DEF SearchInv
<1>2. /\ p \in Seq(Frames(D)) /\ Len(p) = n - 1
      /\ \A k \in 1 .. n - 1 : p[k] = path[k]
  <2>1. n - 1 \in Nat /\ \A k \in 1 .. n - 1 : k \in 1 .. n /\ path[k] \in Frames(D)
    BY <1>1
  <2>2. p = [k \in 1 .. n - 1 |-> path[k]]
    BY <1>1
  <2> HIDE DEF p, n
  <2>3. p \in [1 .. n - 1 -> Frames(D)]
    BY <2>1, <2>2
  <2> QED
    BY <2>1, <2>2, <2>3
<1>3. n \in 1 .. n /\ n - 1 \in Nat /\ \A k \in 1 .. n - 1 : k \in 1 .. n /\ k + 1 \in 1 .. n /\ k # n
  BY <1>1
<1>4. \A k \in 1 .. n : path[k].id \in DOMAIN D /\ marked[path[k].id] = "visiting"
  <2>1. \A k \in 1 .. n : path[k] \in Frames(D)
    BY <1>1
  <2>2. \A k \in 1 .. n : path[k].id \in DOMAIN D
    BY <2>1 DEF Frames
  <2> QED
    BY <2>2, <1>1 DEF MarkedAsFound
<1> HIDE DEF p, n
<1>5. top \in DOMAIN D /\ marked[top] = "visiting" /\ path[n].left = {}
  BY <1>3, <1>4 DEF n
<1>6. /\ m \in [DOMAIN D -> Marks] /\ m[top] = "visited"
      /\ \A id \in DOMAIN D : id # top => m[id] = marked[id]
      /\ Left(D, m) = Left(D, marked) \cup {top}
      /\ top \notin Left(D, marked) /\ Left(D, marked) \subseteq DOMAIN D
  BY <1>1, <1>5 DEF Marks, Left
<1>7. D[top] \subseteq Left(D, marked) /\ D[top] \subseteq DOMAIN D /\ top \notin D[top]
  <2>1. D[top] \subseteq DOMAIN D /\ top \notin D[top]
    BY <1>5 DEF Simple
  <2>2. ~(n < n)
    BY <1>1
  <2>3. \A e \in D[top] \ path[n].left : marked[e] = "visited"
    BY <2>2, <1>1, <1>3 DEF MarkedAsFound, n
  <2> QED
    BY <2>1, <2>3, <1>5 DEF Left
<1> HIDE DEF m, top
<1>8. Chained(D, p)
  <2>1. \A k \in 1 .. (n - 1) - 1 : k \in 1 .. n - 1 /\ k + 1 \in 1 .. n - 1
    BY <1>1
  <2>2. /\ \A k \in 1 .. n : path[k].left \subseteq D[path[k].id]
        /\ \A k \in 1 .. n - 1 : path[k + 1].id \in D[path[k].id]
        /\ \A j, k \in 1 .. n : path[j].id = path[k].id => j = k
    BY <1>1 DEF Chained, n
  <2>3. \A k \in 1 .. n - 1 : p[k].left \subseteq D[p[k].id]
    BY <2>2, <1>2, <1>3
  <2>4. \A k \in 1 .. (n - 1) - 1 : p[k + 1].id \in D[p[k].id]
    BY <2>1, <2>2, <1>2
  <2>5. \A j, k \in 1 .. n - 1 : p[j].id = p[k].id => j = k
    BY <2>2, <1>2, <1>3
  <2> QED
    BY <2>3, <2>4, <2>5, <1>2 DEF Chained
<1>9. MarkedAsFound(D, p, m)
  <2>1. ASSUME NEW id \in DOMAIN D
        PROVE  m[id] = "visiting" <=> \E k \in 1 .. n - 1 : p[k].id = id
    <3>1. CASE id = top
      <4>1. ~\E k \in 1 .. n - 1 : path[k].id = top
        BY <1>1, <1>3 DEF Chained, n, top
      <4> QED
        BY <3>1, <4>1, <1>2, <1>6
    <3>2. CASE id # top
      <4>1. m[id] = "visiting" <=> \E k \in 1 .. n : path[k].id = id
        BY <3>2, <1>1, <1>6 DEF MarkedAsFound, n
      <4>2. \A k \in 1 .. n : path[k].id = id => k # n
        BY <3>2 DEF top
      <4>3. \A k \in 1 .. n : k # n => k \in 1 .. n - 1
        BY <1>1
      <4> QED
        BY <4>1, <4>2, <4>3, <1>2, <1>3
    <3> QED
      BY <3>1, <3>2
  <2>2. ASSUME NEW k \in 1 .. n - 1, NEW e \in D[p[k].id] \ p[k].left
        PROVE  m[e] = "visited" \/ (k < n - 1 /\ e = p[k + 1].id)
    <3>1. /\ k \in 1 .. n /\ e \in D[path[k].id] /\ e \notin path[k].left /\ e \in DOMAIN D
      BY <2>2, <1>2, <1>3, <1>4 DEF Simple
    <3>2. marked[e] = "visited" \/ e = path[k + 1].id
      BY <3>1, <1>1 DEF MarkedAsFound, n
    <3>3. CASE e = top
      BY <3>3, <1>6
    <3>4. CASE e # top /\ marked[e] = "visited"
      BY <3>1, <3>4, <1>6
    <3>5. CASE e # top /\ e = path[k + 1].id
      <4>1. k + 1 # n
        BY <3>5 DEF top
      <4>2. k < n - 1 /\ k + 1 \in 1 .. n - 1
        BY <4>1, <1>1
      <4> QED
        BY <4>2, <3>5, <1>2
    <3> QED
      BY <3>2, <3>3, <3>4, <3>5
  <2> QED
    BY <1>2, <2>1, <2>2 DEF MarkedAsFound
<1>10. Closed(D, m)
  <2> SUFFICES ASSUME NEW id \in Left(D, m) PROVE D[id] \subseteq Left(D, m)
    BY DEF Closed
  <2>1. CASE id = top
    BY <2>1, <1>6, <1>7
  <2>2. CASE id # top
    BY <2>2, <1>1, <1>6 DEF Closed
  <2> QED
    BY <2>1, <2>2
<1>11. Noncyclic(D, Left(D, m))
  <2> SUFFICES ASSUME NEW S \in SUBSET Left(D, m), S # {} PROVE \E t \in S : D[t] \cap S = {}
    BY DEF Noncyclic
  <2>1. CASE S = {top}
    BY <2>1, <1>7
  <2>2. CASE S # {top}
    <3>1. S \ {top} \in SUBSET Left(D, marked) /\ S \ {top} # {}
      BY <2>2, <1>6
    <3>2. PICK t \in S \ {top} : D[t] \cap (S \ {top}) = {}
      BY <3>1, <1>1 DEF Noncyclic
    <3>3. top \notin D[t]
      BY <3>1, <1>1, <1>6 DEF Closed
    <3> QED
      BY <3>2, <3>3
  <2> QED
    BY <2>1, <2>2
<1>12. SearchInv(D, p, m)
  BY <1>2, <1>6, <1>8, <1>9, <1>10, <1>11 DEF SearchInv
<1> QED
  BY <1>12 DEF p, m, top, n

(* A dependency that is being visited closes a cycle with the path from it. *)
LEMMA MetOnPathIsCycle ==
  ASSUME NEW D, Simple(D), NEW path, NEW marked, SearchInv(D, path, marked), path # <<>>,
         NEW d \in path[Len(path)].left, marked[d] = "visiting"
  PROVE  ~Noncyclic(D, DOMAIN D)
<1> DEFINE n == Len(path)
<1>1. /\ path \in Seq(Frames(D)) /\ n \in Nat /\ n > 0
      /\ Chained(D, path) /\ MarkedAsFound(D, path, marked)
  BY DEF SearchInv
<1>2. \A k \in 1 .. n : path[k] \in Frames(D)
  BY <1>1
<1>3. n \in 1 .. n /\ \A k \in 1 .. n : path[k].id \in DOMAIN D
  BY <1>1, <1>2 DEF Frames
<1>4. d \in DOMAIN D /\ d \in D[path[n].id]
  BY <1>1, <1>2, <1>3 DEF Frames, Chained
<1>5. PICK j \in 1 .. n : path[j].id = d
  BY <1>1, <1>4 DEF MarkedAsFound
<1> HIDE DEF n
<1> DEFINE S == {path[k].id : k \in j .. n}
<1>6. \A k \in j .. n : k \in 1 .. n
  BY <1>1, <1>5
<1>7. S \in SUBSET DOMAIN D /\ d \in S
  BY <1>1, <1>3, <1>5, <1>6
<1>8. ASSUME NEW t \in S PROVE D[t] \cap S # {}
  <2>1. PICK k \in j .. n : t = path[k].id
    OBVIOUS
  <2>2. CASE k = n
    BY <2>1, <2>2, <1>4, <1>7
  <2>3. CASE k # n
    <3>1. k \in 1 .. n - 1 /\ k + 1 \in j .. n
      BY <2>3, <1>1, <1>5
    <3>2. path[k + 1].id \in D[t]
      BY <3>1, <2>1, <1>1 DEF Chained, n
    <3> QED
      BY <3>1, <3>2
  <2> QED
    BY <2>2, <2>3
<1> HIDE DEF S
<1> QED
  BY <1>7, <1>8 DEF Noncyclic

(* When nothing is left to visit, there is no cycle.                        *)
LEMMA AllLeftIsNoncyclic ==
  ASSUME NEW D, NEW marked, SearchInv(D, <<>>, marked),
         \A id \in DOMAIN D : marked[id] # "unmarked"
  PROVE  Noncyclic(D, DOMAIN D)
<1>1. Len(<<>>) = 0 /\ ~\E k \in 1 .. 0 : TRUE
  OBVIOUS
<1>2. \A id \in DOMAIN D : marked[id] \in Marks /\ marked[id] # "visiting"
  BY <1>1 DEF SearchInv, MarkedAsFound
<1>3. Left(D, marked) = DOMAIN D
  BY <1>2 DEF Marks, Left
<1> QED
  BY <1>3 DEF SearchInv

LEMMA DependenciesAreSimple ==
  ASSUME NEW tasks
  PROVE  Simple(Dependencies(tasks)) /\ DOMAIN Dependencies(tasks) = Ids(tasks)
BY DEF Simple, Dependencies

(* Ids are all different when there are as many as tasks.                   *)
LEMMA DuplicatedIsFewer ==
  ASSUME NEW tasks \in Seq(AnyTask)
  PROVE  Duplicated(tasks) <=> Cardinality(Ids(tasks)) # Len(tasks)
<1> DEFINE f == [i \in DOMAIN tasks |-> tasks[i].id]
<1>1. IsFiniteSet(DOMAIN tasks) /\ Cardinality(DOMAIN tasks) = Len(tasks)
  <2>1. DOMAIN tasks = 1 .. Len(tasks) /\ Len(tasks) \in Nat
    OBVIOUS
  <2>2. IsFiniteSet(1 .. Len(tasks)) /\ Cardinality(1 .. Len(tasks)) = Len(tasks)
    <3>1. 1 \in Int /\ Len(tasks) \in Int
      BY <2>1
    <3>2. /\ IsFiniteSet(1 .. Len(tasks))
          /\ Cardinality(1 .. Len(tasks)) = IF 1 > Len(tasks) THEN 0 ELSE Len(tasks) - 1 + 1
      BY <3>1, FS_Interval
    <3> QED
      BY <2>1, <3>2
  <2> QED
    BY <2>1, <2>2
<1>2. f \in Surjection(DOMAIN tasks, Ids(tasks))
  BY DEF Surjection, Ids
<1>3. Cardinality(Ids(tasks)) = Cardinality(DOMAIN tasks) <=> f \in Injection(DOMAIN tasks, Ids(tasks))
  BY <1>1, <1>2, FS_Surjection
<1>4. f \in Injection(DOMAIN tasks, Ids(tasks)) <=> ~Duplicated(tasks)
  BY <1>2 DEF Injection, Surjection, IsInjective, Duplicated
<1> QED
  BY <1>1, <1>3, <1>4

LEMMA SoundGraphIs ==
  ASSUME NEW tasks
  PROVE  SoundGraph(tasks) <=>
           /\ Cardinality(Ids(tasks)) = Len(tasks)
           /\ \A id \in Ids(tasks) : ~Blank(id) /\ NeedsOf(tasks)[id] \subseteq Ids(tasks)
           /\ Noncyclic(NeedsOf(tasks), Ids(tasks))
BY DEF SoundGraph, Graph!Acyclic, Noncyclic

ConcurrencyIsUsable == request.concurrency = None \/ request.concurrency > 0

SearchOk ==
  \/ marks = None /\ frames = <<>>
  \/ Validating /\ SearchInv(Dependencies(Searched), frames, marks)

(* A request that passes is a sound graph: the search found no cycle        *)
(* because there is none.                                                   *)
LEMMA PassedIsSound ==
  ASSUME request \in AnyRequest, SearchOk, Validated, ~HasIssue
  PROVE  SoundGraph(Searched) /\ ConcurrencyIsUsable
<1> DEFINE D == Dependencies(Searched)
           needs == NeedsOf(Searched)
<1>1. request.tasks \in Seq(AnyTask) /\ (request.concurrency = None \/ request.concurrency \in Int)
  BY DEF AnyRequest
<1>2. Searched \in Seq(AnyTask)
  BY <1>1, NormalTwice DEF Searched
<1>3. Cardinality(Ids(Searched)) = Len(Searched)
  BY <1>2, DuplicatedIsFewer DEF HasIssue
<1>4. ASSUME NEW id \in Ids(Searched)
      PROVE  ~Blank(id) /\ needs[id] \subseteq Ids(Searched) /\ needs[id] = D[id]
  <2>1. PICK i \in DOMAIN Searched : Searched[i].id = id
    BY DEF Ids
  <2>2. ~Blank(id)
    BY <2>1 DEF HasIssue
  <2>3. needs[id] = UNION {Range(Searched[j].needs) : j \in {k \in DOMAIN Searched : Searched[k].id = id}}
    BY DEF NeedsOf
  <2>4. \A d \in needs[id] : ~Blank(d) /\ d # id /\ d \in Ids(Searched)
    BY <2>3 DEF HasIssue
  <2>5. D[id] = {d \in needs[id] : d # id /\ d \in Ids(Searched) /\ ~Blank(d)}
    BY DEF Dependencies
  <2> QED
    BY <2>2, <2>4, <2>5
<1>5. Noncyclic(D, Ids(Searched))
  <2>1. marks # None /\ frames = <<>> /\ \A id \in Ids(Searched) : marks[id] # "unmarked"
    BY DEF Validated, HasIssue, NothingLeft, Roots
  <2>2. SearchInv(D, <<>>, marks) /\ DOMAIN D = Ids(Searched)
    BY <2>1, DependenciesAreSimple DEF SearchOk
  <2> HIDE DEF D
  <2> QED
    BY <2>1, <2>2, AllLeftIsNoncyclic
<1>6. Noncyclic(needs, Ids(Searched))
  <2> SUFFICES ASSUME NEW S \in SUBSET Ids(Searched), S # {} PROVE \E t \in S : needs[t] \cap S = {}
    BY DEF Noncyclic
  <2>1. PICK t \in S : D[t] \cap S = {}
    BY <1>5 DEF Noncyclic
  <2>2. needs[t] = D[t]
    BY <1>4
  <2> QED
    BY <2>1, <2>2
<1>7. ConcurrencyIsUsable
  BY <1>1 DEF ConcurrencyIsUsable, HasIssue
<1> QED
  BY <1>3, <1>4, <1>6, <1>7, SoundGraphIs

(* And one that is rejected has a problem that trimming does not cure.      *)
LEMMA RejectedIsNot ==
  ASSUME request \in AnyRequest, SearchOk, HasIssue
  PROVE  ~SoundGraph(Searched) \/ ~ConcurrencyIsUsable
<1> SUFFICES ASSUME SoundGraph(Searched), ConcurrencyIsUsable PROVE FALSE
  OBVIOUS
<1> DEFINE D == Dependencies(Searched)
           needs == NeedsOf(Searched)
<1>1. request.tasks \in Seq(AnyTask) /\ (request.concurrency = None \/ request.concurrency \in Int)
  BY DEF AnyRequest
<1>2. Searched \in Seq(AnyTask)
  BY <1>1, NormalTwice DEF Searched
<1>3. /\ Cardinality(Ids(Searched)) = Len(Searched)
      /\ \A id \in Ids(Searched) : ~Blank(id) /\ needs[id] \subseteq Ids(Searched)
      /\ Noncyclic(needs, Ids(Searched))
  BY SoundGraphIs
<1>4. ~Duplicated(Searched)
  BY <1>2, <1>3, DuplicatedIsFewer
<1>5. ~(request.concurrency # None /\ request.concurrency <= 0)
  BY <1>1 DEF ConcurrencyIsUsable
<1>6. ASSUME NEW id \in Ids(Searched)
      PROVE  id \notin needs[id]
  <2>1. {id} \in SUBSET Ids(Searched) /\ {id} # {}
    OBVIOUS
  <2>2. PICK t \in {id} : needs[t] \cap {id} = {}
    BY <2>1, <1>3 DEF Noncyclic
  <2> QED
    BY <2>2
<1>7. ASSUME NEW i \in DOMAIN Searched
      PROVE  /\ ~Blank(Searched[i].id)
             /\ \A d \in Range(Searched[i].needs) :
                  ~Blank(d) /\ d # Searched[i].id /\ d \in Ids(Searched)
  <2>1. Searched[i].id \in Ids(Searched)
    BY DEF Ids
  <2>2. Range(Searched[i].needs) \subseteq needs[Searched[i].id]
    BY <2>1 DEF NeedsOf
  <2> QED
    BY <2>1, <2>2, <1>3, <1>6
<1>8. CycleFound
  BY <1>4, <1>5, <1>7 DEF HasIssue
<1>9. PICK d \in frames[Len(frames)].left : frames # <<>> /\ marks[d] = "visiting"
  BY <1>8 DEF CycleFound, Top
<1>10. SearchInv(D, frames, marks) /\ Simple(D) /\ DOMAIN D = Ids(Searched)
  BY <1>9, DependenciesAreSimple DEF SearchOk
<1>11. \A id \in Ids(Searched) : D[id] \subseteq needs[id]
  BY DEF Dependencies
<1> HIDE DEF D
<1>12. ~Noncyclic(D, Ids(Searched))
  BY <1>9, <1>10, MetOnPathIsCycle
<1>13. PICK S \in SUBSET Ids(Searched) : S # {} /\ \A t \in S : D[t] \cap S # {}
  BY <1>12 DEF Noncyclic
<1>14. \A t \in S : needs[t] \cap S # {}
  BY <1>11, <1>13
<1> HIDE DEF needs
<1> QED
  BY <1>3, <1>13, <1>14 DEF Noncyclic

PayloadsRun(tasks) == \A i \in DOMAIN tasks : PayloadRuns(tasks[i].payload)

AdmissionInv ==
  /\ request \in AnyRequest /\ SearchOk
  /\ stage \in {"submitted", "parsed", "bounded", "normalized", "accepted", "created",
                "scheduled", "running", "refused", "rejected"}
  /\ stage \in {"bounded", "normalized", "accepted", "created", "scheduled", "running"} =>
       request.concurrency = None \/ request.concurrency <= MaxConcurrency
  /\ stage \in {"normalized", "accepted", "created", "scheduled", "running"} =>
       /\ NormalTasks(request.tasks) = request.tasks
       /\ SoundGraph(request.tasks) /\ ConcurrencyIsUsable
  /\ stage \in {"accepted", "created", "scheduled", "running"} => PayloadsRun(request.tasks)
  /\ stage = "rejected" => ~SoundGraph(NormalTasks(request.tasks)) \/ ~ConcurrencyIsUsable

LEMMA AdmissionStarts == AdmissionInit => AdmissionInv
BY RequestsAssumption
   DEF RequestsAssumption, AdmissionInit, AdmissionInv, AnyRequest, AnyTask, SearchOk

LEMMA SearchKeeps ==
  ASSUME AdmissionInv, Search
  PROVE  AdmissionInv'
<1> DEFINE D == Dependencies(Searched)
<1>1. UNCHANGED <<request, stage>>
  BY DEF Search, FindCycle, VisitRoot, LookAtNext, Return
<1>2. /\ Searched' = Searched /\ Dependencies(Searched)' = D
      /\ Validating' = Validating /\ ConcurrencyIsUsable' = ConcurrencyIsUsable
  BY <1>1 DEF Searched, Validating, ConcurrencyIsUsable, Dependencies, NeedsOf, Ids
<1>3. Simple(D) /\ DOMAIN D = Ids(Searched)
  BY DependenciesAreSimple
<1>4. marks # None \/ frames # <<>> => Validating /\ SearchInv(D, frames, marks)
  BY DEF AdmissionInv, SearchOk
<1> HIDE DEF D
<1>5. Validating /\ SearchInv(D, frames', marks')
  <2>1. CASE FindCycle
    <3>1. Validating /\ frames' = <<>> /\ marks' = [id \in DOMAIN D |-> "unmarked"]
      BY <2>1, <1>3 DEF FindCycle
    <3> QED
      BY <3>1, SearchStarts
  <2>2. CASE VisitRoot
    <3>1. PICK id \in Roots(Searched) :
            /\ marks # None /\ frames = <<>> /\ marks[id] = "unmarked"
            /\ frames' = Append(<<>>, [id |-> id, left |-> D[id]])
            /\ marks' = [marks EXCEPT ![id] = "visiting"]
      BY <2>2 DEF VisitRoot, Visit, D
    <3>2. id \in DOMAIN D
      BY <1>3 DEF Roots
    <3> QED
      BY <3>1, <3>2, <1>3, <1>4, VisitKeeps
  <2>3. CASE LookAtNext
    <3> DEFINE rest(d) == [frames EXCEPT ![Len(frames)].left = @ \ {d}]
    <3>1. PICK d \in frames[Len(frames)].left :
            /\ frames # <<>>
            /\ \/ /\ marks[d] = "unmarked"
                  /\ frames' = Append(rest(d), [id |-> d, left |-> D[d]])
                  /\ marks' = [marks EXCEPT ![d] = "visiting"]
               \/ marks[d] = "visited" /\ frames' = rest(d) /\ marks' = marks
      BY <2>3 DEF LookAtNext, Visit, Top, D
    <3>2. Validating /\ SearchInv(D, frames, marks)
      BY <3>1, <1>4
    <3>3. d \in DOMAIN D
      <4>1. frames[Len(frames)] \in Frames(D)
        BY <3>1, <3>2 DEF SearchInv
      <4> QED
        BY <4>1, <3>1 DEF Frames
    <3>4. CASE marks[d] = "unmarked"
      <4>1. /\ frames' = Append(rest(d), [id |-> d, left |-> D[d]])
            /\ marks' = [marks EXCEPT ![d] = "visiting"]
        BY <3>1, <3>4
      <4> QED
        BY <4>1, <3>1, <3>2, <3>3, <3>4, <1>3, VisitKeeps
    <3>5. CASE marks[d] = "visited"
      <4>1. frames' = rest(d) /\ marks' = marks
        BY <3>1, <3>5
      <4> QED
        BY <4>1, <3>1, <3>2, <3>5, <1>3, LookKeeps
    <3> QED
      BY <3>1, <3>4, <3>5
  <2>4. CASE Return
    <3>1. /\ frames # <<>> /\ frames[Len(frames)].left = {}
          /\ frames' = SubSeq(frames, 1, Len(frames) - 1)
          /\ marks' = [marks EXCEPT ![frames[Len(frames)].id] = "visited"]
      BY <2>4 DEF Return, Top
    <3> QED
      BY <3>1, <1>3, <1>4, ReturnKeeps
  <2> QED
    BY <2>1, <2>2, <2>3, <2>4 DEF Search
<1>6. SearchOk'
  BY <1>2, <1>5 DEF SearchOk
<1> QED
  BY <1>1, <1>2, <1>6 DEF AdmissionInv, PayloadsRun

LEMMA LayersKeep ==
  ASSUME AdmissionInv,
         Parse \/ CheckBounds \/ Normalize \/ CheckPayloads \/ CreateRun \/ ReadManifest
  PROVE  AdmissionInv'
<1>1. SearchOk'
  BY DEF Parse, CheckBounds, Normalize, CheckPayloads, CreateRun, ReadManifest, Layer, SearchOk
<1>2. request \in AnyRequest /\ SearchOk /\ request.tasks \in Seq(AnyTask)
  BY DEF AdmissionInv, AnyRequest
<1>3. /\ Searched = NormalTasks(request.tasks) /\ Searched \in Seq(AnyTask)
      /\ NormalTasks(Searched) = Searched
  BY <1>2, NormalTwice DEF Searched
<1>4. /\ Normalized \in AnyRequest /\ Normalized.tasks = Searched
      /\ Normalized.concurrency = request.concurrency
  <2>1. Normalized = [request EXCEPT !.tasks = Searched]
    BY DEF Normalized, Searched
  <2>2. \A s \in Seq(AnyTask) : /\ [request EXCEPT !.tasks = s] \in AnyRequest
                                /\ [request EXCEPT !.tasks = s].tasks = s
                                /\ [request EXCEPT !.tasks = s].concurrency = request.concurrency
    BY <1>2 DEF AnyRequest
  <2> QED
    BY <2>1, <2>2, <1>3
<1>5. CASE Parse
  BY <1>1, <1>2, <1>5 DEF AdmissionInv, Parse, Layer
<1>6. CASE CheckBounds
  BY <1>1, <1>2, <1>6 DEF AdmissionInv, CheckBounds, Layer, WithinBounds
<1>7. CASE Normalize
  <2>1. stage = "bounded" /\ Validated
    BY <1>7 DEF Normalize, Layer
  <2>2. CASE HasIssue
    <3>1. stage' = "rejected" /\ request' = request
      BY <1>7, <2>2 DEF Normalize, Layer
    <3>2. ~SoundGraph(Searched) \/ ~ConcurrencyIsUsable
      BY <1>2, <2>2, RejectedIsNot
    <3> QED
      BY <3>1, <3>2, <1>1, <1>2, <1>3 DEF AdmissionInv, ConcurrencyIsUsable
  <2>3. CASE ~HasIssue
    <3>1. stage' = "normalized" /\ request' = Normalized
      BY <1>7, <2>3 DEF Normalize, Layer
    <3>2. SoundGraph(Searched) /\ ConcurrencyIsUsable
      BY <1>2, <2>1, <2>3, PassedIsSound
    <3>3. ConcurrencyIsUsable'
      BY <3>1, <3>2, <1>4 DEF ConcurrencyIsUsable
    <3> QED
      BY <3>1, <3>2, <3>3, <2>1, <1>1, <1>3, <1>4 DEF AdmissionInv
  <2> QED
    BY <2>2, <2>3
<1>8. CASE CheckPayloads
  BY <1>1, <1>2, <1>8 DEF AdmissionInv, CheckPayloads, Layer, PayloadsRun, ConcurrencyIsUsable
<1>9. CASE CreateRun
  <2>1. /\ stage = "accepted"
        /\ \/ stage' = "refused" /\ request' = request
           \/ stage' = "created" /\ request' = Normalized
    BY <1>9 DEF CreateRun, Layer
  <2>2. /\ Searched = request.tasks /\ SoundGraph(Searched) /\ ConcurrencyIsUsable
        /\ PayloadsRun(Searched)
        /\ request.concurrency = None \/ request.concurrency <= MaxConcurrency
    BY <2>1, <1>3 DEF AdmissionInv
  <2>3. request' \in AnyRequest /\ request'.tasks = Searched /\ request'.concurrency = request.concurrency
    BY <2>1, <2>2, <1>2, <1>4
  <2>4. ConcurrencyIsUsable'
    BY <2>2, <2>3 DEF ConcurrencyIsUsable
  <2> QED
    BY <2>1, <2>2, <2>3, <2>4, <1>1, <1>3 DEF AdmissionInv
<1>10. CASE ReadManifest
  <2>1. stage = "created"
    BY <1>10 DEF ReadManifest, Layer
  <2>2. /\ Searched = request.tasks /\ SoundGraph(Searched) /\ ConcurrencyIsUsable
        /\ PayloadsRun(Searched)
        /\ request.concurrency = None \/ request.concurrency <= MaxConcurrency
    BY <2>1, <1>3 DEF AdmissionInv
  <2>3. ~HasIssue
    BY <2>2, <1>2, RejectedIsNot
  <2>4. stage' = "scheduled" /\ request' = Normalized
    BY <1>10, <2>2, <2>3, <1>4 DEF ReadManifest, Layer
  <2>5. ConcurrencyIsUsable'
    BY <2>2, <2>4, <1>4 DEF ConcurrencyIsUsable
  <2> QED
    BY <2>2, <2>4, <2>5, <1>1, <1>3, <1>4 DEF AdmissionInv
<1> QED
  BY <1>5, <1>6, <1>7, <1>8, <1>9, <1>10

(* A graph is scheduled only if it is one RunGraph can finish, and rejected *)
(* only if it is not (findCycle finds a cycle exactly if there is one). The *)
(* layers agree: what a run was created of can be read back                 *)
(* (validateManifest), for any graphs and payloads.                         *)
THEOREM AdmittedRuns == AdmissionSpec => []AdmittedIsRunnable
<1>1. AdmissionInv /\ [Admit \/ Run]_admission => AdmissionInv'
  <2> SUFFICES ASSUME AdmissionInv, [Admit \/ Run]_admission PROVE AdmissionInv'
    OBVIOUS
  <2>1. CASE UNCHANGED admission
    BY <2>1 DEF admission, AdmissionInv, SearchOk, Searched, Validating, ConcurrencyIsUsable
  <2>2. CASE Run
    <3>1. SearchOk'
      BY <2>2 DEF AdmissionInv, SearchOk, Validating, Run
    <3> QED
      BY <2>2, <3>1 DEF AdmissionInv, Run, ConcurrencyIsUsable
  <2> QED
    BY <2>1, <2>2, SearchKeeps, LayersKeep DEF Admit
<1>2. AdmissionInv => AdmittedIsRunnable
  <2> SUFFICES ASSUME AdmissionInv PROVE AdmittedIsRunnable
    OBVIOUS
  <2>1. request \in AnyRequest
    BY DEF AdmissionInv
  <2>2. request.concurrency = None \/ request.concurrency \in Int
    BY <2>1 DEF AnyRequest
  <2>3. MaxConcurrency \in Nat /\ MaxRounds \in Nat
    BY RequestsAssumption DEF RequestsAssumption
  <2>4. stage # "unreadable"
    BY DEF AdmissionInv
  <2>5. ASSUME stage = "rejected"
        PROVE  \/ ~SoundGraph(NormalTasks(request.tasks))
               \/ request.concurrency # None /\ request.concurrency <= 0
    BY <2>2, <2>5 DEF AdmissionInv, ConcurrencyIsUsable
  <2>6. ASSUME stage \in {"scheduled", "running"}
        PROVE  /\ SoundGraph(request.tasks)
               /\ request.concurrency = None \/ request.concurrency \in 1..MaxConcurrency
    BY <2>2, <2>3, <2>6 DEF AdmissionInv, ConcurrencyIsUsable
  <2>7. ASSUME stage \in {"scheduled", "running"}, NEW i \in DOMAIN request.tasks
        PROVE  LET payload == request.tasks[i].payload
               IN  /\ payload.profile \in Profiles
                   /\ payload.review # None =>
                        payload.review.profile \in Profiles /\ payload.review.rounds >= 1
    <3>1. PayloadRuns(request.tasks[i].payload)
      BY <2>7 DEF AdmissionInv, PayloadsRun
    <3> QED
      BY <3>1, <2>3 DEF PayloadRuns, PayloadParses, ReviewParses, ProfilesKnown
  <2> QED
    BY <2>4, <2>5, <2>6, <2>7 DEF AdmittedIsRunnable
<1> QED
  BY <1>1, <1>2, AdmissionStarts, PTL DEF AdmissionSpec
=============================================================================
