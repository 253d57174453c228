--------------------------- MODULE RunReaderProofs ---------------------------
(****************************************************************************)
(* Proofs about the task-graph domain, the records of a run and those who   *)
(* read them, for every graph: any set of tasks, any acyclic Needs.         *)
(*                                                                          *)
(* What settleBlocked and readyFrontier return comes first; the proofs      *)
(* about runs rest on it. Then the theorems of NodeLifecycle. A reader is   *)
(* right because of what the records never take back (RecordInv: an output  *)
(* stays, with the artifact it claims, and a state it justifies agrees with *)
(* it), so that what a call saw earlier still bears on what it sees later   *)
(* (SawInv). Last, StoredRun implements both of its halves.                 *)
(****************************************************************************)
EXTENDS StoredRun, TLAPS

-----------------------------------------------------------------------------
(* The task graph.                                                          *)

(* settleBlocked reaches its fixpoint: no task it leaves pending has a      *)
(* prerequisite that failed, was aborted or is blocked.                     *)
LEMMA SettledHasNoBlockingNeed ==
  ASSUME NEW state \in GraphStates, NEW t \in Tasks,
         SettleBlocked(state)[t] = "pending"
  PROVE  ~HasBlockingNeed(SettleBlocked(state), t)
<1>1. t \in Pending(state) /\ t \notin Doomed(state)
  BY DEF SettleBlocked, Doomed, Pending
<1>2. PICK B \in SUBSET Pending(state) : Absorbs(state, B) /\ t \notin B
  BY <1>1 DEF Doomed
<1>3. Doomed(state) \subseteq B
  BY <1>2 DEF Doomed
<1>4. ~HasBlockingNeed(state, t) /\ Needs[t] \cap B = {}
  BY <1>1, <1>2 DEF Absorbs
<1>5. ASSUME NEW d \in Needs[t]
      PROVE  SettleBlocked(state)[d] \notin Blocking
  <2>1. d \in Tasks
    BY GraphAssumption
  <2>2. d \notin Doomed(state)
    BY <1>3, <1>4
  <2>3. SettleBlocked(state)[d] = state[d]
    BY <2>1, <2>2 DEF SettleBlocked
  <2> QED
    BY <2>3, <1>4 DEF HasBlockingNeed
<1> QED
  BY <1>5 DEF HasBlockingNeed

(* A settled state is a graph state.                                        *)
LEMMA SettleBlockedType ==
  ASSUME NEW state \in GraphStates
  PROVE  SettleBlocked(state) \in GraphStates
BY DEF SettleBlocked, GraphStates, Statuses, Terminal

(* The scheduler never runs out of work it may do: in a settled state with  *)
(* nothing running, an incomplete graph has a ready task. It is what makes  *)
(* "Graph made no scheduling progress" and "no abortable frontier" in       *)
(* run.ts unreachable, and it is where acyclicity is used.                  *)
LEMMA FrontierOfSettled ==
  ASSUME NEW state \in GraphStates,
         \A t \in Tasks : SettleBlocked(state)[t] # "running",
         ~IsGraphComplete(SettleBlocked(state))
  PROVE  ReadyFrontier(SettleBlocked(state)) # {}
<1> DEFINE settled == SettleBlocked(state)
           S == Pending(settled)
<1>1. settled \in GraphStates
  BY SettleBlockedType
<1>2. S # {} /\ S \in SUBSET Tasks
  BY <1>1 DEF IsGraphComplete, Pending, GraphStates, Statuses
<1>3. PICK t \in S : Needs[t] \cap S = {}
  BY <1>2, GraphAssumption DEF Acyclic
<1>4. t \in Tasks /\ settled[t] = "pending"
  BY <1>3 DEF Pending
<1>5. ~HasBlockingNeed(settled, t)
  BY <1>4, SettledHasNoBlockingNeed
<1>6. ASSUME NEW d \in Needs[t]
      PROVE  settled[d] = "succeeded"
  <2>1. d \in Tasks
    BY <1>4, GraphAssumption
  <2>2. settled[d] \notin Blocking
    BY <1>5 DEF HasBlockingNeed
  <2>3. settled[d] # "pending"
    BY <1>3, <2>1 DEF Pending
  <2> QED
    BY <2>1, <2>2, <2>3, <1>1 DEF GraphStates, Statuses, Terminal, Blocking
<1> QED
  BY <1>4, <1>6 DEF ReadyFrontier, NeedsSucceeded

(* A graph with nothing to settle is its own settlement.                    *)
LEMMA NothingDoomed ==
  ASSUME NEW state \in GraphStates, Doomed(state) = {}
  PROVE  SettleBlocked(state) = state
BY DEF SettleBlocked, GraphStates

(* Settling makes no task ready.                                            *)
LEMMA SettlingReadiesNothing ==
  ASSUME NEW state \in GraphStates
  PROVE  ReadyFrontier(SettleBlocked(state)) \subseteq ReadyFrontier(state)
<1> SUFFICES ASSUME NEW t \in ReadyFrontier(SettleBlocked(state))
             PROVE  t \in ReadyFrontier(state)
  OBVIOUS
<1>1. t \in Tasks /\ Needs[t] \in SUBSET Tasks
  BY GraphAssumption DEF ReadyFrontier
<1> QED
  BY <1>1 DEF ReadyFrontier, NeedsSucceeded, SettleBlocked

(* Blocking one doomed task dooms exactly the others that were doomed.      *)
LEMMA BlockKeepsOthersDoomed ==
  ASSUME NEW state \in GraphStates, NEW t \in Doomed(state)
  PROVE  Doomed(SetNodeStatus(state, t, "blocked")) = Doomed(state) \ {t}
<1> DEFINE next == SetNodeStatus(state, t, "blocked")
<1>0. t \in Tasks /\ t \in Pending(state)
  BY DEF Doomed, Pending
<1>1. \A v \in Tasks : next[v] = IF v = t THEN "blocked" ELSE state[v]
  BY DEF SetNodeStatus, GraphStates
<1>2. Pending(next) = Pending(state) \ {t}
  BY <1>1 DEF Pending
<1>3. ASSUME NEW v \in Tasks
      PROVE  HasBlockingNeed(next, v) <=> HasBlockingNeed(state, v) \/ t \in Needs[v]
  <2>1. Needs[v] \in SUBSET Tasks /\ state[t] \notin Blocking
    BY <1>0, GraphAssumption DEF Pending, Blocking
  <2> QED
    BY <1>1, <2>1 DEF HasBlockingNeed, Blocking
<1> HIDE DEF next
<1>4. ASSUME NEW u \in Doomed(next)
      PROVE  u \in Doomed(state) \ {t}
  <2>0. u \in Pending(state) /\ u # t
    BY <1>2 DEF Doomed
  <2> SUFFICES ASSUME NEW B \in SUBSET Pending(state), Absorbs(state, B)
               PROVE  u \in B
    BY <2>0 DEF Doomed
  <2>1. t \in B
    BY DEF Doomed
  <2>2. Absorbs(next, B \ {t})
    BY <1>2, <1>3, <2>1 DEF Absorbs, Pending
  <2> QED
    BY <1>2, <2>2 DEF Doomed
<1>5. ASSUME NEW u \in Doomed(state) \ {t}
      PROVE  u \in Doomed(next)
  <2>1. u \in Pending(next)
    BY <1>2 DEF Doomed
  <2> SUFFICES ASSUME NEW B \in SUBSET Pending(next), Absorbs(next, B)
               PROVE  u \in B
    BY <2>1 DEF Doomed
  <2>2. Absorbs(state, B \cup {t})
    BY <1>2, <1>3 DEF Absorbs, Pending
  <2>3. B \cup {t} \in SUBSET Pending(state)
    BY <1>0, <1>2
  <2>4. u \in B \cup {t}
    BY <2>2, <2>3 DEF Doomed
  <2> QED
    BY <2>4
<1>6. Doomed(next) = Doomed(state) \ {t}
  BY <1>4, <1>5
<1> QED
  BY <1>6 DEF next

(* So the settlement stays the same while its records are written.          *)
LEMMA BlockKeepsSettlement ==
  ASSUME NEW state \in GraphStates, NEW t \in Doomed(state)
  PROVE  SettleBlocked(SetNodeStatus(state, t, "blocked")) = SettleBlocked(state)
<1>1. t \in Tasks
  BY DEF Doomed, Pending
<1>2. \A v \in Tasks :
        SetNodeStatus(state, t, "blocked")[v] = IF v = t THEN "blocked" ELSE state[v]
  BY DEF SetNodeStatus, GraphStates
<1>3. Doomed(SetNodeStatus(state, t, "blocked")) = Doomed(state) \ {t}
  BY BlockKeepsOthersDoomed
<1> QED
  BY <1>1, <1>2, <1>3 DEF SettleBlocked

-----------------------------------------------------------------------------
(* The node states of a run.                                                *)

(* The node-state records always hold one of the six statuses.              *)
THEOREM TypeCorrect == Spec => []TypeOK
<1>1. Init => TypeOK
  BY DEF Init, TypeOK, CreateInitialState, GraphStates, Statuses
<1>2. TypeOK /\ [Next]_status => TypeOK'
  BY DEF TypeOK, Next, Start, Settle, Block, GraphStates, Statuses, Terminal
<1> QED
  BY <1>1, <1>2, PTL DEF Spec

(* No dependent runs or succeeds before every prerequisite has succeeded.   *)
THEOREM NeverOvertakes == Spec => []NoOvertaking
<1>1. Init => NoOvertaking
  BY DEF Init, NoOvertaking, CreateInitialState
<1>2. TypeOK /\ NoOvertaking /\ [Next]_status => NoOvertaking'
  <2> SUFFICES ASSUME TypeOK, NoOvertaking, [Next]_status
               PROVE  NoOvertaking'
    OBVIOUS
  <2> USE GraphAssumption
  <2>1. CASE UNCHANGED status
    BY <2>1 DEF NoOvertaking
  <2>2. ASSUME NEW t \in Tasks, Start(t)
        PROVE  NoOvertaking'
    BY <2>2 DEF Start, NeedsSucceeded, NoOvertaking, TypeOK, GraphStates
  <2>3. ASSUME NEW t \in Tasks, NEW s, Settle(t, s)
        PROVE  NoOvertaking'
    <3>1. status[t] \in {"pending", "running"} /\ s # "running"
      BY <2>3 DEF Settle, AllowedTransitions, TypeOK, GraphStates
    <3>2. s = "succeeded" => status[t] = "running"
      BY <2>3, <3>1 DEF Settle, AllowedTransitions, Statuses
    <3> QED
      BY <2>3, <3>1, <3>2 DEF Settle, NoOvertaking, TypeOK, GraphStates
  <2>4. ASSUME NEW t \in Tasks, Block(t)
        PROVE  NoOvertaking'
    BY <2>4 DEF Block, Doomed, Pending, NoOvertaking, TypeOK, GraphStates
  <2> QED
    BY <2>1, <2>2, <2>3, <2>4 DEF Next
<1> QED
  BY <1>1, <1>2, TypeCorrect, PTL DEF Spec

(* Only the descendants of a failed or aborted task are ever blocked.       *)
THEOREM BlockedDescends == Spec => []BlockedHasCause
<1>1. Init => BlockedHasCause
  BY DEF Init, BlockedHasCause, CreateInitialState
<1>2. TypeOK /\ BlockedHasCause /\ [Next]_status => BlockedHasCause'
  <2> SUFFICES ASSUME TypeOK, BlockedHasCause, [Next]_status,
                      NEW B \in SUBSET Tasks,
                      \A t \in Tasks : status'[t] \in {"failed", "aborted"} => t \in B,
                      \A t \in Tasks : Needs[t] \cap B # {} => t \in B
               PROVE  \A t \in Tasks : status'[t] = "blocked" => t \in B
    BY DEF BlockedHasCause
  <2>0. ASSUME \A t \in Tasks : status[t] \in {"failed", "aborted"} => t \in B
        PROVE  \A t \in Tasks : status[t] = "blocked" => t \in B
    BY <2>0 DEF BlockedHasCause
  <2>1. CASE UNCHANGED status
    BY <2>0, <2>1
  <2>2. ASSUME NEW u \in Tasks, Start(u)
        PROVE  \A t \in Tasks : status'[t] = "blocked" => t \in B
    BY <2>0, <2>2 DEF Start, TypeOK, GraphStates
  <2>3. ASSUME NEW u \in Tasks, NEW s \in {"succeeded", "failed", "aborted"}, Settle(u, s)
        PROVE  \A t \in Tasks : status'[t] = "blocked" => t \in B
    <3>1. status[u] \in {"pending", "running"}
      BY <2>3 DEF Settle, AllowedTransitions, TypeOK, GraphStates
    <3> QED
      BY <2>0, <2>3, <3>1 DEF Settle, TypeOK, GraphStates
  <2>4. ASSUME NEW u \in Tasks, Block(u)
        PROVE  \A t \in Tasks : status'[t] = "blocked" => t \in B
    <3>1. \A t \in Tasks : t # u => status'[t] = status[t]
      BY <2>4 DEF Block, TypeOK, GraphStates
    <3>2. \A t \in Tasks : status[t] \in {"failed", "aborted"} => t \in B
      BY <3>1, <2>4 DEF Block, Doomed, Pending
    <3>3. \A t \in Tasks : status[t] = "blocked" => t \in B
      BY <3>2, <2>0
    <3>4. Absorbs(status, B \cap Pending(status))
      <4> SUFFICES ASSUME NEW t \in Pending(status),
                          HasBlockingNeed(status, t) \/ Needs[t] \cap (B \cap Pending(status)) # {}
                   PROVE  t \in B
        BY DEF Absorbs
      <4>1. t \in Tasks /\ Needs[t] \in SUBSET Tasks
        BY GraphAssumption DEF Pending
      <4> QED
        BY <4>1, <3>2, <3>3 DEF HasBlockingNeed, Blocking
    <3>5. u \in B
      BY <3>4, <2>4 DEF Block, Doomed
    <3> QED
      BY <3>1, <3>3, <3>5
  <2> QED
    BY <2>1, <2>2, <2>3, <2>4 DEF Next
<1> QED
  BY <1>1, <1>2, TypeCorrect, PTL DEF Spec

(* From any node states a run can reach, settling the blocked tasks leaves  *)
(* a graph that is complete, still running, or has a task to start.         *)
THEOREM NeverStalls == Spec => []SettledFrontierProgresses
<1>1. TypeOK => SettledFrontierProgresses
  BY FrontierOfSettled DEF TypeOK, SettledFrontierProgresses
<1> QED
  BY <1>1, TypeCorrect, PTL

(* An interrupted settlement is resumed, never changed: persisting one of   *)
(* its records leaves the settlement the next write computes as it was.     *)
THEOREM SettlementResumes == Spec => SettlementIsOrderFree
<1>1. ASSUME TypeOK, NEW t \in Tasks, Block(t)
      PROVE  SettleBlocked(status') = SettleBlocked(status)
  <2>1. status' = SetNodeStatus(status, t, "blocked") /\ t \in Doomed(status)
    BY <1>1 DEF Block, SetNodeStatus
  <2> QED
    BY <1>1, <2>1, BlockKeepsSettlement DEF TypeOK
<1>2. TypeOK => (\A t \in Tasks : Block(t) => SettleBlocked(status') = SettleBlocked(status))
  BY <1>1
<1> QED
  BY <1>2, TypeCorrect, PTL DEF SettlementIsOrderFree

-----------------------------------------------------------------------------
(* The records of a run, and what has been seen of them.                    *)

Found == {"unread", "none", "text"} \cup Statuses

(* An output is published once, with the artifact stored for it, and before *)
(* the state it justifies; a task that has one is neither started nor       *)
(* blocked.                                                                 *)
RecordInv ==
  /\ TypeOK
  /\ output \in [Tasks -> OutputStatuses \cup {"none"}]
  /\ stored \subseteq Tasks /\ claims \subseteq Tasks
  /\ \A t \in Tasks :
       /\ status[t] \in OutputStatuses => output[t] = status[t]
       /\ status[t] = "blocked" => output[t] = "none"
       /\ t \in stored /\ output[t] # "none" => t \in claims

(* What a call holds of the task it reads. Only a state that is not final   *)
(* may have changed since it was read.                                      *)
SawInv ==
  /\ call = NoCall => saw = Nothing /\ ran = FALSE
  /\ call # NoCall =>
       /\ call \in Calls /\ saw \in [Kinds -> Found]
       /\ saw["state"] \in {"unread"} \cup Statuses
       /\ saw["state"] \in Terminal => status[Task] = saw["state"]
       /\ saw["output"] \notin {"unread", "none"} => output[Task] = saw["output"]
       /\ saw["artifact"] # "unread" => Task \in stored
       /\ ran => {status[Task], saw["state"]} \cap {"pending", "blocked"} = {}

ReaderInv == RecordInv /\ SawInv /\ ReaderAgrees /\ SpendNeverHidden

(* A write of a record, and what it leaves of those there were.             *)
LEMMA WriteKeepsRecords ==
  ASSUME RecordInv, WriteRecord
  PROVE  /\ RecordInv'
         /\ \A t \in Tasks :
              /\ status[t] \in Terminal => status'[t] = status[t]
              /\ status[t] \notin {"pending", "blocked"} => status'[t] \notin {"pending", "blocked"}
              /\ output[t] # "none" => output'[t] = output[t]
              /\ t \in stored => t \in stored'
<1> USE DEF RecordInv, TypeOK, GraphStates, Statuses, Terminal, OutputStatuses, Unpublished
<1>1. ASSUME NEW t \in Tasks, StartTask(t)
      PROVE  RecordInv' /\ status[t] = "pending" /\ status' = [status EXCEPT ![t] = "running"]
             /\ UNCHANGED <<output, stored, claims>>
  BY <1>1 DEF StartTask, Start
<1>2. ASSUME NEW t \in Tasks, BlockTask(t)
      PROVE  RecordInv' /\ status[t] = "pending" /\ status' = [status EXCEPT ![t] = "blocked"]
             /\ UNCHANGED <<output, stored, claims>>
  BY <1>2 DEF BlockTask, Block, Doomed, Pending
<1>3. ASSUME NEW t \in Tasks, PublishArtifact(t)
      PROVE  RecordInv' /\ stored' = stored \cup {t} /\ UNCHANGED <<status, output, claims>>
  BY <1>3 DEF PublishArtifact
<1>4. ASSUME NEW t \in Tasks, NEW s \in OutputStatuses, PublishOutput(t, s)
      PROVE  RecordInv' /\ output[t] = "none" /\ output' = [output EXCEPT ![t] = s]
             /\ UNCHANGED <<status, stored>>
  BY <1>4 DEF PublishOutput, CanPublish
<1>5. ASSUME NEW t \in Tasks, NEW s \in OutputStatuses, SettleTask(t, s)
      PROVE  RecordInv' /\ status[t] \in {"pending", "running"} /\ status' = [status EXCEPT ![t] = s]
             /\ UNCHANGED <<output, stored, claims>>
  <2>1. status[t] \in {"pending", "running"} /\ output[t] = s
        /\ status' = [status EXCEPT ![t] = s] /\ UNCHANGED <<output, stored, claims>>
    BY <1>5 DEF SettleTask, Settle, AllowedTransitions
  <2> QED
    BY <2>1
<1> QED
  BY <1>1, <1>2, <1>3, <1>4, <1>5 DEF WriteRecord

LEMMA TaskIsOfTheRun ==
  ASSUME call \in Calls
  PROVE  Task \in Tasks /\ What \in {"usage", "output", "artifact"} /\ call # NoCall
BY AskedAssumption DEF Calls, Task, What, NoCall

(* While the run writes, what was seen stays what it says.                  *)
LEMMA WriteStep ==
  ASSUME ReaderInv, Write
  PROVE  ReaderInv'
<1>1. WriteRecord /\ UNCHANGED <<deleting, call, saw, ran, told>>
  BY DEF Write
<1>2. RecordInv'
  BY <1>1, WriteKeepsRecords DEF ReaderInv
<1>3. SawInv'
  <2>1. CASE call = NoCall
    BY <1>1, <2>1 DEF ReaderInv, SawInv
  <2>2. CASE call # NoCall
    <3>1. Task \in Tasks /\ Task' = Task
      BY <1>1, <2>2, TaskIsOfTheRun DEF ReaderInv, SawInv, Task
    <3>2. /\ status[Task] \in Terminal => status'[Task] = status[Task]
          /\ status[Task] \notin {"pending", "blocked"} => status'[Task] \notin {"pending", "blocked"}
          /\ output[Task] # "none" => output'[Task] = output[Task]
          /\ Task \in stored => Task \in stored'
      BY <1>1, <3>1, WriteKeepsRecords DEF ReaderInv
    <3>3. saw["output"] \notin {"unread", "none"} => output'[Task] = saw["output"]
      BY <2>2, <3>2 DEF ReaderInv, SawInv
    <3> QED
      BY <1>1, <2>2, <3>1, <3>2, <3>3 DEF ReaderInv, SawInv
  <2> QED
    BY <2>1, <2>2
<1> QED
  BY <1>1, <1>2, <1>3 DEF ReaderInv, ReaderAgrees, SpendNeverHidden, told

LEMMA ReadStep ==
  ASSUME ReaderInv, NEW k \in Kinds, ReadRecord(k)
  PROVE  ReaderInv'
<1>1. /\ call \in Calls /\ saw \in [Kinds -> Found] /\ call # NoCall /\ saw[k] = "unread"
      /\ k \in Wanted(What) /\ UNCHANGED <<records, deleting, told>>
  BY DEF ReadRecord, ReaderInv, SawInv
<1>2. UNCHANGED <<status, output, stored, claims, contradiction, hidden>>
  BY <1>1 DEF records, told
<1>3. Task \in Tasks /\ What \in {"usage", "output", "artifact"}
  BY <1>1, TaskIsOfTheRun
<1>4. RecordInv' /\ ReaderAgrees' /\ SpendNeverHidden'
  BY <1>2 DEF ReaderInv, RecordInv, TypeOK, ReaderAgrees, SpendNeverHidden
<1>5. CASE Answered
  BY <1>4, <1>5 DEF ReaderInv, SawInv, Answered
<1>6. ASSUME NEW found \in Contents(k, Task), ~(found = "none" /\ Missing(k)),
             saw' = [saw EXCEPT ![k] = found], UNCHANGED <<call, ran>>
      PROVE  SawInv'
  <2>1. status[Task] \in Statuses /\ output[Task] \in OutputStatuses \cup {"none"}
    BY <1>3 DEF ReaderInv, RecordInv, TypeOK, GraphStates
  <2>2. Task' = Task /\ call' \in Calls /\ call' # NoCall
    BY <1>1, <1>6 DEF Task, Calls
  <2>3. saw["state"] \in {"unread"} \cup Statuses
    BY <1>1 DEF ReaderInv, SawInv
  <2>4. CASE k = "state"
    <3>1. found = status[Task]
      BY <1>6, <2>4 DEF Contents, Missing
    <3>2. /\ saw' \in [Kinds -> Found] /\ saw'["state"] = status[Task]
          /\ saw'["output"] = saw["output"] /\ saw'["artifact"] = saw["artifact"]
      BY <1>1, <1>6, <2>1, <2>4, <3>1 DEF Found, Kinds
    <3> QED
      BY <1>1, <1>2, <1>6, <2>1, <2>2, <3>2 DEF ReaderInv, SawInv
  <2>5. CASE k = "output"
    <3>1. found \in {output[Task], "none"}
      BY <1>6, <2>5 DEF Contents
    <3>2. /\ saw' \in [Kinds -> Found] /\ saw'["output"] = found
          /\ saw'["state"] = saw["state"] /\ saw'["artifact"] = saw["artifact"]
      BY <1>1, <1>6, <2>1, <2>5, <3>1 DEF Found, Kinds, OutputStatuses, Statuses, Terminal
    <3> QED
      BY <1>1, <1>2, <1>6, <2>1, <2>2, <2>3, <3>1, <3>2 DEF ReaderInv, SawInv
  <2>6. CASE k = "artifact"
    <3>1. found = "text" /\ Task \in stored
      BY <1>6, <2>6 DEF Contents, Missing
    <3>2. /\ saw' \in [Kinds -> Found] /\ saw'["artifact"] = "text"
          /\ saw'["state"] = saw["state"] /\ saw'["output"] = saw["output"]
      BY <1>1, <1>6, <2>6, <3>1 DEF Found, Kinds
    <3> QED
      BY <1>1, <1>2, <1>6, <2>1, <2>2, <2>3, <3>1, <3>2 DEF ReaderInv, SawInv
  <2> QED
    BY <2>4, <2>5, <2>6 DEF Kinds
<1>7. Answered \/ SawInv'
  BY <1>6 DEF ReadRecord
<1> QED
  BY <1>4, <1>5, <1>7 DEF ReaderInv

LEMMA ConcludeStep ==
  ASSUME ReaderInv, Conclude
  PROVE  ReaderInv'
<1>1. /\ call \in Calls /\ \A k \in Wanted(What) : saw[k] # "unread"
      /\ UNCHANGED <<status, output, stored, claims>> /\ Answered
  BY DEF Conclude, ReaderInv, SawInv, records
<1>2. Task \in Tasks /\ What \in {"usage", "output", "artifact"}
  BY <1>1, TaskIsOfTheRun
<1>3. /\ saw["state"] \in Statuses /\ saw["output"] # "unread"
      /\ What = "artifact" => saw["artifact"] # "unread"
  <2>1. {"state", "output"} \subseteq Wanted(What) /\ (What = "artifact" => "artifact" \in Wanted(What))
    BY <1>2 DEF Wanted, Kinds
  <2> QED
    BY <1>1, <2>1, TaskIsOfTheRun DEF ReaderInv, SawInv
<1>4. ~Contradicts
  <2> SUFFICES ASSUME saw["output"] # "none" PROVE Matches /\ Claimed
    BY DEF Contradicts
  <2>1. output[Task] = saw["output"]
    BY <1>1, <1>3, TaskIsOfTheRun DEF ReaderInv, SawInv
  <2>2. Matches
    BY <1>1, <1>2, <2>1, TaskIsOfTheRun
       DEF Matches, ReaderInv, SawInv, RecordInv, OutputStatuses, Terminal
  <2>3. Claimed
    BY <1>1, <1>2, <1>3, <2>1, TaskIsOfTheRun DEF Claimed, ReaderInv, SawInv, RecordInv
  <2> QED
    BY <2>2, <2>3
<1>5. ran => "not_started" \notin Account
  BY <1>1, TaskIsOfTheRun DEF Account, Unpaid, ReaderInv, SawInv
<1>6. ReaderAgrees' /\ SpendNeverHidden'
  BY <1>4, <1>5 DEF Conclude, ReaderInv, ReaderAgrees, SpendNeverHidden
<1>7. RecordInv'
  BY <1>1 DEF ReaderInv, RecordInv, TypeOK
<1>8. SawInv'
  BY <1>1 DEF Answered, SawInv
<1> QED
  BY <1>6, <1>7, <1>8 DEF ReaderInv

LEMMA AskStep ==
  ASSUME ReaderInv, Ask
  PROVE  ReaderInv'
<1>1. /\ call' \in Calls /\ saw' = Nothing
      /\ ran' = (status[call'[2]] \notin {"pending", "blocked"})
      /\ UNCHANGED <<status, output, stored, claims, contradiction, hidden>>
  BY DEF Ask, ReaderInv, SawInv, records, told
<1>2. call' # NoCall /\ Task' = call'[2]
  <2>1. PICK what \in {"usage", "output", "artifact"}, task \in Asked : call' = <<what, task>>
    BY <1>1 DEF Calls
  <2> QED
    BY <2>1 DEF NoCall, Task
<1>3. /\ saw' \in [Kinds -> Found] /\ saw'["state"] = "unread" /\ saw'["output"] = "unread"
      /\ saw'["artifact"] = "unread"
  BY <1>1 DEF Nothing, Kinds, Found
<1>4. SawInv'
  BY <1>1, <1>2, <1>3 DEF SawInv, Terminal
<1> QED
  BY <1>1, <1>4 DEF ReaderInv, RecordInv, TypeOK, ReaderAgrees, SpendNeverHidden

(* What the records never take back, and what a call may conclude from what *)
(* it saw of them (readRunUsage and its siblings, beside every writer).     *)
THEOREM ReaderInvariant == ReaderSpec => []ReaderInv
<1>1. ReaderInit => ReaderInv
  BY DEF ReaderInit, RecordsInit, Init, CreateInitialState, ReaderInv, RecordInv, TypeOK,
     GraphStates, Statuses, Terminal, OutputStatuses, SawInv, ReaderAgrees, SpendNeverHidden
<1>2. ReaderInv /\ [ReaderNext]_vars => ReaderInv'
  <2> SUFFICES ASSUME ReaderInv, [ReaderNext]_vars PROVE ReaderInv'
    OBVIOUS
  <2>1. CASE Delete \/ UNCHANGED vars
    <3>1. UNCHANGED <<status, output, stored, claims, call, saw, ran, contradiction, hidden>>
      BY <2>1 DEF Delete, vars, records, told
    <3> QED
      BY <3>1 DEF ReaderInv, RecordInv, TypeOK, SawInv, ReaderAgrees, SpendNeverHidden, Calls, Task
  <2> QED
    BY <2>1, WriteStep, ReadStep, ConcludeStep, AskStep DEF ReaderNext, Read
<1> QED
  BY <1>1, <1>2, PTL DEF ReaderSpec

(* Whoever reads an undamaged run, in whatever order, while it is written   *)
(* and deleted, is never told that its records contradict each other        *)
(* (readNodeOutput, readNodeArtifact, readRunUsage).                        *)
THEOREM ReadersAgree == ReaderSpec => []ReaderAgrees
<1>1. ReaderInv => ReaderAgrees
  BY DEF ReaderInv
<1> QED
  BY <1>1, ReaderInvariant, PTL

(* A task that had started when the usage was asked for is never accounted  *)
(* for as one that was not started (readRunUsage).                          *)
THEOREM SpendIsShown == ReaderSpec => []SpendNeverHidden
<1>1. ReaderInv => SpendNeverHidden
  BY DEF ReaderInv
<1> QED
  BY <1>1, ReaderInvariant, PTL

(* The records a reader meets follow the node lifecycle, whose theorems are *)
(* therefore theorems of what it reads.                                     *)
THEOREM ReaderImplementsLifecycle == ReaderSpec => Spec
<1>1. ReaderInit => Init
  BY DEF ReaderInit, RecordsInit
<1>2. [ReaderNext]_vars => [Next]_status
  <2> SUFFICES ASSUME ReaderNext \/ UNCHANGED vars, status' # status PROVE Next
    OBVIOUS
  <2>1. WriteRecord
    BY DEF ReaderNext, Read, Write, Delete, Ask, Conclude, ReadRecord, vars, records
  <2> QED
    BY <2>1 DEF WriteRecord, StartTask, PublishArtifact, BlockTask, PublishOutput, SettleTask, Next,
       OutputStatuses
<1> QED
  BY <1>1, <1>2, PTL DEF ReaderSpec, Spec

(* Where an admitted request is followed to the records of its run, both    *)
(* halves keep what is shown of them: nothing but Begin joins the two. This *)
(* is the half of those who read the records.                               *)
THEOREM StoredImplementsReader == StoredSpec => ReaderSpec
<1>1. StoredInit => ReaderInit
  BY DEF StoredInit
<1>2. [StoredNext]_<<vars, admission>> => [ReaderNext]_vars
  BY DEF StoredNext, Begin
<1> QED
  BY <1>1, <1>2, PTL DEF StoredSpec, ReaderSpec

(* A request is admitted as it is without a run beside it: the layers from  *)
(* the tool's parser to readRun see nothing of the records.                 *)
THEOREM StoredImplementsAdmission == StoredSpec => AdmissionSpec
<1>1. StoredInit => AdmissionInit
  BY DEF StoredInit
<1>2. [StoredNext]_<<vars, admission>> => [Admit \/ Run]_admission
  BY DEF StoredNext, Begin
<1> QED
  BY <1>1, <1>2, PTL DEF StoredSpec, AdmissionSpec
=============================================================================
