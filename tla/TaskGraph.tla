------------------------------ MODULE TaskGraph ------------------------------
(****************************************************************************)
(* The pure task-graph domain of src/src/graph.ts: node statuses, the       *)
(* transitions a node may take, the frontier of tasks that may start, and   *)
(* the propagation of a failure to the tasks that can no longer run.        *)
(*                                                                          *)
(* A graph state is a function from Tasks to statuses. settleBlocked is a   *)
(* loop in the code that repeats until nothing changes; here it is the      *)
(* least set of pending tasks closed under "a prerequisite cannot succeed", *)
(* which needs no recursion and can therefore be reasoned about by proof.   *)
(*                                                                          *)
(* In every module of this project a definition whose comment begins with   *)
(* "Deviation" models a plausible mistake in the definition that follows it. *)
(* No specification uses it; PROJECT.json pairs it with the property that   *)
(* fails when it takes the definition's place.                              *)
(****************************************************************************)
EXTENDS Naturals

CONSTANTS
  Tasks,   \* the task ids of one normalized graph
  Needs    \* Needs[t] is the set of direct prerequisites of t

(* Every prerequisite is a task of the graph, and no set of tasks waits     *)
(* only on itself. validateGraph rejects every other graph, so this is what *)
(* the rest of the program may rely on.                                     *)
Acyclic == \A S \in SUBSET Tasks : S # {} => \E t \in S : Needs[t] \cap S = {}

ASSUME GraphAssumption ==
  /\ Needs \in [Tasks -> SUBSET Tasks]
  /\ Acyclic

Terminal == {"succeeded", "failed", "aborted", "blocked"}
Blocking == {"failed", "aborted", "blocked"}
Statuses == {"pending", "running"} \cup Terminal
GraphStates == [Tasks -> Statuses]

(* ALLOWED_TRANSITIONS. "blocked" is reached through settleBlocked only.    *)
AllowedTransitions ==
  [s \in Statuses |->
     CASE s = "pending" -> {"running", "failed", "aborted"}
       [] s = "running" -> {"succeeded", "failed", "aborted"}
       [] OTHER         -> {}]

NeedsSucceeded(state, t) == \A d \in Needs[t] : state[d] = "succeeded"

(* setNodeStatus accepts this change: it is a no-op, or an allowed          *)
(* transition that starts nothing before its prerequisites have succeeded.  *)
MaySetStatus(state, t, s) ==
  \/ state[t] = s
  \/ /\ s \in AllowedTransitions[state[t]]
     /\ (state[t] = "pending" /\ s = "running") => NeedsSucceeded(state, t)

SetNodeStatus(state, t, s) == [state EXCEPT ![t] = s]

CreateInitialState == [t \in Tasks |-> "pending"]

ReadyFrontier(state) ==
  {t \in Tasks : state[t] = "pending" /\ NeedsSucceeded(state, t)}

Pending(state) == {t \in Tasks : state[t] = "pending"}

HasBlockingNeed(state, t) == \E d \in Needs[t] : state[d] \in Blocking

(* B absorbs every pending task with a prerequisite that cannot succeed.    *)
Absorbs(state, B) ==
  \A t \in Pending(state) :
    HasBlockingNeed(state, t) \/ Needs[t] \cap B # {} => t \in B

(* Deviation: one pass over the tasks, not repeated until nothing changes.  *)
DoomedInOnePass(state) == {t \in Pending(state) : HasBlockingNeed(state, t)}

(* The tasks settleBlocked blocks: those in every absorbing set.            *)
Doomed(state) ==
  {t \in Pending(state) :
     \A B \in SUBSET Pending(state) : Absorbs(state, B) => t \in B}

SettleBlocked(state) ==
  LET doomed == Doomed(state)
  IN  [t \in Tasks |-> IF t \in doomed THEN "blocked" ELSE state[t]]

IsGraphComplete(state) == \A t \in Tasks : state[t] \in Terminal
=============================================================================
