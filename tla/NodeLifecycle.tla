---------------------------- MODULE NodeLifecycle ----------------------------
(****************************************************************************)
(* What the persisted node states of one run promise, whoever writes them   *)
(* and in whatever order: the abstract specification of a run.              *)
(*                                                                          *)
(* One variable, the status each node-state record holds. A step changes    *)
(* one record, exactly the changes writeNodeState accepts: a transition     *)
(* setNodeStatus allows, or "blocked" for a task settleBlocked would block. *)
(****************************************************************************)
EXTENDS TaskGraph

VARIABLE status

Init == status = CreateInitialState

(* writeNodeState(t, "running").                                            *)
Start(t) ==
  /\ status[t] = "pending"
  /\ NeedsSucceeded(status, t)
  /\ status' = [status EXCEPT ![t] = "running"]

(* writeNodeState(t, s) for a terminal s other than "blocked".              *)
Settle(t, s) ==
  /\ s \in AllowedTransitions[status[t]] \ {"running"}
  /\ status' = [status EXCEPT ![t] = s]

(* writeNodeState(t, "blocked"): one record of a settled frontier.          *)
Block(t) ==
  /\ status' = [status EXCEPT ![t] = "blocked"]
  /\ t \in Doomed(status)

Next ==
  \E t \in Tasks :
    \/ Start(t)
    \/ \E s \in {"succeeded", "failed", "aborted"} : Settle(t, s)
    \/ Block(t)

Spec == Init /\ [][Next]_status

-----------------------------------------------------------------------------
TypeOK == status \in GraphStates

(* A task that runs, or that succeeded, has only succeeded prerequisites:   *)
(* no order of persisted transitions lets a dependent overtake one.         *)
NoOvertaking ==
  \A t \in Tasks : status[t] \in {"running", "succeeded"} =>
    \A d \in Needs[t] : status[d] = "succeeded"

(* Every task marked blocked descends from one that failed or was aborted.  *)
(* Stated without a path: any set that holds the failed and aborted tasks   *)
(* and is closed under "depends on a member" holds the blocked ones too.    *)
(* The records of one settlement are written one at a time, so a blocked    *)
(* task's own prerequisites may still be recorded as pending.               *)
BlockedHasCause ==
  \A B \in SUBSET Tasks :
    /\ \A t \in Tasks : status[t] \in {"failed", "aborted"} => t \in B
    /\ \A t \in Tasks : Needs[t] \cap B # {} => t \in B
    => \A t \in Tasks : status[t] = "blocked" => t \in B

(* Once the blocked tasks are settled and nothing runs, an incomplete graph *)
(* has a task that may start (or be aborted): the two throws of run.ts,     *)
(* "no scheduling progress" and "no abortable frontier", are unreachable    *)
(* from any node states the store accepts.                                  *)
SettledFrontierProgresses ==
  LET settled == SettleBlocked(status)
  IN  (\A t \in Tasks : settled[t] # "running") /\ ~IsGraphComplete(settled)
        => ReadyFrontier(settled) # {}

(* A settlement is persisted one record at a time and each write computes   *)
(* it afresh from the records it finds: writing one blocked record leaves   *)
(* the rest of the settlement as it was, so the order does not matter and   *)
(* an interrupted settlement is resumed rather than changed.                *)
SettlementIsOrderFree ==
  [][\A t \in Tasks : Block(t) => SettleBlocked(status') = SettleBlocked(status)]_status
=============================================================================
