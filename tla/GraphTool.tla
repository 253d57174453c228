------------------------------ MODULE GraphTool ------------------------------
(****************************************************************************)
(* The worker_graph tool of a parent session (orchestrator.ts): its calls,  *)
(* one graph at a time; the progress of the graph's workers, added up       *)
(* against the configured ceiling; and the report, put together node by     *)
(* node within a bound. The graph itself is RunGraph's.                     *)
(****************************************************************************)
EXTENDS Configuration, FiniteSets, FiniteSetsExt

CONSTANTS
  Calls,         \* tool calls of the session
  Tasks,         \* the tasks of a graph
  MaxUse,        \* bound of the model: what one task may show it spent
  MaxUpdates,    \* MAX_TOOL_UPDATES
  MaxBytes,      \* MAX_RESULT_REPORT_BYTES
  Shapes         \* what a node's review may weigh, form by form

ASSUME ToolAssumption ==
  /\ IsFiniteSet(Tasks)
  /\ MaxUse \in Nat /\ MaxUpdates \in Nat /\ MaxBytes \in Nat
  /\ Shapes \subseteq [reported : BOOLEAN, full : Nat, brief : Nat, unrounded : Nat,
                       bare : Nat, base : Nat]

Nodes == 1..Cardinality(Tasks)     \* the tasks, in the order of the result

VARIABLES
  busy,          \* graphRunning
  call,          \* of a call: "idle", "loading", "running" or "reporting"
  named,         \* the profiles its tasks name
  ceiling,       \* maxGraphCostUsd, as read for the call, or None
  updates,       \* the spend in each task's latest progress, or None
  budgetSpent,   \* the spend that crossed the ceiling, or None
  overBudget,    \* its signal
  emitted,       \* emittedUpdates, up to MaxUpdates
  crossed,       \* the graph was seen to have spent more than the ceiling
  stop,          \* budgetStop of the result
  overrun        \* the bytes of its report above what they may be

graph == <<ceiling, updates, budgetSpent, overBudget, emitted, crossed>>
toolVars == <<busy, call, named, graph, stop, overrun>>

ToolInit ==
  /\ busy = FALSE /\ call = [c \in Calls |-> "idle"] /\ named = None
  /\ ceiling = None /\ updates = [t \in Tasks |-> None] /\ budgetSpent = None
  /\ overBudget = FALSE /\ emitted = 0 /\ crossed = FALSE
  /\ stop = None /\ overrun = 0

NewGraph ==
  /\ ceiling' = None /\ updates' = [t \in Tasks |-> None] /\ budgetSpent' = None
  /\ overBudget' = FALSE /\ emitted' = 0 /\ crossed' = FALSE /\ stop' = None /\ overrun' = 0

(* The session's process ends.                                              *)
Forget == busy' = FALSE /\ call' = [c \in Calls |-> "idle"] /\ named' = None /\ NewGraph

-----------------------------------------------------------------------------
(* A call while another runs is refused, and so is one whose request does   *)
(* not parse; neither changes anything.                                     *)

(* Deviation: the call is not refused.                                      *)
FreeAnyway == TRUE

Free == ~busy

Starts(c) ==
  /\ call[c] = "idle" /\ Free
  /\ busy' = TRUE /\ call' = [call EXCEPT ![c] = "loading"]
  /\ named' \in Profiles
  /\ NewGraph

(* The call throws, and its locals go with it.                              *)
Throws(c) ==
  /\ busy' = FALSE /\ call' = [call EXCEPT ![c] = "idle"]
  /\ named' = None /\ NewGraph

(* The configuration does not load, or (validateTasks) a task names a       *)
(* profile it does not have.                                                *)
LoadRejected(c) ==
  /\ call[c] = "loading"
  /\ ~(file # Broken /\ named = file.profiles)
  /\ Throws(c)

Loads(c) ==
  /\ call[c] = "loading"
  /\ file # Broken /\ named = file.profiles
  /\ call' = [call EXCEPT ![c] = "running"]
  /\ ceiling' = file.ceiling /\ named' = None
  /\ UNCHANGED <<busy, updates, budgetSpent, overBudget, emitted, crossed, stop, overrun>>

-----------------------------------------------------------------------------
AggregateUsage(us) == SumFunctionOnSet(us, {t \in Tasks : us[t] # None})

(* Deviation: the ceiling is looked at only while updates are passed on.    *)
LatchWhilePassing ==
  IF ceiling # None /\ budgetSpent = None /\ AggregateUsage(updates') > ceiling
     /\ emitted < MaxUpdates
  THEN budgetSpent' = AggregateUsage(updates') /\ overBudget' = TRUE
  ELSE UNCHANGED <<budgetSpent, overBudget>>

(* The first update over the ceiling aborts the graph.                      *)
Latch ==
  IF ceiling # None /\ budgetSpent = None /\ AggregateUsage(updates') > ceiling
  THEN budgetSpent' = AggregateUsage(updates') /\ overBudget' = TRUE
  ELSE UNCHANGED <<budgetSpent, overBudget>>

(* onProgress: up to MaxUpdates are passed on (and any later one that has a *)
(* node's rounds). What a task shows may fall, after a round that told      *)
(* nothing (ReviewCycle), and no task starts under a raised signal.         *)
Progress(c) ==
  /\ call[c] = "running"
  /\ \E t \in Tasks, use \in 0..MaxUse :
       /\ updates[t] = None => ~overBudget
       /\ updates' = [updates EXCEPT ![t] = use]
       /\ emitted' = IF emitted < MaxUpdates THEN emitted + 1 ELSE emitted
  /\ Latch
  /\ crossed' = (crossed \/ (ceiling # None /\ AggregateUsage(updates') > ceiling))
  /\ UNCHANGED <<busy, call, named, ceiling, stop, overrun>>

(* executeGraph throws.                                                    *)
GraphFails(c) == call[c] = "running" /\ Throws(c)

-----------------------------------------------------------------------------
(* collectNodeReviews. A shape gives the size of a node's review with its   *)
(* report in full, in brief, in brief without its rounds, at its smallest,  *)
(* and, for a node with no report, as it is (`base`).                       *)

(* The nodes from one on, all at their smallest.                            *)
Reserve(shape, from) ==
  SumFunctionOnSet([i \in Nodes |-> shape[i].bare], from..Cardinality(Tasks))

(* Deviation: nothing is kept for the nodes still to come.                  *)
FitsAlone(shape, i, size) == size <= MaxBytes

(* The nodes still to come are reserved at their smallest.                  *)
Fits(shape, i, size) == size + Reserve(shape, i + 1) <= MaxBytes

Review(shape, i, sofar) ==
  LET node == shape[i]
      Fit == {f \in {"full", "brief", "unrounded"} : Fits(shape, i, sofar + node[f])}
  IN  IF ~node.reported THEN node.base
      ELSE IF "full" \in Fit THEN node.full
      ELSE IF "brief" \in Fit THEN node.brief
      ELSE IF "unrounded" \in Fit THEN node.unrounded ELSE node.bare

ReportSize(shape) ==
  LET upTo[i \in 0..Cardinality(Tasks)] ==
        IF i = 0 THEN 0 ELSE upTo[i - 1] + Review(shape, i, upTo[i - 1])
  IN  upTo[Cardinality(Tasks)]

(* What a node with no report, put in as it is, has over what was kept for  *)
(* it: its diagnostics and rounds. One with neither is smaller than that.   *)
Excess(node) == IF node.reported THEN 0 ELSE Max({0, node.base - node.bare})

(* What the report may weigh: its bound, or the smallest forms where these  *)
(* alone pass it; and the excess.                                           *)
Allowance(shape) ==
  Max({MaxBytes, Reserve(shape, 1)})
    + SumFunctionOnSet([i \in Nodes |-> Excess(shape[i])], Nodes)

Overruns == {Max({0, ReportSize(shape) - Allowance(shape)}) : shape \in [Nodes -> Shapes]}

(* executeGraph settles with a result, whatever became of its tasks, and    *)
(* the tool reads what the nodes reported. The updates are of no more use.  *)
Reports(c) ==
  /\ call[c] = "running"
  /\ call' = [call EXCEPT ![c] = "reporting"]
  /\ stop' = budgetSpent
  /\ overrun' \in Overruns
  /\ updates' = [t \in Tasks |-> None] /\ emitted' = 0
  /\ UNCHANGED <<busy, named, ceiling, budgetSpent, overBudget, crossed>>

(* The parent has the result; the call's locals go with it.                 *)
Returns(c) ==
  /\ call[c] = "reporting"
  /\ busy' = FALSE /\ call' = [call EXCEPT ![c] = "idle"]
  /\ named' = None /\ NewGraph

Call(c) ==
  \/ Starts(c) \/ LoadRejected(c) \/ Loads(c) \/ Progress(c) \/ GraphFails(c)
  \/ Reports(c) \/ Returns(c)

-----------------------------------------------------------------------------
ToolTypeOK ==
  /\ busy \in BOOLEAN /\ call \in [Calls -> {"idle", "loading", "running", "reporting"}]
  /\ named \in {None} \cup Profiles
  /\ ceiling \in {None} \cup 1..MaxCost /\ updates \in [Tasks -> {None} \cup 0..MaxUse]
  /\ budgetSpent \in {None} \cup Nat /\ overBudget \in BOOLEAN /\ stop \in {None} \cup Nat
  /\ emitted \in 0..MaxUpdates /\ crossed \in BOOLEAN
  /\ overrun \in Nat

(* Only one graph runs in a session, and the tool is free again after every *)
(* call, however it ended: a call that throws locks no later one out.       *)
OneGraph ==
  Cardinality({c \in Calls : call[c] # "idle"}) = (IF busy THEN 1 ELSE 0)

(* The graph is told to stop as soon as what its workers were seen to spend *)
(* passes the ceiling, however many updates there were, even if a figure    *)
(* falls again; a result tells of a stop exactly when there was one, with   *)
(* the spend that caused it.                                                *)
BudgetStops ==
  /\ overBudget <=> crossed
  /\ budgetSpent # None <=> crossed
  /\ crossed => budgetSpent > ceiling
  /\ (\E c \in Calls : call[c] = "reporting") => stop = budgetSpent

(* A report in full never pushes a later node out: the result stays within  *)
(* its bound, as far as its smallest forms leave that possible.             *)
ReportFits == overrun = 0
=============================================================================
