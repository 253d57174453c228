------------------------------ MODULE SwarmMode ------------------------------
(****************************************************************************)
(* Worker-graph mode of a parent session (extension.ts): the handlers of    *)
(* `/swarm on` and `off`, of the start, the end and the navigation of a     *)
(* session, and of each request to the parent's model. Entering the mode    *)
(* takes the write tools from the parent and may move it to another model;  *)
(* leaving it puts both back, from memory or, after a restart, from the     *)
(* entry the session's branch recorded.                                     *)
(*                                                                          *)
(* Pi runs one of these handlers at a time and awaits it (an assumption);   *)
(* the requests, the tool calls, the operator's edits, the models Pi knows  *)
(* and a crash come between any two awaits.                                 *)
(****************************************************************************)
EXTENDS Configuration, FiniteSets

CONSTANTS
  Own, Orchestrator,   \* the model the operator chose, and the configured one
  MaxMishaps           \* bound of the model

Models == {Own, Orchestrator}
ToolSets == SUBSET {"write", "graph"}     \* the parent's tools the mode moves

ASSUME ModeAssumption ==
  /\ Own # Orchestrator /\ None \notin Models /\ \A tools \in ToolSets : tools # None
  /\ MaxMishaps \in Nat

VARIABLES
  active,      \* pi.getActiveTools
  model,       \* the session's model and thinking level, which Pi's log keeps
  usable,      \* of a model: "ok", "locked" (its provider is logged out) or "gone"
  branch,      \* the latest mode entry of the session's branch
  tree,        \* the entries of all its branches
  enabled, toolsBefore, modelBefore, lastKnown,
  job,         \* the handler that runs: "on", "off", "start", "launch" (a start with
               \* --swarm), "tree", "shutdown" or "none"; "down" when the session ended
  at,          \* what it awaits: "leaving", "loading", "returning" or "moving"
  local,       \* what activate holds: its snapshot, the restored entry, what it read
  asking,      \* a request to the parent's model awaits the configuration
  block,       \* the profiles the latest request named
  stranded,    \* a handler or a crash left the session on the mode's model (see below)
  mishaps      \* changes of the models and crashes so far

memory == <<enabled, toolsBefore, modelBefore>>
host == <<active, model>>
log == <<branch, tree>>
handler == <<job, at, local>>
requests == <<asking, block>>
modeVars == <<host, usable, log, memory, lastKnown, handler, requests, stranded, mishaps>>

Off == [enabled |-> FALSE, tools |-> {}, model |-> None]
Nothing == [tools |-> {}, model |-> None, entry |-> Off, profiles |-> None]
Idle == job = "none"

(* A session that has not started, of a branch with no entry: Pi activates  *)
(* every registered tool.                                                   *)
ModeInit ==
  /\ active = {"write", "graph"} /\ model = Own /\ usable = [m \in Models |-> "ok"]
  /\ branch = Off /\ tree = {Off}
  /\ enabled = FALSE /\ toolsBefore = None /\ modelBefore = None /\ lastKnown = None
  /\ job \in {"start", "launch"} /\ at = "leaving" /\ local = Nothing
  /\ asking = FALSE /\ block = None /\ stranded = FALSE
  /\ mishaps = 0

-----------------------------------------------------------------------------
(* applyModel: the model must be found, and its provider logged in. A       *)
(* failure is reported, and leaves the session where it is.                 *)
ApplyModel(m) ==
  IF m = None THEN UNCHANGED <<model, stranded>>
  ELSE /\ model' = IF usable[m] = "ok" THEN m ELSE model
       /\ stranded' = (stranded \/ model' # m)

(* persistModeState, of the mode the handler ends in.                       *)
Persist ==
  /\ branch' = IF enabled' THEN [enabled |-> TRUE, tools |-> toolsBefore', model |-> modelBefore']
               ELSE Off
  /\ tree' = tree \cup {branch'}

Done == job' = "none" /\ at' = "none" /\ local' = Nothing

(* restored?.toolsBeforeMode ?? toolsBeforeMode ?? the tools in use         *)
Snapshot(entry) ==
  IF entry.enabled THEN entry.tools
  ELSE IF toolsBefore # None THEN toolsBefore ELSE active \ {"graph"}

(* Deviation: a restored entry's model is passed over.                      *)
RecordPassedOver == modelBefore

Recorded == IF local.entry.model # None THEN local.entry.model ELSE modelBefore

(* activate, up to the reading of the configuration.                        *)
Activate(entry) ==
  /\ local' = [Nothing EXCEPT !.tools = Snapshot(entry), !.entry = entry]
  /\ at' = "loading"

ApplyTools == active' = (local.tools \ {"write"}) \cup {"graph"}

(* Deviation: what a start's flag entered is not recorded.                  *)
PersistCommand == IF job = "on" THEN Persist ELSE UNCHANGED log

(* A restored mode is recorded already; a command's or the flag's is not.   *)
PersistNew ==
  IF job = "on" \/ (job = "launch" /\ ~local.entry.enabled) THEN Persist ELSE UNCHANGED log

Enter(before) ==
  /\ enabled' = TRUE /\ toolsBefore' = local.tools /\ modelBefore' = before
  /\ lastKnown' = local.profiles
  /\ PersistNew
  /\ Done

(* A refusal is shown. After a crash it leaves the session on the mode's    *)
(* model, for what would move it back is in the entry alone.                *)
Refuse ==
  /\ enabled' = FALSE
  /\ stranded' = (stranded \/ model = Orchestrator)
  /\ Done
  /\ UNCHANGED <<model, toolsBefore, modelBefore, lastKnown, log>>

-----------------------------------------------------------------------------
On ==
  /\ Idle /\ ~enabled
  /\ job' = "on" /\ Activate(Off)
  /\ UNCHANGED <<host, usable, log, memory, lastKnown, requests, stranded>>

(* The file cannot be read, or (before that) the tools in use are more than *)
(* an entry could hold.                                                     *)
LoadRefused ==
  /\ at = "loading" /\ (file = Broken \/ ~local.entry.enabled)
  /\ Refuse
  /\ UNCHANGED <<active, usable, requests>>

(* No orchestrator is configured: a model recorded or remembered comes back *)
LoadPlain ==
  /\ at = "loading" /\ file # Broken /\ ~file.orchestrator
  /\ at' = "returning" /\ local' = [local EXCEPT !.profiles = file.profiles]
  /\ UNCHANGED <<host, usable, log, memory, lastKnown, job, requests, stranded>>

Returned ==
  /\ at = "returning"
  /\ ApplyModel(Recorded)
  /\ ApplyTools
  /\ Enter(None)
  /\ UNCHANGED <<usable, requests>>

(* The model in use must be found, where it is the one to return to, and    *)
(* the configured one in any case.                                          *)
CanMove == usable[Orchestrator] # "gone" /\ (Recorded = None => usable[model] # "gone")

LoadOrchestrated ==
  /\ at = "loading" /\ file # Broken /\ file.orchestrator /\ CanMove
  /\ local' = [local EXCEPT !.profiles = file.profiles,
                            !.model = IF Recorded = None THEN model ELSE Recorded]
  /\ at' = "moving"
  /\ ApplyTools
  /\ UNCHANGED <<model, usable, log, memory, lastKnown, job, requests, stranded>>

LoadUnmovable ==
  /\ at = "loading" /\ file # Broken /\ file.orchestrator /\ ~CanMove
  /\ Refuse
  /\ UNCHANGED <<active, usable, requests>>

Moved ==
  /\ at = "moving" /\ usable[Orchestrator] # "locked"
  /\ model' = Orchestrator
  /\ Enter(local.model)
  /\ UNCHANGED <<active, usable, requests, stranded>>

(* Deviation: the tools stay as the mode would have had them.               *)
KeepTools == UNCHANGED active

(* Nothing is left half-applied.                                            *)
PutToolsBack == active' = local.tools

NotMoved ==
  /\ at = "moving" /\ usable[Orchestrator] # "ok"
  /\ PutToolsBack
  /\ Refuse
  /\ UNCHANGED <<usable, requests>>

-----------------------------------------------------------------------------
(* deactivate, with which every handler but `on` begins.                    *)

Begin(what) ==
  /\ Idle
  /\ job' = what /\ at' = "leaving"
  /\ UNCHANGED <<host, usable, toolsBefore, modelBefore, lastKnown, local, requests,
                 stranded>>

TurnOff == Begin("off") /\ enabled' = FALSE /\ UNCHANGED log
Shutdown == Begin("shutdown") /\ UNCHANGED <<log, enabled>>

(* Pi has moved the session to another branch of its tree.                  *)
Navigate == Begin("tree") /\ branch' \in tree /\ UNCHANGED <<tree, enabled>>

Deactivate ==
  /\ at = "leaving"
  /\ ApplyModel(modelBefore)
  /\ modelBefore' = None /\ toolsBefore' = None /\ lastKnown' = None
  /\ active' = IF toolsBefore # None THEN toolsBefore ELSE active \ {"graph"}
  /\ UNCHANGED <<usable, requests>>

TurnedOff ==
  /\ job = "off" /\ Deactivate
  /\ UNCHANGED enabled
  /\ Persist /\ Done

ShutDown ==
  /\ job = "shutdown" /\ Deactivate
  /\ job' = "down" /\ at' = "none"
  /\ UNCHANGED <<enabled, log, local>>

(* restoreModeState: the flag counts for the start it came with, and what   *)
(* the branch records for the rest.                                         *)
Requested == branch.enabled \/ job = "launch"

Restores ==
  /\ job \in {"start", "launch", "tree"} /\ Deactivate /\ Requested
  /\ local' = [Nothing EXCEPT !.entry = branch,
                 !.tools = IF branch.enabled THEN branch.tools ELSE active' \ {"graph"}]
  /\ at' = "loading"
  /\ UNCHANGED <<enabled, log, job>>

RestoresNothing ==
  /\ job \in {"start", "launch", "tree"} /\ Deactivate /\ ~Requested
  /\ enabled' = FALSE
  /\ Done
  /\ UNCHANGED log

-----------------------------------------------------------------------------
(* Each request to the parent's model names the profiles of the file as it  *)
(* is, or as it was last read.                                              *)

Asks ==
  /\ enabled /\ ~asking
  /\ asking' = TRUE
  /\ UNCHANGED <<host, usable, log, memory, lastKnown, handler, block, stranded>>

(* Deviation: what the mode read when it was entered is named.              *)
ReadOnce == lastKnown' = IF lastKnown # None \/ file = Broken THEN lastKnown ELSE file.profiles

CurrentProfiles == lastKnown' = IF file = Broken THEN lastKnown ELSE file.profiles

Asked ==
  /\ asking
  /\ CurrentProfiles
  /\ asking' = FALSE /\ block' = lastKnown'
  /\ UNCHANGED <<host, usable, log, memory, handler, stranded>>

-----------------------------------------------------------------------------
(* What the mode does not decide.                                           *)

Edit ==
  /\ EditFile
  /\ UNCHANGED <<host, usable, log, memory, lastKnown, handler, asking, block, stranded,
                 mishaps>>

Mishap == mishaps < MaxMishaps /\ mishaps' = mishaps + 1

(* A login is lost or made, a model leaves Pi's catalogue or comes back.    *)
ModelChanges ==
  /\ Mishap /\ UNCHANGED configuration
  /\ \E m \in Models, u \in {"ok", "locked", "gone"} : usable' = [usable EXCEPT ![m] = u]
  /\ UNCHANGED <<host, log, memory, lastKnown, handler, requests, stranded>>

(* The operator puts the session back on a model of their own.              *)
Chooses ==
  /\ Idle /\ model = Orchestrator
  /\ model' = Own
  /\ UNCHANGED <<active, usable, log, memory, lastKnown, handler, requests, stranded>>

(* The process ends, with its handler or after it, and another starts the   *)
(* session again, on the model Pi's log has last; an awaited setModel may   *)
(* have reached that log. The session is stranded where the branch has not  *)
(* recorded the model to return to.                                         *)
Awaited ==
  CASE at = "moving" -> Orchestrator [] at = "returning" -> Recorded
    [] at = "leaving" -> modelBefore [] OTHER -> None

Restart ==
  /\ model' \in {model} \cup ({Awaited} \ {None})
  /\ stranded' = (stranded \/ (model' = Orchestrator /\ branch.model = None))
  /\ active' = {"write", "graph"}
  /\ enabled' = FALSE /\ toolsBefore' = None /\ modelBefore' = None /\ lastKnown' = None
  /\ job' \in {"start", "launch"} /\ at' = "leaving" /\ local' = Nothing
  /\ asking' = FALSE /\ block' = None
  /\ UNCHANGED <<usable, log>>

Reopen == job = "down" /\ UNCHANGED mishaps /\ Restart
Crash == Mishap /\ job # "down" /\ Restart

Handlers ==
  \/ On \/ LoadRefused \/ LoadPlain \/ Returned \/ LoadOrchestrated \/ LoadUnmovable
  \/ Moved \/ NotMoved
  \/ TurnOff \/ Shutdown \/ Navigate \/ TurnedOff \/ ShutDown \/ Restores \/ RestoresNothing
  \/ Asks \/ Asked

ModeNext ==
  \/ (Handlers \/ Chooses) /\ UNCHANGED <<configuration, mishaps>>
  \/ Edit \/ ModelChanges

-----------------------------------------------------------------------------
Entries == [enabled : BOOLEAN, tools : ToolSets, model : {None} \cup Models]
Locals == [tools : ToolSets, model : {None} \cup Models, profiles : {None} \cup Profiles,
           entry : Entries]

ModeTypeOK ==
  /\ active \in ToolSets /\ model \in Models /\ usable \in [Models -> {"ok", "locked", "gone"}]
  /\ branch \in tree /\ tree \subseteq Entries
  /\ enabled \in BOOLEAN /\ toolsBefore \in {None} \cup ToolSets
  /\ modelBefore \in {None} \cup Models /\ lastKnown \in {None} \cup Profiles
  /\ job \in {"none", "down", "on", "off", "start", "launch", "tree", "shutdown"}
  /\ at \in {"none", "leaving", "loading", "returning", "moving"}
  /\ local \in Locals
  /\ asking \in BOOLEAN /\ block \in {None} \cup Profiles
  /\ stranded \in BOOLEAN
  /\ mishaps \in 0..MaxMishaps

(* Whatever sequence of commands, navigations, refusals and restarts led    *)
(* there: with the mode on, the parent has no write tool and can call       *)
(* worker_graph; with it off, the write tools are back and worker_graph is  *)
(* out of reach. And a branch that recorded the mode recorded the tools to  *)
(* put back (README, "Turning it off restores the exact snapshot").         *)
ToolsFollowMode ==
  /\ Idle => active = (IF enabled THEN {"graph"} ELSE {"write"})
  /\ \A entry \in tree : entry.enabled => entry.tools = {"write"}

(* A session out of the mode is on the model it came from, unless a handler *)
(* said that it could not put it back, a crash fell where the branch did    *)
(* not record that model, or the mode was refused after a crash.            *)
ModelReturns == Idle /\ ~enabled /\ ~stranded => model = Own

(* A mode that is on is the mode the branch records, so that a navigation   *)
(* does not undo what was last commanded on it (README, "so `/swarm off` is *)
(* never undone by the flag that started the session"); one that is off     *)
(* remembers nothing that a later `on` could take for the session's own.    *)
RecordIsMode ==
  /\ Idle /\ enabled => branch.enabled /\ branch.tools = toolsBefore
  /\ Idle /\ ~enabled => toolsBefore = None /\ modelBefore = None
=============================================================================
