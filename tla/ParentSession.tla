---------------------------- MODULE ParentSession ----------------------------
(****************************************************************************)
(* A parent session: the mode, the tool and the configuration both read.    *)
(* Pi offers the parent's model the tools that are active, so a graph is    *)
(* started in the mode; it runs on when the mode is left, and dies with the *)
(* process.                                                                 *)
(****************************************************************************)
EXTENDS SwarmMode, GraphTool

VARIABLES
  misled,      \* requests, since the file was last edited, whose names it rejected
  told         \* the latest request is one of these

history == <<misled, told>>
vars == <<modeVars, toolVars, configuration, history>>

Init == ConfigurationInit /\ ModeInit /\ ToolInit /\ misled = 0 /\ told = FALSE

(* An edit may part the names from the file; a request is a new chance.     *)
Mode ==
  /\ ModeNext /\ UNCHANGED toolVars
  /\ misled' = IF edits' # edits THEN 0 ELSE misled
  /\ told' = (told /\ edits' = edits /\ ~(asking /\ ~asking'))

(* A call's task named the profiles its request was given, and a file that  *)
(* can be read has others.                                                  *)
Misleads(c) ==
  LoadRejected(c) /\ file # Broken /\ named = block /\ ~told

Calling ==
  /\ \E c \in Calls :
       /\ Call(c) /\ (call[c] = "idle" => "graph" \in active /\ job # "down")
       /\ misled' = IF Misleads(c) THEN misled + 1 ELSE misled
       /\ told' = (told \/ Misleads(c))
  /\ UNCHANGED <<modeVars, configuration>>

Restarts ==
  /\ (Crash \/ Reopen) /\ Forget
  /\ told' = FALSE
  /\ UNCHANGED <<configuration, misled>>

Next == Mode \/ Calling \/ Restarts

Spec == Init /\ [][Next]_vars

TypeOK ==
  /\ ConfigurationTypeOK /\ ModeTypeOK /\ ToolTypeOK
  /\ misled \in Nat /\ told \in BOOLEAN

(* What is named to the parent's model and what a graph is validated with   *)
(* are two reads of a file edited under both. A divergence ends with the    *)
(* request it fell in (extension.ts, currentProfiles): after an edit, calls *)
(* that name what they were given are rejected for at most one request,     *)
(* whatever was remembered when the mode was entered, when a read failed or *)
(* before a crash.                                                          *)
DivergenceEnds == misled <= 1
=============================================================================
