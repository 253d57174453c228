------------------------------ MODULE RunReader ------------------------------
(****************************************************************************)
(* Who reads the records of a run (store.ts): readNodeOutput, for a         *)
(* dependent and for the parent's report, readNodeArtifact, and             *)
(* readRunUsage, for an operator who asks what a run spent. None takes the  *)
(* mutation lock. A call reads one file after another, while the run goes   *)
(* on writing and, once it is over or abandoned, while it is deleted.       *)
(*                                                                          *)
(* readRunUsage goes through the tasks in manifest order. What it finds of  *)
(* one task does not depend on what it found of another, so a behaviour     *)
(* follows the reading of one task, any of them; the tasks before it are    *)
(* the delay between the question and its first record.                     *)
(****************************************************************************)
EXTENDS NodeRecords

CONSTANT Asked   \* the tasks whose records are read: findTask knows no others

ASSUME AskedAssumption == Asked \subseteq Tasks

VARIABLES
  deleting,   \* deleteRun is removing the run's directory
  call,       \* what is being read of which task
  saw,        \* what was found of each of its records
  ran,        \* history: the task had left "pending" when the call began
  contradiction,  \* history: a call threw invalid_record
  hidden      \* history: a task that had run was told to have spent nothing

told == <<contradiction, hidden>>
vars == <<records, deleting, call, saw, ran, told>>

Kinds == {"state", "output", "artifact"}
NoCall == <<>>
Nothing == [k \in Kinds |-> "unread"]

ReaderInit ==
  /\ RecordsInit
  /\ deleting = FALSE
  /\ call = NoCall /\ saw = Nothing /\ ran = FALSE
  /\ contradiction = FALSE /\ hidden = FALSE

-----------------------------------------------------------------------------
Wanted(what) ==
  CASE what = "usage"    -> {"state", "output"}
    [] what = "output"   -> {"state", "output"}
    [] what = "artifact" -> Kinds

Calls == {"usage", "output", "artifact"} \X Asked
What == call[1]
Task == call[2]

(* readRun and findTask.                                                    *)
Ask ==
  /\ call = NoCall /\ ~deleting
  /\ call' \in Calls
  /\ ran' = (status[call'[2]] \notin {"pending", "blocked"})
  /\ UNCHANGED <<records, deleting, saw, told>>

(* The call ends, with a result or an error.                                *)
Answered == call' = NoCall /\ saw' = Nothing /\ ran' = FALSE

(* What a read finds of a file. While the run is deleted, any file may be   *)
(* gone before another.                                                     *)
Contents(k, t) ==
  (CASE k = "state"    -> {status[t]}
     [] k = "output"   -> {output[t]}
     [] k = "artifact" -> {IF t \in stored THEN "text" ELSE "none"})
  \cup (IF deleting THEN {"none"} ELSE {})

(* Only readRunUsage goes on without a record, an output that is not there. *)
Missing(k) == What # "usage" \/ k # "output"

(* readRunUsage reads the state first, the others read as the disk answers. *)
InTurn(k) == What = "usage" /\ k = "output" => saw["state"] # "unread"

ReadRecord(k) ==
  /\ call # NoCall
  /\ k \in Wanted(What) /\ saw[k] = "unread" /\ InTurn(k)
  /\ \E found \in Contents(k, Task) :
       IF found = "none" /\ Missing(k)
       THEN Answered
       ELSE saw' = [saw EXCEPT ![k] = found] /\ UNCHANGED <<call, ran>>
  /\ UNCHANGED <<records, deleting, told>>

(* assertOutputMatchesState.                                                *)
Matches ==
  /\ saw["state"] # "blocked"
  /\ saw["state"] \in OutputStatuses => saw["output"] = saw["state"]

(* An output claims the artifact it was published with; the artifact read   *)
(* beside it is nobody's unless the output claims one.                      *)
Claimed == What = "artifact" => Task \in claims

Contradicts == saw["output"] # "none" /\ ~(Matches /\ Claimed)

(* Deviation: a task without an output was never started.                   *)
UnpublishedIsFree == "not_started"

(* The accounting of a task that published no output.                       *)
Unpaid == IF saw["state"] \in {"pending", "blocked"} THEN "not_started" ELSE "unreported"

(* What readRunUsage says of the task. An output may carry no usage.        *)
Account == IF saw["output"] = "none" THEN {Unpaid} ELSE {"reported", "unreported"}

Conclude ==
  /\ call # NoCall /\ \A k \in Wanted(What) : saw[k] # "unread"
  /\ contradiction' = (contradiction \/ Contradicts)
  /\ hidden' = (hidden \/ (What = "usage" /\ ran /\ "not_started" \in Account))
  /\ Answered
  /\ UNCHANGED <<records, deleting>>

(* deleteRun, once nobody owns the run: nothing is written any more.        *)
Delete ==
  /\ ~deleting /\ deleting' = TRUE
  /\ UNCHANGED <<records, call, saw, ran, told>>

Write == ~deleting /\ WriteRecord /\ UNCHANGED <<deleting, call, saw, ran, told>>
Read == Ask \/ Conclude \/ \E k \in Kinds : ReadRecord(k)

ReaderNext == Write \/ Delete \/ Read
ReaderSpec == ReaderInit /\ [][ReaderNext]_vars

-----------------------------------------------------------------------------
(* No reader of a run ever meets records that contradict each other,        *)
(* although it reads them one by one, in any order, while they are written  *)
(* and removed: invalid_record always means that a file was damaged.        *)
ReaderAgrees == ~contradiction

(* A task that had started when an operator asked is never shown as one     *)
(* that spent nothing: it is reported, or named as unaccounted, even if the *)
(* run is deleted meanwhile.                                                *)
SpendNeverHidden == ~hidden
=============================================================================
