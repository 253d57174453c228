---------------------------- MODULE WorkerProcess ----------------------------
(****************************************************************************)
(* One Pi child of a node (pi-subprocess.ts, runNormalizedPiWorkerProcess), *)
(* from its spawn to the outcome its promise settles with: the event stream *)
(* read line by line, the failures it latches, the signals sent to its      *)
(* process group, the spend it adds up and the verdict taken at `close`.    *)
(*                                                                          *)
(* A line is one event of the child's stdout. A handler of Node runs to its *)
(* end before another: the lines of one chunk are read in a row (`more`),   *)
(* and so is everything from `close` to the verdict (phases "trailing" and  *)
(* "closing"). The child, and a tool it starts, run beside it.              *)
(****************************************************************************)
EXTENDS Naturals, FiniteSets

CONSTANTS
  None,          \* no failure, no report, no verdict, no figures
  MaxLines,      \* bound of the model: lines the child writes
  MaxSpend,      \* TASK_USAGE_LIMITS: sums saturate there
  MaxProgress    \* MAX_PROGRESS_EVENTS

Reports == {"valid"}
Failures == {"invalid_assignment", "invalid_profile", "startup", "protocol", "output_limit",
             "provider", "report_tool", "missing_report", "report_not_final", "process"}

ASSUME WorkerProcessAssumption ==
  /\ None \notin Failures \cup Reports \cup {"resolved"} \cup Nat
  /\ MaxLines \in Nat
  /\ MaxSpend \in Nat
  /\ MaxProgress \in Nat \ {0}

VARIABLES
  phase,       \* "new", "streaming", "trailing", "closing", "torn" or "settled"
  more,        \* the chunk being read holds another line
  failure,     \* failureCode, latched once
  output,      \* the first valid report, or None
  notFinal,    \* reportNotFinal
  rejected,    \* reportToolFailed
  provider,    \* providerFailed
  stdin,       \* stdinFailed
  pending,     \* pendingUsage: "no", or the usage of an update not committed
  spend,       \* the accumulator: its total, whether any was reported or unusable
  progress,    \* progressEvents
  finished,    \* times the terminal progress was emitted
  signalled,   \* "no", "term" (the grace timer runs) or "force"
  aborted,     \* the signal the caller holds
  verdict,     \* what the promise settled with
  tree,        \* live processes of the child's group
  holds,       \* the tool inherited the child's pipes
  doomed,      \* processes sent SIGKILL
  lines,       \* lines written, all told
  turn,        \* the child's turn: "idle", "open", "priced" (it told its usage)
  heard,       \* turns whose usage was read
  counted,     \* the current turn is among them
  deaf,        \* the end of some turn was never read
  replaced,    \* figures that were heard gave way to a value that is no record
  ranOn,       \* a tool ended, or a batch began, after the report was captured
  hidden,      \* of these, some line was skipped for its size (batch's too)
  batch,       \* a message called the report beside other tools: "no", the "last"
               \* message did, or only an "earlier" one
  amended      \* the report was called alone and corrects a rejected one

latches == <<failure, output, notFinal, rejected, provider, stdin>>
account == <<pending, spend>>
observer == <<progress, finished>>
group == <<tree, holds>>
history == <<turn, heard, counted, deaf, replaced, ranOn, hidden, batch, amended>>
vars == <<phase, more, latches, account, observer, signalled, aborted, verdict, group, doomed,
          lines, history>>

Least(a, b) == IF a < b THEN a ELSE b

Init ==
  /\ phase = "new" /\ more = FALSE
  /\ failure = None /\ output = None /\ verdict = None
  /\ notFinal = FALSE /\ rejected = FALSE /\ provider = FALSE /\ stdin = FALSE
  /\ pending = "no" /\ spend = [total |-> 0, reported |-> FALSE, unusable |-> FALSE]
  /\ progress = 0 /\ finished = 0
  /\ signalled = "no" /\ aborted = FALSE
  /\ tree = {} /\ holds = FALSE /\ doomed = {}
  /\ lines = 0 /\ turn = "idle" /\ heard = 0 /\ counted = FALSE
  /\ deaf = FALSE /\ replaced = FALSE
  /\ ranOn = FALSE /\ hidden = FALSE /\ batch = "no" /\ amended = FALSE

-----------------------------------------------------------------------------
(* Spend: a record of a usage is "good" or, with a field that is no usable  *)
(* number, "bad"; an event without one has "none"; a value that is no       *)
(* record is "odd": it counts as a record without figures, but takes the    *)
(* place of the pending one.                                                *)

Usages == {"none", "good", "bad", "odd"}

AddAssistantUsage(acc, usage) ==
  [total    |-> IF usage = "good" THEN Least(MaxSpend, acc.total + 1) ELSE acc.total,
   reported |-> acc.reported \/ usage \in {"good", "bad"},
   unusable |-> acc.unusable \/ usage = "bad"]

(* `value ?? pendingUsage?.value`                                           *)
Committed(usage) ==
  AddAssistantUsage(spend, IF usage = "none" /\ pending # "no" THEN pending ELSE usage)

(* Deviation: the pending usage stays and is committed again.               *)
CommitAgain(usage) == spend' = Committed(usage) /\ UNCHANGED pending

Commit(usage) == spend' = Committed(usage) /\ pending' = "no"

CommitPending == IF pending = "no" THEN UNCHANGED account ELSE Commit("none")

AccountedUsage(acc) == IF acc.reported /\ ~acc.unusable THEN acc.total ELSE None

-----------------------------------------------------------------------------
(* emitProgress: all but one of the emissions are for events before the     *)
(* end. The observer may abort the caller's signal (the graph's budget).    *)

Observed(emitted) == aborted' \in BOOLEAN /\ (aborted => aborted') /\ (aborted' => aborted \/ emitted)

(* Deviation: nothing is kept back for the terminal update.                 *)
EmitAll(n) ==
  /\ progress' = Least(MaxProgress, progress + n)
  /\ Observed(progress' > progress)

Emit(n) ==
  /\ progress' = Least(MaxProgress - 1, progress + n)
  /\ Observed(progress' > progress)

(* fail: the first failure counts, and none once `close` was seen.          *)
Fail(code) == failure' = IF failure = None /\ phase = "streaming" THEN code ELSE failure

(* terminate, called by fail and by the abort listener; `close` removes the *)
(* listener. The group is asked to stop and the grace timer armed, once.    *)
Terminate ==
  signalled' = IF phase = "streaming" /\ signalled = "no" /\ (aborted' \/ failure' # None)
               THEN "term" ELSE signalled

-----------------------------------------------------------------------------
(* The process starts, or the promise rejects before it.                    *)

Reject(code) == phase' = "settled" /\ verdict' = [kind |-> code, usage |-> None]

Refused ==
  /\ phase = "new"
  /\ \/ \E code \in {"invalid_assignment", "invalid_profile", "startup"} : Reject(code)
     \/ aborted /\ Reject("process")
  /\ UNCHANGED <<more, latches, account, observer, signalled, aborted, group, doomed, lines,
                 history>>

Spawn ==
  /\ phase = "new" /\ ~aborted
  /\ phase' = "streaming"
  /\ tree' = {"worker"}
  /\ progress' = Least(MaxProgress - 1, 1)
  /\ UNCHANGED <<more, latches, account, finished, signalled, aborted, verdict, holds, doomed,
                 lines, history>>

-----------------------------------------------------------------------------
(* Lines. A chunk is dropped whole once a failure is latched, but the chunk *)
(* that latched it is read to its end. What is left without a newline when  *)
(* the streams close is read as a line.                                     *)

Write == lines < MaxLines /\ lines' = lines + 1

ReadLine ==
  /\ Write
  /\ \/ /\ phase = "streaming" /\ (more \/ failure = None)
        /\ more' \in BOOLEAN /\ (more' => lines' < MaxLines)
        /\ UNCHANGED phase
     \/ /\ phase = "trailing" /\ phase' = "closing"
        /\ UNCHANGED more

Reading == ReadLine /\ UNCHANGED <<finished, verdict, group, doomed>>

(* The line is there but nobody reads it: it is too large to be an event    *)
(* line, or comes after the failure.                                        *)
Unread(fits) ==
  /\ Write
  /\ phase = "streaming" /\ ~more
  /\ fits => failure # None
  /\ UNCHANGED <<phase, more, latches, account, observer, signalled, aborted, verdict, group,
                 doomed>>

(* What the child reports of its turn, read or not. Its figures accumulate: *)
(* once a turn told its usage, its later updates do.                        *)
Telling(usage) ==
  /\ turn = "priced" => usage # "none"
  /\ turn' = IF usage = "none" /\ turn # "priced" THEN "open" ELSE "priced"

Hears(usage) ==
  /\ heard' = IF usage = "good" /\ ~counted THEN heard + 1 ELSE heard
  /\ replaced' = (replaced \/ (usage = "odd" /\ counted))

Update(usage) ==
  /\ Telling(usage)
  /\ \/ /\ Reading
        /\ pending' = usage
        /\ Hears(usage) /\ counted' = (counted \/ usage = "good")
        /\ UNCHANGED <<latches, spend, progress, signalled, aborted>>
     \/ /\ \E fits \in BOOLEAN : Unread(fits)
        /\ UNCHANGED <<heard, counted, replaced>>
  /\ UNCHANGED <<deaf, ranOn, hidden, batch, amended>>

(* message_end of an assistant message: plain, ended by a provider error,   *)
(* or one that calls the report beside other tools.                         *)
MessageEnd(usage, kind) ==
  /\ turn' = "idle" /\ counted' = FALSE
  /\ batch' = CASE kind = "batch" -> "last"
                [] kind # "batch" /\ batch = "no" -> "no"
                [] OTHER -> "earlier"
  /\ ranOn' = (ranOn \/ (kind = "batch" /\ output # None))
  /\ UNCHANGED amended
  /\ \/ /\ Reading
        /\ Commit(usage) /\ Emit(1)
        /\ provider' = (provider \/ kind = "error")
        /\ notFinal' = (notFinal \/ kind = "batch")
        /\ Hears(usage)
        /\ UNCHANGED <<failure, output, rejected, stdin, deaf, hidden>>
        /\ Terminate
     \/ /\ \E fits \in BOOLEAN : Unread(fits) /\ hidden' = (hidden \/ (kind = "batch" /\ ~fits))
        /\ deaf' = TRUE
        /\ UNCHANGED <<heard, replaced>>

(* Tools run between turns. The start of one that is not on the progress    *)
(* allowlist says nothing.                                                  *)
ToolStart ==
  /\ turn = "idle"
  /\ \/ /\ Reading
        /\ \/ CommitPending /\ Emit(IF pending = "no" THEN 1 ELSE 2)
           \/ UNCHANGED <<account, progress, aborted>>
        /\ UNCHANGED latches
        /\ Terminate
     \/ \E fits \in BOOLEAN : Unread(fits)
  /\ UNCHANGED history

(* Deviation: work after the report goes unnoticed.                         *)
ToolEndUnnoticed ==
  /\ turn = "idle"
  /\ ranOn' = (ranOn \/ output # None)
  /\ Reading
  /\ CommitPending
  /\ Emit(IF pending = "no" THEN 1 ELSE 2)
  /\ UNCHANGED <<latches, turn, heard, counted, deaf, replaced, hidden, batch, amended>>
  /\ Terminate

(* tool_execution_end of any other tool.                                    *)
ToolEnd ==
  /\ turn = "idle"
  /\ ranOn' = (ranOn \/ output # None)
  /\ \/ /\ Reading
        /\ CommitPending
        /\ \E shown \in {0, 1} : Emit(IF pending = "no" THEN shown ELSE shown + 1)
        /\ notFinal' = (notFinal \/ output # None)
        /\ UNCHANGED <<failure, output, rejected, provider, stdin, hidden>>
        /\ Terminate
     \/ \E fits \in BOOLEAN : Unread(fits) /\ hidden' = (hidden \/ (output # None /\ ~fits))
  /\ UNCHANGED <<turn, heard, counted, deaf, replaced, batch, amended>>

(* tool_execution_end of the report tool. Its line always fits.             *)
ReportEnd(report) ==
  /\ turn = "idle"
  /\ UNCHANGED <<turn, heard, counted, deaf, replaced, ranOn, hidden, batch>>
  /\ \/ /\ Reading
        /\ CommitPending
        /\ Emit(IF pending = "no" THEN 1 ELSE 2)
        /\ UNCHANGED <<notFinal, provider, stdin>>
        /\ \/ output # None /\ UNCHANGED <<failure, output, rejected, amended>>
           \/ /\ output = None /\ report = "rejected"
              /\ rejected' = TRUE
              /\ UNCHANGED <<failure, output, amended>>
           \/ /\ output = None /\ report = "forged"
              /\ Fail("report_tool")
              /\ UNCHANGED <<output, rejected, amended>>
           \/ /\ output = None /\ report \in Reports
              /\ output' = report
              /\ rejected' = FALSE
              /\ amended' = (rejected /\ batch # "last")
              /\ UNCHANGED failure
        /\ Terminate
     \/ Unread(TRUE) /\ UNCHANGED amended

(* A line that is no JSON object.                                           *)
Junk ==
  /\ UNCHANGED history
  /\ \/ /\ Reading
        /\ Fail("protocol")
        /\ UNCHANGED <<output, notFinal, rejected, provider, stdin, account, progress, aborted>>
        /\ Terminate
     \/ Unread(TRUE)

Line ==
  \/ \E usage \in Usages : Update(usage)
  \/ \E usage \in Usages, kind \in {"plain", "error", "batch"} : MessageEnd(usage, kind)
  \/ ToolStart \/ ToolEnd \/ Junk
  \/ \E report \in Reports \cup {"rejected", "forged"} : ReportEnd(report)

-----------------------------------------------------------------------------
(* The other handlers.                                                      *)

Abort ==
  /\ phase \in {"new", "streaming"} /\ ~more /\ ~aborted
  /\ aborted' = TRUE
  /\ UNCHANGED <<phase, more, latches, account, observer, verdict, group, doomed, lines, history>>
  /\ Terminate

(* stdout or stderr beyond its bound, stdout that is no UTF-8, and the      *)
(* child's `error` event.                                                   *)
StreamFails ==
  /\ phase = "streaming" /\ ~more /\ failure = None
  /\ \E code \in {"output_limit", "protocol", "startup"} : Fail(code)
  /\ UNCHANGED <<phase, more, output, notFinal, rejected, provider, stdin, account, observer,
                 aborted, verdict, group, doomed, lines, history>>
  /\ Terminate

StdinError ==
  /\ phase = "streaming" /\ ~more /\ ~stdin
  /\ stdin' = TRUE
  /\ IF output = None THEN Fail("process") ELSE UNCHANGED failure
  /\ UNCHANGED <<phase, more, output, notFinal, rejected, provider, account, observer, aborted,
                 verdict, group, doomed, lines, history>>
  /\ Terminate

(* Deviation: a group that ignores SIGTERM is asked again, not killed.      *)
EscalateMildly ==
  /\ phase = "streaming" /\ signalled = "term" /\ ~more
  /\ signalled' = "force"
  /\ UNCHANGED <<phase, more, latches, account, observer, aborted, verdict, group, doomed, lines,
                 history>>

(* The grace period is over: SIGKILL for the whole group.                   *)
Escalate ==
  /\ phase = "streaming" /\ signalled = "term" /\ ~more
  /\ signalled' = "force"
  /\ doomed' = tree
  /\ UNCHANGED <<phase, more, latches, account, observer, aborted, verdict, group, lines, history>>

(* `close`: the child is gone and nobody holds its pipes. A stream that     *)
(* broke off inside a character is "torn": the decoder throws, and neither  *)
(* a trailing line nor the pending usage is looked at.                      *)
Close ==
  /\ phase = "streaming" /\ ~more
  /\ "worker" \notin tree /\ ~("tool" \in tree /\ holds)
  /\ \/ phase' = "closing" /\ UNCHANGED failure
     \/ lines < MaxLines /\ phase' = "trailing" /\ UNCHANGED failure
     \/ phase' = "torn" /\ failure' = IF failure = None THEN "protocol" ELSE failure
  /\ UNCHANGED <<more, output, notFinal, rejected, provider, stdin, account, observer, signalled,
                 aborted, verdict, group, doomed, lines, history>>

(* Cancellation, then the stream's integrity, then the report, then what    *)
(* may explain that there is none.                                          *)
Outcome(exit) ==
  CASE aborted' -> "process"
    [] ~aborted' /\ failure # None -> failure
    [] ~aborted' /\ failure = None /\ output # None ->
         IF notFinal THEN "report_not_final" ELSE "resolved"
    [] ~aborted' /\ failure = None /\ output = None /\ rejected -> "report_tool"
    [] ~aborted' /\ failure = None /\ output = None /\ ~rejected /\ provider -> "provider"
    [] OTHER -> IF stdin \/ exit # 0 THEN "process" ELSE "missing_report"

(* Deviation: a group that was asked to stop is taken to have stopped.      *)
SweepUnlessAsked == doomed' = IF signalled # "no" THEN doomed ELSE tree

(* What the child started is killed too, unless it already was.             *)
Sweep == doomed' = IF signalled = "force" THEN doomed ELSE tree

Settle ==
  /\ phase \in {"closing", "torn"}
  /\ phase' = "settled"
  /\ IF phase = "closing" THEN CommitPending ELSE UNCHANGED account
  /\ LET shown == IF phase = "closing" /\ pending # "no" /\ progress < MaxProgress - 1 THEN 1 ELSE 0
     IN  /\ Observed(shown = 1)
         /\ progress' = progress + shown + 1
  /\ finished' = finished + 1
  /\ Sweep
  /\ \E exit \in {0, 1} :
       verdict' = [kind |-> Outcome(exit), usage |-> AccountedUsage(spend')]
  /\ UNCHANGED <<more, latches, signalled, group, lines, history>>

-----------------------------------------------------------------------------
(* The child's group, on its own: the child starts a tool, which may outlive *)
(* it, and a process ends, by itself, by a crash or by a signal.             *)

StartTool ==
  /\ "worker" \in tree \ doomed /\ "tool" \notin tree
  /\ tree' = tree \cup {"tool"}
  /\ holds' \in BOOLEAN
  /\ UNCHANGED <<phase, more, latches, account, observer, signalled, aborted, verdict, doomed,
                 lines, history>>

Die(p) ==
  /\ p \in tree
  /\ tree' = tree \ {p} /\ doomed' = doomed \ {p}
  /\ holds' = (holds /\ p # "tool")
  /\ UNCHANGED <<phase, more, latches, account, observer, signalled, aborted, verdict, lines,
                 history>>

Killed == \E p \in doomed : Die(p)

Handler == Line \/ Abort \/ StreamFails \/ StdinError \/ Escalate \/ Close \/ Settle

Next ==
  \/ Refused \/ Spawn
  \/ Handler
  \/ StartTool \/ \E p \in tree : Die(p)

(* What Node and the kernel do without the child's help: go on with a       *)
(* handler, fire a timer, kill a process, report that the streams closed.   *)
Fairness ==
  /\ WF_vars((more \/ phase = "trailing") /\ Line)
  /\ WF_vars(Escalate) /\ WF_vars(Close) /\ WF_vars(Settle)
  /\ WF_vars(Killed)

Spec == Init /\ [][Next]_vars

FairSpec == Spec /\ Fairness

-----------------------------------------------------------------------------
TypeOK ==
  /\ phase \in {"new", "streaming", "trailing", "closing", "torn", "settled"}
  /\ more \in BOOLEAN
  /\ failure \in Failures \cup {None}
  /\ output \in Reports \cup {None}
  /\ notFinal \in BOOLEAN /\ rejected \in BOOLEAN /\ provider \in BOOLEAN /\ stdin \in BOOLEAN
  /\ pending \in Usages \cup {"no"}
  /\ spend \in [total : Nat, reported : BOOLEAN, unusable : BOOLEAN]
  /\ progress \in Nat /\ finished \in Nat
  /\ signalled \in {"no", "term", "force"}
  /\ aborted \in BOOLEAN
  /\ verdict \in [kind : Failures \cup {"resolved"}, usage : Nat \cup {None}] \cup {None}
  /\ tree \subseteq {"worker", "tool"} /\ holds \in BOOLEAN
  /\ doomed \subseteq {"worker", "tool"}
  /\ lines \in Nat /\ heard \in Nat
  /\ turn \in {"idle", "open", "priced"}
  /\ counted \in BOOLEAN /\ deaf \in BOOLEAN /\ replaced \in BOOLEAN
  /\ ranOn \in BOOLEAN /\ hidden \in BOOLEAN /\ amended \in BOOLEAN
  /\ batch \in {"no", "last", "earlier"}

Pended == IF pending = "good" THEN 1 ELSE 0

(* The turn whose figures were heard and never committed: the one that was  *)
(* open when the stream was torn.                                           *)
Dropped == IF phase = "settled" /\ counted /\ pending # "no" THEN 1 ELSE 0

(* A turn told twice, by its updates and by its end, is spent once: never   *)
(* more is spent than was heard of. The known spend is all that was heard   *)
(* of, except where the code loses a turn: its end was skipped or dropped,  *)
(* a value that is no record took the place of its figures, or it was open  *)
(* when the stream broke off inside a character, which drops that turn and  *)
(* no other (addAssistantUsage, commitAssistantUsage, the `close` handler). *)
(* The last two are against the comment of UsageAccumulator, "Only a        *)
(* complete, usable accounting is persisted": see the README.               *)
SpendExact ==
  /\ spend.total + Pended <= heard
  /\ phase = "settled" /\ ~deaf /\ ~replaced =>
       \/ verdict.usage = None
       \/ verdict.usage = Least(MaxSpend, heard - Dropped)

(* The outcome of `close` is that of the report, whatever order its events  *)
(* came in. A node succeeds only on a report no tool outlived, from a whole *)
(* stream, when nobody cancelled it (a line too large to read is the only   *)
(* place such a tool can hide). A report does succeed, whatever the exit    *)
(* code, the provider and the closed stdin say, if it was the last action   *)
(* and no message of this worker, not even one whose report was rejected,   *)
(* ever called the report beside another tool: see CorrectedReportCounts.   *)
VerdictIsReport ==
  phase = "settled" =>
    /\ verdict.kind = "resolved" =>
         /\ output # None /\ failure = None /\ ~aborted
         /\ ranOn \/ batch # "no" => hidden
    /\ output # None /\ failure = None /\ ~aborted /\ ~ranOn /\ batch = "no" =>
         verdict.kind = "resolved"

(* "A rejected report is recoverable: the worker may correct and resubmit   *)
(* it" (README): a report that was called alone, corrects a rejected one    *)
(* and was the last action succeeds. Refuted: batchCallsReportWithSiblings  *)
(* is latched for good, though the report of that batch was rejected.       *)
CorrectedReportCounts ==
  phase = "settled" /\ amended /\ failure = None /\ ~aborted /\ ~ranOn =>
    verdict.kind = "resolved"

(* Nothing the child started outlives its outcome: by the time the promise  *)
(* settles every process left in the group was sent SIGKILL, by the         *)
(* escalation or by the sweep at `close`.                                   *)
TreeCollected == phase = "settled" => tree \subseteq doomed

(* The observer hears of the end exactly once, and never of more events     *)
(* than the bound allows: a long transcript cannot use up the last update.  *)
EndIsObserved ==
  /\ progress <= MaxProgress
  /\ phase = "settled" /\ lines > 0 => finished = 1

(* A child told to stop does stop, even if it and its tools ignore SIGTERM  *)
(* and keep the pipes open: the promise settles.                            *)
StopSettles == signalled # "no" ~> phase = "settled"
=============================================================================
