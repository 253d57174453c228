----------------------------- MODULE ReviewCycle -----------------------------
(****************************************************************************)
(* One attempt at a node with a check or a review (pi-subprocess.ts,        *)
(* runPiReviewCycle): the check that must show it can judge the task, the   *)
(* work round, and then check, repair, review and repair until the check    *)
(* passes and the reviewer accepts, or a policy runs out. A round is one    *)
(* child: WorkerProcess is its inside, here it is what it shows and what it *)
(* settles with. A check run is a sequence of commands (check.ts).          *)
(*                                                                          *)
(* The code between two awaits is one action; the caller's signal, the      *)
(* clock and the frozen paths may change at each of them, and an observer   *)
(* of the progress may raise the signal inside one.                         *)
(****************************************************************************)
EXTENDS Naturals, Sequences, FiniteSets, FiniteSetsExt

CONSTANTS
  None,          \* no verdict, no status, no figures
  Passed,        \* outcome of a command that exits 0
  Uncounted,     \* outcome of a failing command that reports no count
  Commands,      \* commands of the check
  MaxCount,      \* bound of the model: failures a command reports
  MaxRounds,     \* CHECK_LIMITS.maxRounds
  MaxRuns,       \* CHECK_LIMITS.maxRuns
  MaxReviews,    \* the review policy's largest maxRounds
  MaxUse,        \* bound of the model: what one round may spend
  Limit          \* TASK_USAGE_LIMITS: sums saturate there

ASSUME ReviewCycleAssumption ==
  /\ None \notin Nat \cup {"accepted", "rejected", "thrown", "succeeded", "failed", "aborted"}
  /\ Passed \notin Nat /\ Uncounted \notin Nat /\ Passed # Uncounted
  /\ Commands \in Nat \ {0}
  /\ MaxRounds \in Nat /\ MaxRuns \in Nat /\ MaxRounds <= MaxRuns /\ MaxReviews \in Nat
  /\ MaxCount \in Nat /\ MaxUse \in Nat /\ Limit \in Nat

VARIABLES
  policy,      \* the task's check (rounds: 0 when it has none) and review (likewise)
  pc,          \* what is awaited
  kind,        \* the round in hand: "work", "repair" or "review"
  child,       \* its child was spawned
  live,        \* what the child has told of its spend
  running,     \* the check command in hand: "no", its "shell" runs, or the shell is gone
               \* and something it started holds its "pipes"
  outcomes,    \* outcomes of the check run in hand
  previous,    \* outcomes of the check run before
  checks,      \* check runs after the work
  reviews,     \* review rounds
  blocked,     \* the work report in hand has blockers
  trace,       \* how the check has ended so far
  total,       \* running: the cycle's spend
  share,       \* reviewRunning: the reviewer's part of it
  accounted,   \* every round so far told its usage
  shown,       \* the spend in the node's latest progress event
  begun,       \* "started" events of the node
  ended,       \* "finished" events of the node
  status,      \* the status of the last of them
  verdict,     \* how the promise settled
  paid,        \* the usage it settled with
  aborted,     \* the signal the caller holds
  inTime,      \* the deadline leaves room for another round
  drift,       \* the frozen paths differ from the baseline
  version,     \* work and repair rounds that reported
  compared,    \* the version the frozen paths were found unchanged with
  checked,     \* the version the check passed
  approved,    \* the version the reviewer accepted
  repairs,     \* repair rounds started
  cost,        \* what every round told it spent, unbounded
  missing      \* a round told no usage

check == <<running, outcomes, previous, checks, trace>>
money == <<total, share, accounted, cost, missing>>
events == <<shown, begun, ended, status>>
outcome == <<verdict, paid>>
world == <<inTime, drift>>
history == <<version, compared, checked, approved, repairs>>
vars == <<policy, pc, kind, child, live, check, reviews, blocked, money, events, outcome,
          aborted, world, history>>

HasCheck == policy.rounds > 0
HasReview == policy.reviews > 0
Outcomes == {Passed, Uncounted} \cup 1..MaxCount
Sum(a, b) == IF a + b < Limit THEN a + b ELSE Limit

(* The caller has none of these raised; a task with neither a check nor a   *)
(* review is a single round (WorkerProcess) and no cycle.                   *)
Init ==
  /\ policy \in {p \in [rounds : 0..MaxRounds, before : {"fail", "pass"}, frozen : BOOLEAN,
                        reviews : 0..MaxReviews] :
                   /\ p.rounds > 0 \/ p.reviews > 0
                   /\ p.rounds = 0 => p.before = "fail" /\ ~p.frozen}
  /\ pc = (IF HasCheck THEN "judging" ELSE "preparing")
  /\ kind = "work" /\ child = FALSE /\ live = 0
  /\ running = "no" /\ outcomes = <<>> /\ previous = <<>>
  /\ checks = 0 /\ reviews = 0 /\ blocked = FALSE /\ trace = "not_run"
  /\ total = 0 /\ share = 0 /\ accounted = TRUE /\ cost = 0 /\ missing = FALSE
  /\ shown = 0 /\ begun = 0 /\ ended = 0 /\ status = None
  /\ verdict = None /\ paid = None
  /\ aborted = FALSE /\ inTime = TRUE /\ drift = FALSE
  /\ version = 0 /\ compared = 0 /\ checked = 0 /\ approved = 0 /\ repairs = 0

-----------------------------------------------------------------------------
(* Progress. A step that shows something runs the observer, which may abort *)
(* the graph for its budget (orchestrator.ts).                              *)

Show(usage) == shown' = usage /\ aborted' \in BOOLEAN /\ (aborted => aborted')

(* Deviation: the child's own figures are shown.                            *)
Unrebased(usage) == usage

(* roundProgress: the child tells what it spent, the node what the cycle    *)
(* did.                                                                     *)
Rebased(usage) == Sum(total, usage)

(* Deviation: a round that tells nothing counts for nothing.                *)
SpendWhatIsTold(usage) ==
  /\ total' = IF usage = None THEN total ELSE Sum(total, usage)
  /\ share' = IF usage = None \/ kind # "review" THEN share ELSE Sum(share, usage)
  /\ UNCHANGED accounted
  /\ cost' = IF usage = None THEN cost ELSE cost + usage
  /\ missing' = (missing \/ usage = None)

(* spend, of the round in hand; cost and missing are what it must amount to *)
Spend(usage) ==
  /\ total' = IF usage = None THEN total ELSE Sum(total, usage)
  /\ share' = IF usage = None \/ kind # "review" THEN share ELSE Sum(share, usage)
  /\ accounted' = (accounted /\ usage # None)
  /\ cost' = IF usage = None THEN cost ELSE cost + usage
  /\ missing' = (missing \/ usage = None)

(* notify, then the promise settles, with the cycle's usage and none of the *)
(* last round's.                                                            *)
End(how, as) ==
  /\ pc' = "settled" /\ verdict' = how /\ status' = as
  /\ paid' = IF accounted' THEN total' ELSE None
  /\ ended' = ended + 1
  /\ Show(total')
  /\ child' = FALSE /\ live' = 0 /\ outcomes' = <<>>
  /\ UNCHANGED <<kind, running, checks, reviews, begun>>

(* settle: the runner fails a node whose report has blockers.               *)
Settle(blockers) ==
  End(IF blockers THEN "rejected" ELSE "accepted", IF blockers THEN "failed" ELSE "succeeded")

(* failed and cancelled: the status is read after the observer of the       *)
(* round's end ran, and before that of the node's.                          *)
Throw ==
  \E as \in {"aborted", "failed"} :
    /\ End("thrown", as)
    /\ aborted => as = "aborted"
    /\ as = "aborted" => aborted \/ (pc = "round" /\ child /\ aborted')

-----------------------------------------------------------------------------
(* What is started between two awaits.                                      *)

(* runCheck: without a directory for Python's cache no command runs.        *)
StartCheck ==
  /\ pc' = "checking" /\ checks' = checks + 1
  /\ outcomes' \in {<<>>, [i \in 1..Commands |-> Uncounted]}
  /\ child' = FALSE /\ live' = 0
  /\ UNCHANGED <<kind, running, reviews, begun, ended, status, outcome>>

(* Deviation: every child's start is the node's.                            *)
StartEach(what) ==
  /\ pc' = "round" /\ kind' = what /\ live' = 0
  /\ child' \in (IF aborted THEN {FALSE} ELSE BOOLEAN)
  /\ begun' = IF child' THEN begun + 1 ELSE begun
  /\ outcomes' = <<>>
  /\ UNCHANGED <<running, checks, ended, status, outcome>>

(* runRound: a child refused before it is spawned (the signal is up, or the *)
(* prompt is too large) shows nothing. Of the children that start, the work *)
(* round's alone is shown as the node's start.                              *)
StartRound(what) ==
  /\ pc' = "round" /\ kind' = what /\ live' = 0
  /\ child' \in (IF aborted THEN {FALSE} ELSE BOOLEAN)
  /\ begun' = IF child' /\ what = "work" THEN begun + 1 ELSE begun
  /\ outcomes' = <<>>
  /\ UNCHANGED <<running, checks, ended, status, outcome>>

StartReview == reviews' = reviews + 1 /\ StartRound("review")

(* repair, when its findings fit a payload.                                 *)
StartRepair == repairs' = repairs + 1 /\ StartRound("repair") /\ UNCHANGED reviews

-----------------------------------------------------------------------------
(* check.ts: the commands of a check run, one after the other. The signal   *)
(* kills the group of the one that runs, unless its shell is gone by then,  *)
(* and none is started after it. A command ends when nobody holds its pipes. *)

CheckRuns == pc \in {"judging", "checking"}

CommandStarts ==
  /\ CheckRuns /\ running = "no" /\ ~aborted /\ Len(outcomes) < Commands
  /\ running' = "shell"
  /\ UNCHANGED <<policy, pc, kind, child, live, outcomes, previous, checks, trace, reviews,
                 blocked, money, events, outcome, aborted, world, history>>

(* The shell exits before what it started. A signal raised later finds its  *)
(* exit code and kills nothing; one raised before has killed the group.     *)
ShellExits ==
  /\ running = "shell" /\ ~aborted
  /\ running' = "pipes"
  /\ UNCHANGED <<policy, pc, kind, child, live, outcomes, previous, checks, trace, reviews,
                 blocked, money, events, outcome, aborted, world, history>>

CommandEnds ==
  /\ running # "no"
  /\ running' = "no"
  /\ \E o \in Outcomes : outcomes' = Append(outcomes, o)
  /\ UNCHANGED <<policy, pc, kind, child, live, previous, checks, trace, reviews, blocked,
                 money, events, outcome, aborted, world, history>>

(* Deviation: the run waits for the commands the signal kept from starting. *)
RunToTheEnd == CheckRuns /\ running = "no" /\ Len(outcomes) = Commands

CheckOver == CheckRuns /\ running = "no" /\ (aborted \/ Len(outcomes) = Commands)

Failing(run) == {i \in DOMAIN run : run[i] # Passed}
Counted(run) == \A i \in Failing(run) : run[i] # Uncounted

(* improved: fewer commands fail, or as many with fewer failures in all.    *)
Improved ==
  LET was == Failing(previous)
      now == Failing(outcomes)
      Failures(run) == MapThenSumSet(LAMBDA i : run[i], Failing(run))
  IN  \/ Cardinality(now) < Cardinality(was)
      \/ /\ Cardinality(now) = Cardinality(was)
         /\ Counted(previous) /\ Counted(outcomes)
         /\ Failures(outcomes) < Failures(previous)

-----------------------------------------------------------------------------
(* Before any work: the check shows that it can judge, and the frozen paths *)
(* are fingerprinted.                                                       *)

(* cancelled, in this run of the check or a later one.                      *)
CheckCutShort ==
  /\ CheckOver /\ aborted
  /\ UNCHANGED <<policy, previous, trace, blocked, money, aborted, world, history>>
  /\ Throw

CanJudge == \A i \in DOMAIN outcomes : (outcomes[i] = Passed) <=> (policy.before = "pass")

Judges ==
  /\ pc = "judging" /\ CheckOver /\ ~aborted /\ CanJudge
  /\ previous' = outcomes /\ outcomes' = <<>>
  /\ pc' = IF policy.frozen THEN "baseline" ELSE "preparing"
  /\ Show(total)
  /\ UNCHANGED <<policy, kind, child, live, running, checks, trace, reviews, blocked, money,
                 begun, ended, status, outcome, world, history>>

CannotJudge ==
  /\ pc = "judging" /\ CheckOver /\ ~aborted /\ ~CanJudge
  /\ trace' = "unjudgeable" /\ previous' = outcomes
  /\ UNCHANGED <<policy, blocked, money, world, history>>
  /\ Settle(TRUE)

Baseline ==
  /\ pc = "baseline"
  /\ pc' = "preparing" /\ drift' = FALSE
  /\ UNCHANGED <<policy, kind, child, live, check, reviews, blocked, money, events, outcome,
                 aborted, inTime, history>>

(* Too many files to fingerprint.                                           *)
BaselineFails ==
  /\ pc = "baseline"
  /\ trace' = "unjudgeable"
  /\ UNCHANGED <<policy, previous, blocked, money, world, history>>
  /\ Settle(TRUE)

(* nodeSessions was awaited: the rounds resume the node's sessions or, when *)
(* their directory could not be made, start afresh.                         *)
Prepared ==
  /\ pc = "preparing"
  /\ StartRound("work")
  /\ IF child' THEN Show(total) ELSE UNCHANGED <<shown, aborted>>
  /\ UNCHANGED <<policy, previous, trace, reviews, blocked, money, world, history>>

-----------------------------------------------------------------------------
(* A round.                                                                 *)

(* One of the child's events, unless the child has shown too many.          *)
ChildTells ==
  /\ pc = "round" /\ child /\ live < MaxUse
  /\ live' = live + 1
  /\ Show(Rebased(live + 1)) \/ UNCHANGED <<shown, aborted>>
  /\ UNCHANGED <<policy, pc, kind, child, check, reviews, blocked, money, begun, ended, status,
                 outcome, world, history>>

RoundThrows ==
  /\ pc = "round"
  /\ \E usage \in (IF child THEN {None, live} ELSE {None}) : Spend(usage)
  /\ UNCHANGED <<policy, previous, trace, blocked, world, history>>
  /\ Throw

(* The child resolves: not when the signal was up before its end was shown. *)
Reports(what) ==
  /\ pc = "round" /\ child /\ kind \in what /\ ~aborted
  /\ \E usage \in {None, live} : Spend(usage)

(* Deviation: what a reviewer had repaired is not checked again.            *)
CheckedUntilReviewed == HasCheck /\ reviews = 0

(* The head of the loop: work goes to its check before its reviewer.        *)
Checked == HasCheck

WorkReported ==
  /\ Reports({"work", "repair"})
  /\ blocked' \in BOOLEAN /\ version' = version + 1
  /\ UNCHANGED <<policy, previous, trace, compared, checked, approved, world>>

WorkCompared ==
  /\ WorkReported /\ Checked /\ policy.frozen
  /\ pc' = "comparing"
  /\ Show(Rebased(live))
  /\ child' = FALSE /\ live' = 0
  /\ UNCHANGED <<kind, running, outcomes, checks, reviews, begun, ended, status,
                 outcome, repairs>>

WorkChecked ==
  /\ WorkReported /\ Checked /\ ~policy.frozen
  /\ StartCheck
  /\ Show(Rebased(live))
  /\ UNCHANGED repairs

WorkReviewed ==
  /\ WorkReported /\ ~Checked
  /\ StartReview
  /\ Show(IF child' THEN total' ELSE Rebased(live))
  /\ UNCHANGED repairs

ReviewAccepts ==
  /\ Reports({"review"})
  /\ approved' = version
  /\ UNCHANGED <<policy, previous, trace, blocked, world, version, compared, checked, repairs>>
  /\ Settle(blocked)

ReviewRepaired ==
  /\ Reports({"review"}) /\ reviews < policy.reviews
  /\ StartRepair
  /\ Show(IF child' THEN total' ELSE Rebased(live))
  /\ UNCHANGED <<policy, previous, trace, blocked, world, version, compared, checked, approved>>

(* Out of rounds, or findings too large for a repair.                       *)
ReviewRejects ==
  /\ Reports({"review"})
  /\ UNCHANGED <<policy, previous, trace, blocked, world, history>>
  /\ Settle(TRUE)

-----------------------------------------------------------------------------
(* The check after a work or repair round.                                  *)

FrozenKept ==
  /\ pc = "comparing" /\ ~drift
  /\ compared' = version
  /\ StartCheck
  /\ UNCHANGED <<policy, previous, trace, blocked, money, shown, aborted, world, version, checked,
                 approved, repairs>>

(* Changed, or no longer to be fingerprinted.                               *)
FrozenChanged ==
  /\ pc = "comparing"
  /\ trace' = "frozen_changed"
  /\ UNCHANGED <<policy, previous, blocked, money, world, history>>
  /\ Settle(TRUE)

CheckDone(as) ==
  /\ pc = "checking" /\ CheckOver /\ ~aborted
  /\ trace' = as /\ (as = "passed" <=> Failing(outcomes) = {})
  /\ previous' = outcomes
  /\ UNCHANGED <<policy, blocked, money, world, version, compared, approved>>

CheckPassed == checked' = version /\ CheckDone("passed") /\ UNCHANGED repairs

CheckAccepts ==
  /\ CheckPassed /\ ~HasReview
  /\ Settle(blocked)

CheckReviewed ==
  /\ CheckPassed /\ HasReview
  /\ StartReview
  /\ Show(total)

Another == checks < policy.rounds \/ (Improved /\ checks < MaxRuns /\ inTime)

CheckRepaired ==
  /\ CheckDone("failed") /\ Another
  /\ StartRepair
  /\ Show(total)
  /\ UNCHANGED checked

(* No repair is left, or its payload would be too large.                    *)
CheckRejects ==
  /\ CheckDone("failed")
  /\ UNCHANGED <<checked, repairs>>
  /\ Settle(TRUE)

-----------------------------------------------------------------------------
(* The caller's signal: an abort of the graph or the node's timeout.        *)
Abort ==
  /\ pc # "settled" /\ ~aborted
  /\ aborted' = TRUE
  /\ UNCHANGED <<policy, pc, kind, child, live, check, reviews, blocked, money, events, outcome,
                 world, history>>

(* Once there is no time left for the slowest round there is none later.    *)
TimeRunsOut ==
  /\ pc # "settled" /\ HasCheck /\ inTime
  /\ inTime' = FALSE
  /\ UNCHANGED <<policy, pc, kind, child, live, check, reviews, blocked, money, events, outcome,
                 aborted, drift, history>>

(* A worker, of this task or another, edits the frozen paths or restores    *)
(* them.                                                                    *)
Touch ==
  /\ pc # "settled" /\ policy.frozen
  /\ drift' = ~drift
  /\ UNCHANGED <<policy, pc, kind, child, live, check, reviews, blocked, money, events, outcome,
                 aborted, inTime, history>>

Round ==
  \/ Prepared \/ ChildTells \/ RoundThrows
  \/ WorkCompared \/ WorkChecked \/ WorkReviewed
  \/ ReviewAccepts \/ ReviewRepaired \/ ReviewRejects

Check ==
  \/ CommandStarts \/ ShellExits \/ CommandEnds
  \/ CheckCutShort \/ Judges \/ CannotJudge \/ Baseline \/ BaselineFails
  \/ FrozenKept \/ FrozenChanged
  \/ CheckAccepts \/ CheckReviewed \/ CheckRepaired \/ CheckRejects

Next == Round \/ Check \/ Abort \/ TimeRunsOut \/ Touch

Spec == Init /\ [][Next]_vars

(* A child that is told to stop settles (WorkerProcess!StopSettles), and a  *)
(* command whose group is killed ends, for nothing it started leaves the    *)
(* group (an assumption); the runner always sets a timeout. Nothing makes a *)
(* process let go of the pipes of a shell that is gone.                     *)
FairSpec ==
  /\ Spec
  /\ WF_vars(\/ CheckCutShort \/ Judges \/ CannotJudge \/ Baseline \/ Prepared \/ FrozenKept
             \/ FrozenChanged \/ CheckAccepts \/ CheckReviewed \/ CheckRepaired \/ CheckRejects)
  /\ WF_vars(aborted /\ (RoundThrows \/ (running = "shell" /\ CommandEnds)))
  /\ WF_vars(Abort)

-----------------------------------------------------------------------------
TypeOK ==
  /\ policy \in [rounds : 0..MaxRounds, before : {"fail", "pass"}, frozen : BOOLEAN,
                 reviews : 0..MaxReviews]
  /\ pc \in {"judging", "baseline", "preparing", "round", "comparing", "checking", "settled"}
  /\ kind \in {"work", "repair", "review"} /\ child \in BOOLEAN /\ live \in 0..MaxUse
  /\ running \in {"no", "shell", "pipes"} /\ outcomes \in Seq(Outcomes) /\ previous \in Seq(Outcomes)
  /\ checks \in Nat /\ reviews \in Nat /\ blocked \in BOOLEAN
  /\ trace \in {"not_run", "unjudgeable", "passed", "failed", "frozen_changed"}
  /\ total \in 0..Limit /\ share \in 0..Limit /\ accounted \in BOOLEAN /\ cost \in Nat
  /\ missing \in BOOLEAN
  /\ shown \in 0..Limit /\ begun \in Nat /\ ended \in Nat
  /\ status \in {None, "succeeded", "failed", "aborted"}
  /\ verdict \in {None, "accepted", "rejected", "thrown"} /\ paid \in {None} \cup 0..Limit
  /\ aborted \in BOOLEAN /\ inTime \in BOOLEAN /\ drift \in BOOLEAN
  /\ version \in Nat /\ compared \in Nat /\ checked \in Nat /\ approved \in Nat /\ repairs \in Nat

(* A node that is accepted was judged as it is: the check passed on its     *)
(* last version, having found the frozen paths unchanged with it, and the   *)
(* reviewer accepted that version too; and a reviewer is only ever given    *)
(* work that passed its check (README, "A check runs before every review"). *)
SuccessIsJudged ==
  /\ verdict = "accepted" =>
       /\ version > 0 /\ ~blocked
       /\ HasReview => approved = version
  /\ verdict = "accepted" \/ (pc = "round" /\ kind = "review") =>
       /\ HasCheck => checked = version
       /\ policy.frozen => compared = version

(* The usage a node settles with, however it settles, is the sum over every *)
(* round of it, the one that threw included, up to the limit, and there is  *)
(* none as soon as one round told nothing; the reviewer's share is part of  *)
(* it.                                                                      *)
SpendExact ==
  /\ verdict # None => (paid = None <=> missing)
  /\ paid # None => paid = Sum(cost, 0) /\ share <= paid

(* The node an observer sees starts at most once, whatever its rounds, ends *)
(* exactly when its promise settles, once, in the state the promise settles *)
(* in, and its last event shows the usage it settles with.                  *)
OneLife ==
  /\ begun <= 1
  /\ ended = (IF verdict = None THEN 0 ELSE 1)
  /\ verdict = "accepted" <=> status = "succeeded"
  /\ verdict = "rejected" => status = "failed"
  /\ status = "aborted" => aborted
  /\ paid # None => shown = paid

(* A consumer keeps a node's latest event: while every round told its       *)
(* usage, what is shown of a node's spend never falls, from one round to    *)
(* the next as little as inside one (the budget adds these figures up).     *)
LiveNeverFalls == [][~missing' => shown' >= shown]_vars

(* The loop is bounded by its policies: past its rounds a check runs again  *)
(* only while it improves and up to MaxRuns, and a reviewer's repair gives  *)
(* it one run more.                                                         *)
RoundsBounded ==
  /\ reviews <= policy.reviews
  /\ repairs <= checks + reviews
  /\ checks <= repairs + 1
  /\ HasCheck => checks <= MaxRuns + reviews

(* However long a worker or a command would run, the node's timeout ends    *)
(* the attempt, with one exception: a command whose shell exited and left   *)
(* something on its pipes. The signal kills nothing then (`stop` returns on *)
(* an exit code), and the attempt hangs for as long as the pipes are held,  *)
(* though the comment of runCommand says an abort "takes down anything it   *)
(* started, the same way a worker process is stopped".                      *)
CycleEnds == <>[](pc = "settled" \/ running = "pipes")
=============================================================================
