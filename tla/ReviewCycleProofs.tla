--------------------------- MODULE ReviewCycleProofs ---------------------------
(****************************************************************************)
(* Theorems of ReviewCycle, for every policy and every bound.               *)
(*                                                                          *)
(* Four arguments over one cycle. Money: the running total is the sum of    *)
(* what every round told, saturated once or many times alike (AccountInv).  *)
(* Life: the node's start belongs to the work round and its end to the step *)
(* that settles (LifeInv). Judgement: wherever a reviewer is asked, the     *)
(* version in hand passed its check (JudgedInv). Termination: every round   *)
(* is paid for by a check run or a review (BoundInv).                       *)
(****************************************************************************)
EXTENDS ReviewCycle, TLAPS

PhaseInv ==
  /\ verdict = None <=> pc # "settled"
  /\ pc # "round" => live = 0
  /\ policy.frozen => HasCheck
  /\ HasCheck \/ HasReview

AccountInv ==
  /\ accounted <=> ~missing
  /\ total = Sum(cost, 0)
  /\ share <= total
  /\ verdict # None => paid = IF accounted THEN total ELSE None

LifeInv ==
  /\ pc \in {"judging", "baseline", "preparing"} => begun = 0
  /\ verdict = None => status = None /\ paid = None
  /\ OneLife

JudgedInv ==
  /\ pc \in {"comparing", "checking"} \/ (pc = "round" /\ kind = "review") => version > 0
  /\ pc = "checking" /\ policy.frozen => compared = version
  /\ SuccessIsJudged

(* What is shown is at most what is known.                                  *)
ShownInv == ~missing => shown <= Sum(total, live)

Working == pc = "round" /\ kind # "review"
Reviewing == pc = "round" /\ kind = "review"

BoundInv ==
  /\ pc \in {"judging", "baseline", "preparing"} => checks = 0 /\ reviews = 0 /\ repairs = 0
  /\ Working /\ kind = "work" => checks = 0 /\ reviews = 0 /\ repairs = 0
  /\ pc \in {"comparing", "checking"} \/ Working => (HasReview => reviews < policy.reviews)
  /\ pc \in {"comparing", "checking"} => HasCheck
  /\ pc = "comparing" \/ Working => checks <= repairs
  /\ pc = "checking" \/ Reviewing => repairs < checks + reviews
  /\ HasCheck /\ pc \notin {"checking", "settled"} => checks < MaxRuns + reviews
  /\ RoundsBounded

IInv == /\ TypeOK /\ PhaseInv /\ AccountInv /\ LifeInv /\ JudgedInv /\ ShownInv /\ BoundInv

RoundEnds ==
  \/ RoundThrows \/ WorkCompared \/ WorkChecked \/ WorkReviewed
  \/ ReviewAccepts \/ ReviewRepaired \/ ReviewRejects

LEMMA SumTypes == \A a, b \in Nat : Sum(a, b) \in 0..Limit
BY ReviewCycleAssumption DEF Sum

LEMMA InitIInv == Init => IInv
<1> SUFFICES ASSUME Init PROVE IInv
  OBVIOUS
<1> USE ReviewCycleAssumption
<1>1. TypeOK
  <2>1. outcomes \in Seq(Outcomes) /\ previous \in Seq(Outcomes)
    BY DEF Init
  <2>2. policy \in [rounds : 0..MaxRounds, before : {"fail", "pass"}, frozen : BOOLEAN,
                    reviews : 0..MaxReviews]
    BY DEF Init
  <2>3. /\ pc \in {"judging", "preparing"} /\ kind = "work" /\ child = FALSE /\ live = 0
        /\ running = "no" /\ checks = 0 /\ reviews = 0 /\ blocked = FALSE /\ trace = "not_run"
    BY DEF Init
  <2>4. /\ total = 0 /\ share = 0 /\ accounted = TRUE /\ cost = 0 /\ missing = FALSE
        /\ shown = 0 /\ begun = 0 /\ ended = 0 /\ status = None /\ verdict = None /\ paid = None
    BY DEF Init
  <2>5. /\ aborted = FALSE /\ inTime = TRUE /\ drift = FALSE
        /\ version = 0 /\ compared = 0 /\ checked = 0 /\ approved = 0 /\ repairs = 0
    BY DEF Init
  <2>6. /\ live \in 0..MaxUse /\ total \in 0..Limit /\ share \in 0..Limit /\ shown \in 0..Limit
        /\ checks \in Nat /\ reviews \in Nat /\ cost \in Nat /\ begun \in Nat /\ ended \in Nat
        /\ version \in Nat /\ compared \in Nat /\ checked \in Nat /\ approved \in Nat
        /\ repairs \in Nat
    BY <2>3, <2>4, <2>5
  <2>7. /\ child \in BOOLEAN /\ running \in {"no", "shell", "pipes"} /\ blocked \in BOOLEAN
        /\ accounted \in BOOLEAN /\ missing \in BOOLEAN
        /\ aborted \in BOOLEAN /\ inTime \in BOOLEAN /\ drift \in BOOLEAN
    BY <2>3, <2>4, <2>5
  <2>8. /\ pc \in {"judging", "baseline", "preparing", "round", "comparing", "checking", "settled"}
        /\ kind \in {"work", "repair", "review"}
        /\ trace \in {"not_run", "unjudgeable", "passed", "failed", "frozen_changed"}
    BY <2>3
  <2>9. /\ status \in {None, "succeeded", "failed", "aborted"}
        /\ verdict \in {None, "accepted", "rejected", "thrown"} /\ paid \in {None} \cup 0..Limit
    BY <2>4
  <2> QED
    BY <2>1, <2>2, <2>6, <2>7, <2>8, <2>9 DEF TypeOK
<1>2. PhaseInv
  BY DEF Init, PhaseInv, HasCheck, HasReview
<1>3. AccountInv /\ ShownInv
  BY DEF Init, AccountInv, ShownInv, Sum
<1>4. LifeInv
  BY DEF Init, LifeInv, OneLife, HasCheck
<1>5. JudgedInv
  BY DEF Init, JudgedInv, SuccessIsJudged, HasCheck, HasReview
<1>6. BoundInv
  BY DEF Init, BoundInv, RoundsBounded, HasCheck, HasReview, Working, Reviewing
<1> QED
  BY <1>1, <1>2, <1>3, <1>4, <1>5, <1>6 DEF IInv

-----------------------------------------------------------------------------
(* A round that ends tells what its child told last, or nothing.            *)
LEMMA RoundTells ==
  ASSUME RoundEnds
  PROVE  \E usage \in {None, live} : Spend(usage)
<1>1. CASE RoundThrows
  <2>1. PICK usage \in (IF child THEN {None, live} ELSE {None}) : Spend(usage)
    BY <1>1 DEF RoundThrows
  <2> QED
    BY <2>1
<1>2. CASE Reports({"work", "repair"}) \/ Reports({"review"})
  <2>1. PICK usage \in {None, live} : Spend(usage)
    BY <1>2 DEF Reports
  <2> QED
    BY <2>1
<1> QED
  BY <1>1, <1>2 DEF RoundEnds, WorkCompared, WorkChecked, WorkReviewed, WorkReported,
     ReviewAccepts, ReviewRepaired, ReviewRejects

LEMMA SpendTypes ==
  ASSUME TypeOK, RoundEnds
  PROVE  /\ total' \in 0..Limit /\ share' \in 0..Limit /\ accounted' \in BOOLEAN
         /\ cost' \in Nat /\ missing' \in BOOLEAN
<1>1. PICK usage \in {None, live} : Spend(usage)
  BY RoundTells
<1>2. /\ total \in 0..Limit /\ share \in 0..Limit /\ accounted \in BOOLEAN
      /\ cost \in Nat /\ missing \in BOOLEAN /\ live \in Nat
  BY ReviewCycleAssumption DEF TypeOK
<1>3. accounted' \in BOOLEAN /\ missing' \in BOOLEAN
  BY <1>1, <1>2 DEF Spend
<1>4. CASE usage = None
  BY <1>1, <1>2, <1>3, <1>4 DEF Spend
<1>5. CASE usage # None
  <2>1. total' = Sum(total, live) /\ cost' = cost + live /\ share' \in {share, Sum(share, live)}
    BY <1>1, <1>5 DEF Spend
  <2> QED
    <3>1. total \in Nat /\ share \in Nat /\ Limit \in Nat
      BY <1>2, ReviewCycleAssumption
    <3>2. Sum(total, live) \in 0..Limit /\ Sum(share, live) \in 0..Limit
      BY <1>2, <3>1, SumTypes
    <3> QED
      BY <1>2, <1>3, <2>1, <3>2
<1> QED
  BY <1>4, <1>5

(* Saturating at every round or once at the end is the same.                *)
LEMMA Spent ==
  ASSUME TypeOK, AccountInv, RoundEnds
  PROVE  /\ accounted' <=> ~missing'
         /\ total' = Sum(cost', 0) /\ share' <= total'
         /\ ~missing' => ~missing /\ total' = Sum(total, live)
<1>1. PICK usage \in {None, live} : Spend(usage)
  BY RoundTells
<1>2. /\ total \in 0..Limit /\ share \in 0..Limit /\ cost \in Nat /\ live \in Nat /\ Limit \in Nat
      /\ None # live /\ accounted \in BOOLEAN /\ missing \in BOOLEAN
  BY ReviewCycleAssumption DEF TypeOK
<1>3. (accounted <=> ~missing) /\ total = Sum(cost, 0) /\ share <= total
  BY DEF AccountInv
<1>4. CASE usage = None
  BY <1>1, <1>2, <1>3, <1>4 DEF Spend
<1>5. CASE usage # None
  <2>1. /\ total' = Sum(total, live) /\ cost' = cost + live
        /\ share' \in {share, Sum(share, live)}
        /\ accounted' = accounted /\ missing' = missing
    BY <1>1, <1>2, <1>5 DEF Spend
  <2> QED
    BY <1>2, <1>3, <2>1 DEF Sum
<1> QED
  BY <1>4, <1>5

(* Types, by the part of the state they are about.                          *)
LEMMA MoneyTypes ==
  ASSUME TypeOK, [Next]_vars
  PROVE  /\ total' \in 0..Limit /\ share' \in 0..Limit /\ accounted' \in BOOLEAN
         /\ cost' \in Nat /\ missing' \in BOOLEAN
<1>1. /\ total \in 0..Limit /\ share \in 0..Limit /\ accounted \in BOOLEAN
      /\ cost \in Nat /\ missing \in BOOLEAN
  BY DEF TypeOK
<1> USE <1>1, ReviewCycleAssumption DEF money
<1>2. CASE Prepared
  BY <1>2 DEF Prepared, StartRound, Show
<1>3. CASE ChildTells
  BY <1>3 DEF ChildTells, Show, Rebased
<1>4. CASE RoundEnds
  BY <1>4, SpendTypes
<1>5. CASE CommandStarts
  BY <1>5 DEF CommandStarts
<1>6. CASE CommandEnds
  BY <1>6 DEF CommandEnds
<1>6a. CASE ShellExits
  BY <1>6a DEF ShellExits
<1>7. CASE CheckCutShort
  BY <1>7 DEF CheckCutShort, Throw, End, Show
<1>8. CASE Judges
  BY <1>8 DEF Judges, Show
<1>9. CASE CannotJudge
  BY <1>9 DEF CannotJudge, Settle, End, Show
<1>10. CASE Baseline
  BY <1>10 DEF Baseline
<1>11. CASE BaselineFails
  BY <1>11 DEF BaselineFails, Settle, End, Show
<1>12. CASE FrozenKept
  BY <1>12 DEF FrozenKept, StartCheck
<1>13. CASE FrozenChanged
  BY <1>13 DEF FrozenChanged, Settle, End, Show
<1>14. CASE CheckAccepts
  BY <1>14 DEF CheckAccepts, CheckPassed, CheckDone, Settle, End, Show
<1>15. CASE CheckReviewed
  BY <1>15 DEF CheckReviewed, CheckPassed, CheckDone, StartReview, StartRound, Show
<1>16. CASE CheckRepaired
  BY <1>16 DEF CheckRepaired, CheckDone, StartRepair, StartRound, Show
<1>17. CASE CheckRejects
  BY <1>17 DEF CheckRejects, CheckDone, Settle, End, Show
<1>18. CASE Abort
  BY <1>18 DEF Abort
<1>19. CASE TimeRunsOut
  BY <1>19 DEF TimeRunsOut
<1>20. CASE Touch
  BY <1>20 DEF Touch
<1>21. CASE UNCHANGED vars
  BY <1>21 DEF vars
<1> QED
  BY <1>2, <1>3, <1>4, <1>5, <1>6, <1>6a, <1>7, <1>8, <1>9, <1>10, <1>11, <1>12, <1>13, <1>14, <1>15,
     <1>16, <1>17, <1>18, <1>19, <1>20, <1>21 DEF Next, Round, Check, RoundEnds

LEMMA PlaceTypes ==
  ASSUME TypeOK, [Next]_vars
  PROVE  pc' \in {"judging", "baseline", "preparing", "round", "comparing", "checking",
             "settled"}
<1>1. pc \in {"judging", "baseline", "preparing", "round", "comparing", "checking",
             "settled"}
  BY DEF TypeOK
<1> USE <1>1, ReviewCycleAssumption
<1>2. CASE Prepared
  BY <1>2 DEF Prepared, StartRound, Show
<1>3. CASE ChildTells
  BY <1>3 DEF ChildTells, Show, Rebased
<1>4. CASE RoundThrows
  BY <1>4 DEF RoundThrows, Throw, End, Show
<1>5. CASE WorkCompared
  BY <1>5 DEF WorkCompared, WorkReported, Reports, Show, Rebased
<1>6. CASE WorkChecked
  BY <1>6 DEF WorkChecked, WorkReported, Reports, StartCheck, Show, Rebased
<1>7. CASE WorkReviewed
  BY <1>7 DEF WorkReviewed, WorkReported, Reports, StartReview, StartRound, Show, Rebased
<1>8. CASE ReviewAccepts
  BY <1>8 DEF ReviewAccepts, Reports, Settle, End, Show
<1>9. CASE ReviewRepaired
  BY <1>9 DEF ReviewRepaired, Reports, StartRepair, StartRound, Show, Rebased
<1>10. CASE ReviewRejects
  BY <1>10 DEF ReviewRejects, Reports, Settle, End, Show
<1>11. CASE CommandStarts
  BY <1>11 DEF CommandStarts
<1>12. CASE CommandEnds
  BY <1>12 DEF CommandEnds
<1>12a. CASE ShellExits
  BY <1>12a DEF ShellExits
<1>13. CASE CheckCutShort
  BY <1>13 DEF CheckCutShort, Throw, End, Show
<1>14. CASE Judges
  BY <1>14 DEF Judges, Show
<1>15. CASE CannotJudge
  BY <1>15 DEF CannotJudge, Settle, End, Show
<1>16. CASE Baseline
  BY <1>16 DEF Baseline
<1>17. CASE BaselineFails
  BY <1>17 DEF BaselineFails, Settle, End, Show
<1>18. CASE FrozenKept
  BY <1>18 DEF FrozenKept, StartCheck
<1>19. CASE FrozenChanged
  BY <1>19 DEF FrozenChanged, Settle, End, Show
<1>20. CASE CheckAccepts
  BY <1>20 DEF CheckAccepts, CheckPassed, CheckDone, Settle, End, Show
<1>21. CASE CheckReviewed
  BY <1>21 DEF CheckReviewed, CheckPassed, CheckDone, StartReview, StartRound, Show
<1>22. CASE CheckRepaired
  BY <1>22 DEF CheckRepaired, CheckDone, StartRepair, StartRound, Show
<1>23. CASE CheckRejects
  BY <1>23 DEF CheckRejects, CheckDone, Settle, End, Show
<1>24. CASE Abort
  BY <1>24 DEF Abort
<1>25. CASE TimeRunsOut
  BY <1>25 DEF TimeRunsOut
<1>26. CASE Touch
  BY <1>26 DEF Touch
<1>27. CASE UNCHANGED vars
  BY <1>27 DEF vars
<1> QED
  BY <1>2, <1>3, <1>4, <1>5, <1>6, <1>7, <1>8, <1>9, <1>10, <1>11, <1>12, <1>12a, <1>13, <1>14, <1>15,
     <1>16, <1>17, <1>18, <1>19, <1>20, <1>21, <1>22, <1>23, <1>24, <1>25, <1>26, <1>27 DEF Next,
     Round, Check

LEMMA ChildTypes ==
  ASSUME TypeOK, [Next]_vars
  PROVE  child' \in BOOLEAN
<1>1. child \in BOOLEAN
  BY DEF TypeOK
<1> USE <1>1, ReviewCycleAssumption
<1>2. CASE Prepared
  BY <1>2 DEF Prepared, StartRound, Show
<1>3. CASE ChildTells
  BY <1>3 DEF ChildTells, Show, Rebased
<1>4. CASE RoundThrows
  BY <1>4 DEF RoundThrows, Throw, End, Show
<1>5. CASE WorkCompared
  BY <1>5 DEF WorkCompared, WorkReported, Reports, Show, Rebased
<1>6. CASE WorkChecked
  BY <1>6 DEF WorkChecked, WorkReported, Reports, StartCheck, Show, Rebased
<1>7. CASE WorkReviewed
  BY <1>7 DEF WorkReviewed, WorkReported, Reports, StartReview, StartRound, Show, Rebased
<1>8. CASE ReviewAccepts
  BY <1>8 DEF ReviewAccepts, Reports, Settle, End, Show
<1>9. CASE ReviewRepaired
  BY <1>9 DEF ReviewRepaired, Reports, StartRepair, StartRound, Show, Rebased
<1>10. CASE ReviewRejects
  BY <1>10 DEF ReviewRejects, Reports, Settle, End, Show
<1>11. CASE CommandStarts
  BY <1>11 DEF CommandStarts
<1>12. CASE CommandEnds
  BY <1>12 DEF CommandEnds
<1>12a. CASE ShellExits
  BY <1>12a DEF ShellExits
<1>13. CASE CheckCutShort
  BY <1>13 DEF CheckCutShort, Throw, End, Show
<1>14. CASE Judges
  BY <1>14 DEF Judges, Show
<1>15. CASE CannotJudge
  BY <1>15 DEF CannotJudge, Settle, End, Show
<1>16. CASE Baseline
  BY <1>16 DEF Baseline
<1>17. CASE BaselineFails
  BY <1>17 DEF BaselineFails, Settle, End, Show
<1>18. CASE FrozenKept
  BY <1>18 DEF FrozenKept, StartCheck
<1>19. CASE FrozenChanged
  BY <1>19 DEF FrozenChanged, Settle, End, Show
<1>20. CASE CheckAccepts
  BY <1>20 DEF CheckAccepts, CheckPassed, CheckDone, Settle, End, Show
<1>21. CASE CheckReviewed
  BY <1>21 DEF CheckReviewed, CheckPassed, CheckDone, StartReview, StartRound, Show
<1>22. CASE CheckRepaired
  BY <1>22 DEF CheckRepaired, CheckDone, StartRepair, StartRound, Show
<1>23. CASE CheckRejects
  BY <1>23 DEF CheckRejects, CheckDone, Settle, End, Show
<1>24. CASE Abort
  BY <1>24 DEF Abort
<1>25. CASE TimeRunsOut
  BY <1>25 DEF TimeRunsOut
<1>26. CASE Touch
  BY <1>26 DEF Touch
<1>27. CASE UNCHANGED vars
  BY <1>27 DEF vars
<1> QED
  BY <1>2, <1>3, <1>4, <1>5, <1>6, <1>7, <1>8, <1>9, <1>10, <1>11, <1>12, <1>12a, <1>13, <1>14, <1>15,
     <1>16, <1>17, <1>18, <1>19, <1>20, <1>21, <1>22, <1>23, <1>24, <1>25, <1>26, <1>27 DEF Next,
     Round, Check

LEMMA RoundTypes ==
  ASSUME TypeOK, [Next]_vars
  PROVE  kind' \in {"work", "repair", "review"} /\ live' \in 0..MaxUse
<1>1. kind \in {"work", "repair", "review"} /\ live \in 0..MaxUse
  BY ReviewCycleAssumption DEF TypeOK
<1> USE <1>1, ReviewCycleAssumption
<1>2. CASE Prepared
  BY <1>2 DEF Prepared, StartRound, Show
<1>3. CASE ChildTells
  BY <1>3 DEF ChildTells, Show, Rebased
<1>4. CASE RoundThrows
  BY <1>4 DEF RoundThrows, Throw, End, Show
<1>5. CASE WorkCompared
  BY <1>5 DEF WorkCompared, WorkReported, Reports, Show, Rebased
<1>6. CASE WorkChecked
  BY <1>6 DEF WorkChecked, WorkReported, Reports, StartCheck, Show, Rebased
<1>7. CASE WorkReviewed
  BY <1>7 DEF WorkReviewed, WorkReported, Reports, StartReview, StartRound, Show, Rebased
<1>8. CASE ReviewAccepts
  BY <1>8 DEF ReviewAccepts, Reports, Settle, End, Show
<1>9. CASE ReviewRepaired
  BY <1>9 DEF ReviewRepaired, Reports, StartRepair, StartRound, Show, Rebased
<1>10. CASE ReviewRejects
  BY <1>10 DEF ReviewRejects, Reports, Settle, End, Show
<1>11. CASE CommandStarts
  BY <1>11 DEF CommandStarts
<1>12. CASE CommandEnds
  BY <1>12 DEF CommandEnds
<1>12a. CASE ShellExits
  BY <1>12a DEF ShellExits
<1>13. CASE CheckCutShort
  BY <1>13 DEF CheckCutShort, Throw, End, Show
<1>14. CASE Judges
  BY <1>14 DEF Judges, Show
<1>15. CASE CannotJudge
  BY <1>15 DEF CannotJudge, Settle, End, Show
<1>16. CASE Baseline
  BY <1>16 DEF Baseline
<1>17. CASE BaselineFails
  BY <1>17 DEF BaselineFails, Settle, End, Show
<1>18. CASE FrozenKept
  BY <1>18 DEF FrozenKept, StartCheck
<1>19. CASE FrozenChanged
  BY <1>19 DEF FrozenChanged, Settle, End, Show
<1>20. CASE CheckAccepts
  BY <1>20 DEF CheckAccepts, CheckPassed, CheckDone, Settle, End, Show
<1>21. CASE CheckReviewed
  BY <1>21 DEF CheckReviewed, CheckPassed, CheckDone, StartReview, StartRound, Show
<1>22. CASE CheckRepaired
  BY <1>22 DEF CheckRepaired, CheckDone, StartRepair, StartRound, Show
<1>23. CASE CheckRejects
  BY <1>23 DEF CheckRejects, CheckDone, Settle, End, Show
<1>24. CASE Abort
  BY <1>24 DEF Abort
<1>25. CASE TimeRunsOut
  BY <1>25 DEF TimeRunsOut
<1>26. CASE Touch
  BY <1>26 DEF Touch
<1>27. CASE UNCHANGED vars
  BY <1>27 DEF vars
<1> QED
  BY <1>2, <1>3, <1>4, <1>5, <1>6, <1>7, <1>8, <1>9, <1>10, <1>11, <1>12, <1>12a, <1>13, <1>14, <1>15,
     <1>16, <1>17, <1>18, <1>19, <1>20, <1>21, <1>22, <1>23, <1>24, <1>25, <1>26, <1>27 DEF Next,
     Round, Check

LEMMA CountTypes ==
  ASSUME TypeOK, [Next]_vars
  PROVE  /\ running' \in {"no", "shell", "pipes"} /\ checks' \in Nat
         /\ reviews' \in Nat /\ blocked' \in BOOLEAN
<1>1. /\ running \in {"no", "shell", "pipes"} /\ checks \in Nat
      /\ reviews \in Nat /\ blocked \in BOOLEAN
  BY DEF TypeOK
<1> USE <1>1, ReviewCycleAssumption DEF check
<1>2. CASE Prepared
  BY <1>2 DEF Prepared, StartRound, Show
<1>3. CASE ChildTells
  BY <1>3 DEF ChildTells, Show, Rebased
<1>4. CASE RoundThrows
  BY <1>4 DEF RoundThrows, Throw, End, Show
<1>5. CASE WorkCompared
  BY <1>5 DEF WorkCompared, WorkReported, Reports, Show, Rebased
<1>6. CASE WorkChecked
  BY <1>6 DEF WorkChecked, WorkReported, Reports, StartCheck, Show, Rebased
<1>7. CASE WorkReviewed
  BY <1>7 DEF WorkReviewed, WorkReported, Reports, StartReview, StartRound, Show, Rebased
<1>8. CASE ReviewAccepts
  BY <1>8 DEF ReviewAccepts, Reports, Settle, End, Show
<1>9. CASE ReviewRepaired
  BY <1>9 DEF ReviewRepaired, Reports, StartRepair, StartRound, Show, Rebased
<1>10. CASE ReviewRejects
  BY <1>10 DEF ReviewRejects, Reports, Settle, End, Show
<1>11. CASE CommandStarts
  BY <1>11 DEF CommandStarts
<1>12. CASE CommandEnds
  BY <1>12 DEF CommandEnds
<1>12a. CASE ShellExits
  BY <1>12a DEF ShellExits
<1>13. CASE CheckCutShort
  BY <1>13 DEF CheckCutShort, Throw, End, Show
<1>14. CASE Judges
  BY <1>14 DEF Judges, Show
<1>15. CASE CannotJudge
  BY <1>15 DEF CannotJudge, Settle, End, Show
<1>16. CASE Baseline
  BY <1>16 DEF Baseline
<1>17. CASE BaselineFails
  BY <1>17 DEF BaselineFails, Settle, End, Show
<1>18. CASE FrozenKept
  BY <1>18 DEF FrozenKept, StartCheck
<1>19. CASE FrozenChanged
  BY <1>19 DEF FrozenChanged, Settle, End, Show
<1>20. CASE CheckAccepts
  BY <1>20 DEF CheckAccepts, CheckPassed, CheckDone, Settle, End, Show
<1>21. CASE CheckReviewed
  BY <1>21 DEF CheckReviewed, CheckPassed, CheckDone, StartReview, StartRound, Show
<1>22. CASE CheckRepaired
  BY <1>22 DEF CheckRepaired, CheckDone, StartRepair, StartRound, Show
<1>23. CASE CheckRejects
  BY <1>23 DEF CheckRejects, CheckDone, Settle, End, Show
<1>24. CASE Abort
  BY <1>24 DEF Abort
<1>25. CASE TimeRunsOut
  BY <1>25 DEF TimeRunsOut
<1>26. CASE Touch
  BY <1>26 DEF Touch
<1>27. CASE UNCHANGED vars
  BY <1>27 DEF vars
<1> QED
  BY <1>2, <1>3, <1>4, <1>5, <1>6, <1>7, <1>8, <1>9, <1>10, <1>11, <1>12, <1>12a, <1>13, <1>14, <1>15,
     <1>16, <1>17, <1>18, <1>19, <1>20, <1>21, <1>22, <1>23, <1>24, <1>25, <1>26, <1>27 DEF Next,
     Round, Check

LEMMA StartTypes ==
  ASSUME StartCheck
  PROVE  outcomes' \in Seq(Outcomes)
<1>1. CASE outcomes' = <<>>
  BY <1>1
<1>2. CASE outcomes' = [i \in 1..Commands |-> Uncounted]
  <2>1. Uncounted \in Outcomes /\ Commands \in Nat
    BY ReviewCycleAssumption DEF Outcomes
  <2> QED
    BY <1>2, <2>1
<1> QED
  BY <1>1, <1>2 DEF StartCheck

LEMMA CheckTypes ==
  ASSUME TypeOK, [Next]_vars
  PROVE  /\ outcomes' \in Seq(Outcomes) /\ previous' \in Seq(Outcomes)
         /\ trace' \in {"not_run", "unjudgeable", "passed", "failed", "frozen_changed"}
<1>1. /\ outcomes \in Seq(Outcomes) /\ previous \in Seq(Outcomes)
      /\ trace \in {"not_run", "unjudgeable", "passed", "failed", "frozen_changed"}
  BY DEF TypeOK
<1> USE <1>1, ReviewCycleAssumption DEF check
<1>2. CASE Prepared
  BY <1>2 DEF Prepared, StartRound, Show
<1>3. CASE ChildTells
  BY <1>3 DEF ChildTells, Show, Rebased
<1>4. CASE RoundThrows
  BY <1>4 DEF RoundThrows, Throw, End, Show
<1>5. CASE WorkCompared
  BY <1>5 DEF WorkCompared, WorkReported, Reports, Show, Rebased
<1>6. CASE WorkChecked
  BY <1>6, StartTypes DEF WorkChecked, WorkReported, Reports, StartCheck, Show, Rebased
<1>7. CASE WorkReviewed
  BY <1>7 DEF WorkReviewed, WorkReported, Reports, StartReview, StartRound, Show, Rebased
<1>8. CASE ReviewAccepts
  BY <1>8 DEF ReviewAccepts, Reports, Settle, End, Show
<1>9. CASE ReviewRepaired
  BY <1>9 DEF ReviewRepaired, Reports, StartRepair, StartRound, Show, Rebased
<1>10. CASE ReviewRejects
  BY <1>10 DEF ReviewRejects, Reports, Settle, End, Show
<1>11. CASE CommandStarts
  BY <1>11 DEF CommandStarts
<1>12. CASE CommandEnds
  BY <1>12 DEF CommandEnds
<1>12a. CASE ShellExits
  BY <1>12a DEF ShellExits
<1>13. CASE CheckCutShort
  BY <1>13 DEF CheckCutShort, Throw, End, Show
<1>14. CASE Judges
  BY <1>14 DEF Judges, Show
<1>15. CASE CannotJudge
  BY <1>15 DEF CannotJudge, Settle, End, Show
<1>16. CASE Baseline
  BY <1>16 DEF Baseline
<1>17. CASE BaselineFails
  BY <1>17 DEF BaselineFails, Settle, End, Show
<1>18. CASE FrozenKept
  BY <1>18, StartTypes DEF FrozenKept, StartCheck
<1>19. CASE FrozenChanged
  BY <1>19 DEF FrozenChanged, Settle, End, Show
<1>20. CASE CheckAccepts
  BY <1>20 DEF CheckAccepts, CheckPassed, CheckDone, Settle, End, Show
<1>21. CASE CheckReviewed
  BY <1>21 DEF CheckReviewed, CheckPassed, CheckDone, StartReview, StartRound, Show
<1>22. CASE CheckRepaired
  BY <1>22 DEF CheckRepaired, CheckDone, StartRepair, StartRound, Show
<1>23. CASE CheckRejects
  BY <1>23 DEF CheckRejects, CheckDone, Settle, End, Show
<1>24. CASE Abort
  BY <1>24 DEF Abort
<1>25. CASE TimeRunsOut
  BY <1>25 DEF TimeRunsOut
<1>26. CASE Touch
  BY <1>26 DEF Touch
<1>27. CASE UNCHANGED vars
  BY <1>27 DEF vars
<1> QED
  BY <1>2, <1>3, <1>4, <1>5, <1>6, <1>7, <1>8, <1>9, <1>10, <1>11, <1>12, <1>12a, <1>13, <1>14, <1>15,
     <1>16, <1>17, <1>18, <1>19, <1>20, <1>21, <1>22, <1>23, <1>24, <1>25, <1>26, <1>27 DEF Next,
     Round, Check

LEMMA EventTypes ==
  ASSUME TypeOK, [Next]_vars
  PROVE  /\ shown' \in 0..Limit /\ total \in 0..Limit /\ live \in Nat
         /\ begun' \in Nat /\ ended' \in Nat
<1>1. /\ shown \in 0..Limit /\ total \in 0..Limit /\ live \in Nat
      /\ begun \in Nat /\ ended \in Nat
  BY DEF TypeOK
<1> USE <1>1, ReviewCycleAssumption DEF events, money
<1>2. CASE Prepared
  BY <1>2, MoneyTypes DEF Prepared, StartRound, Show
<1>3. CASE ChildTells
  BY <1>3, MoneyTypes DEF ChildTells, Show, Rebased, Sum
<1>4. CASE RoundThrows
  BY <1>4, MoneyTypes DEF RoundThrows, Throw, End, Show
<1>5. CASE WorkCompared
  BY <1>5, MoneyTypes, SumTypes DEF WorkCompared, WorkReported, Reports, Show, Rebased
<1>6. CASE WorkChecked
  BY <1>6, MoneyTypes, SumTypes DEF WorkChecked, WorkReported, Reports, StartCheck, Show,
     Rebased
<1>7. CASE WorkReviewed
  BY <1>7, MoneyTypes, SumTypes DEF WorkReviewed, WorkReported, Reports, StartReview,
     StartRound, Show, Rebased
<1>8. CASE ReviewAccepts
  BY <1>8, MoneyTypes DEF ReviewAccepts, Reports, Settle, End, Show
<1>9. CASE ReviewRepaired
  BY <1>9, MoneyTypes, SumTypes DEF ReviewRepaired, Reports, StartRepair, StartRound, Show,
     Rebased
<1>10. CASE ReviewRejects
  BY <1>10, MoneyTypes DEF ReviewRejects, Reports, Settle, End, Show
<1>11. CASE CommandStarts
  BY <1>11 DEF CommandStarts
<1>12. CASE CommandEnds
  BY <1>12 DEF CommandEnds
<1>12a. CASE ShellExits
  BY <1>12a DEF ShellExits
<1>13. CASE CheckCutShort
  BY <1>13, MoneyTypes DEF CheckCutShort, Throw, End, Show
<1>14. CASE Judges
  BY <1>14, MoneyTypes DEF Judges, Show
<1>15. CASE CannotJudge
  BY <1>15, MoneyTypes DEF CannotJudge, Settle, End, Show
<1>16. CASE Baseline
  BY <1>16 DEF Baseline
<1>17. CASE BaselineFails
  BY <1>17, MoneyTypes DEF BaselineFails, Settle, End, Show
<1>18. CASE FrozenKept
  BY <1>18 DEF FrozenKept, StartCheck
<1>19. CASE FrozenChanged
  BY <1>19, MoneyTypes DEF FrozenChanged, Settle, End, Show
<1>20. CASE CheckAccepts
  BY <1>20, MoneyTypes DEF CheckAccepts, CheckPassed, CheckDone, Settle, End, Show
<1>21. CASE CheckReviewed
  BY <1>21, MoneyTypes DEF CheckReviewed, CheckPassed, CheckDone, StartReview, StartRound, Show
<1>22. CASE CheckRepaired
  BY <1>22, MoneyTypes DEF CheckRepaired, CheckDone, StartRepair, StartRound, Show
<1>23. CASE CheckRejects
  BY <1>23, MoneyTypes DEF CheckRejects, CheckDone, Settle, End, Show
<1>24. CASE Abort
  BY <1>24 DEF Abort
<1>25. CASE TimeRunsOut
  BY <1>25 DEF TimeRunsOut
<1>26. CASE Touch
  BY <1>26 DEF Touch
<1>27. CASE UNCHANGED vars
  BY <1>27 DEF vars
<1> QED
  BY <1>2, <1>3, <1>4, <1>5, <1>6, <1>7, <1>8, <1>9, <1>10, <1>11, <1>12, <1>12a, <1>13, <1>14, <1>15,
     <1>16, <1>17, <1>18, <1>19, <1>20, <1>21, <1>22, <1>23, <1>24, <1>25, <1>26, <1>27 DEF Next,
     Round, Check

LEMMA VerdictTypes ==
  ASSUME TypeOK, [Next]_vars
  PROVE  /\ status' \in {None, "succeeded", "failed", "aborted"}
         /\ verdict' \in {None, "accepted", "rejected", "thrown"}
         /\ paid' \in {None} \cup 0..Limit
<1>1. /\ status \in {None, "succeeded", "failed", "aborted"}
      /\ verdict \in {None, "accepted", "rejected", "thrown"}
      /\ paid \in {None} \cup 0..Limit
  BY DEF TypeOK
<1> USE <1>1, ReviewCycleAssumption DEF events, outcome
<1>2. CASE Prepared
  BY <1>2 DEF Prepared, StartRound, Show
<1>3. CASE ChildTells
  BY <1>3 DEF ChildTells, Show, Rebased
<1>4. CASE RoundThrows
  BY <1>4, MoneyTypes DEF RoundThrows, Throw, End, Show
<1>5. CASE WorkCompared
  BY <1>5 DEF WorkCompared, WorkReported, Reports, Show, Rebased
<1>6. CASE WorkChecked
  BY <1>6 DEF WorkChecked, WorkReported, Reports, StartCheck, Show, Rebased
<1>7. CASE WorkReviewed
  BY <1>7 DEF WorkReviewed, WorkReported, Reports, StartReview, StartRound, Show, Rebased
<1>8. CASE ReviewAccepts
  BY <1>8, MoneyTypes DEF ReviewAccepts, Reports, Settle, End, Show
<1>9. CASE ReviewRepaired
  BY <1>9 DEF ReviewRepaired, Reports, StartRepair, StartRound, Show, Rebased
<1>10. CASE ReviewRejects
  BY <1>10, MoneyTypes DEF ReviewRejects, Reports, Settle, End, Show
<1>11. CASE CommandStarts
  BY <1>11 DEF CommandStarts
<1>12. CASE CommandEnds
  BY <1>12 DEF CommandEnds
<1>12a. CASE ShellExits
  BY <1>12a DEF ShellExits
<1>13. CASE CheckCutShort
  BY <1>13, MoneyTypes DEF CheckCutShort, Throw, End, Show
<1>14. CASE Judges
  BY <1>14 DEF Judges, Show
<1>15. CASE CannotJudge
  BY <1>15, MoneyTypes DEF CannotJudge, Settle, End, Show
<1>16. CASE Baseline
  BY <1>16 DEF Baseline
<1>17. CASE BaselineFails
  BY <1>17, MoneyTypes DEF BaselineFails, Settle, End, Show
<1>18. CASE FrozenKept
  BY <1>18 DEF FrozenKept, StartCheck
<1>19. CASE FrozenChanged
  BY <1>19, MoneyTypes DEF FrozenChanged, Settle, End, Show
<1>20. CASE CheckAccepts
  BY <1>20, MoneyTypes DEF CheckAccepts, CheckPassed, CheckDone, Settle, End, Show
<1>21. CASE CheckReviewed
  BY <1>21 DEF CheckReviewed, CheckPassed, CheckDone, StartReview, StartRound, Show
<1>22. CASE CheckRepaired
  BY <1>22 DEF CheckRepaired, CheckDone, StartRepair, StartRound, Show
<1>23. CASE CheckRejects
  BY <1>23, MoneyTypes DEF CheckRejects, CheckDone, Settle, End, Show
<1>24. CASE Abort
  BY <1>24 DEF Abort
<1>25. CASE TimeRunsOut
  BY <1>25 DEF TimeRunsOut
<1>26. CASE Touch
  BY <1>26 DEF Touch
<1>27. CASE UNCHANGED vars
  BY <1>27 DEF vars
<1> QED
  BY <1>2, <1>3, <1>4, <1>5, <1>6, <1>7, <1>8, <1>9, <1>10, <1>11, <1>12, <1>12a, <1>13, <1>14, <1>15,
     <1>16, <1>17, <1>18, <1>19, <1>20, <1>21, <1>22, <1>23, <1>24, <1>25, <1>26, <1>27 DEF Next,
     Round, Check

LEMMA WorldTypes ==
  ASSUME TypeOK, [Next]_vars
  PROVE  /\ aborted' \in BOOLEAN /\ inTime' \in BOOLEAN /\ drift' \in BOOLEAN
         /\ version' \in Nat /\ compared' \in Nat /\ checked' \in Nat /\ approved' \in Nat
         /\ repairs' \in Nat
<1>1. /\ aborted \in BOOLEAN /\ inTime \in BOOLEAN /\ drift \in BOOLEAN
      /\ version \in Nat /\ compared \in Nat /\ checked \in Nat /\ approved \in Nat
      /\ repairs \in Nat
  BY DEF TypeOK
<1> USE <1>1, ReviewCycleAssumption DEF world, history
<1>2. CASE Prepared
  BY <1>2 DEF Prepared, StartRound, Show
<1>3. CASE ChildTells
  BY <1>3 DEF ChildTells, Show, Rebased
<1>4. CASE RoundThrows
  BY <1>4 DEF RoundThrows, Throw, End, Show
<1>5. CASE WorkCompared
  BY <1>5 DEF WorkCompared, WorkReported, Reports, Show, Rebased
<1>6. CASE WorkChecked
  BY <1>6 DEF WorkChecked, WorkReported, Reports, StartCheck, Show, Rebased
<1>7. CASE WorkReviewed
  BY <1>7 DEF WorkReviewed, WorkReported, Reports, StartReview, StartRound, Show, Rebased
<1>8. CASE ReviewAccepts
  BY <1>8 DEF ReviewAccepts, Reports, Settle, End, Show
<1>9. CASE ReviewRepaired
  BY <1>9 DEF ReviewRepaired, Reports, StartRepair, StartRound, Show, Rebased
<1>10. CASE ReviewRejects
  BY <1>10 DEF ReviewRejects, Reports, Settle, End, Show
<1>11. CASE CommandStarts
  BY <1>11 DEF CommandStarts
<1>12. CASE CommandEnds
  BY <1>12 DEF CommandEnds
<1>12a. CASE ShellExits
  BY <1>12a DEF ShellExits
<1>13. CASE CheckCutShort
  BY <1>13 DEF CheckCutShort, Throw, End, Show
<1>14. CASE Judges
  BY <1>14 DEF Judges, Show
<1>15. CASE CannotJudge
  BY <1>15 DEF CannotJudge, Settle, End, Show
<1>16. CASE Baseline
  BY <1>16 DEF Baseline
<1>17. CASE BaselineFails
  BY <1>17 DEF BaselineFails, Settle, End, Show
<1>18. CASE FrozenKept
  BY <1>18 DEF FrozenKept, StartCheck
<1>19. CASE FrozenChanged
  BY <1>19 DEF FrozenChanged, Settle, End, Show
<1>20. CASE CheckAccepts
  BY <1>20 DEF CheckAccepts, CheckPassed, CheckDone, Settle, End, Show
<1>21. CASE CheckReviewed
  BY <1>21 DEF CheckReviewed, CheckPassed, CheckDone, StartReview, StartRound, Show
<1>22. CASE CheckRepaired
  BY <1>22 DEF CheckRepaired, CheckDone, StartRepair, StartRound, Show
<1>23. CASE CheckRejects
  BY <1>23 DEF CheckRejects, CheckDone, Settle, End, Show
<1>24. CASE Abort
  BY <1>24 DEF Abort
<1>25. CASE TimeRunsOut
  BY <1>25 DEF TimeRunsOut
<1>26. CASE Touch
  BY <1>26 DEF Touch
<1>27. CASE UNCHANGED vars
  BY <1>27 DEF vars
<1> QED
  BY <1>2, <1>3, <1>4, <1>5, <1>6, <1>7, <1>8, <1>9, <1>10, <1>11, <1>12, <1>12a, <1>13, <1>14, <1>15,
     <1>16, <1>17, <1>18, <1>19, <1>20, <1>21, <1>22, <1>23, <1>24, <1>25, <1>26, <1>27 DEF Next,
     Round, Check

LEMMA PolicyStays ==
  ASSUME [Next]_vars
  PROVE  policy' = policy
<1>1. CASE Prepared
  BY <1>1 DEF Prepared, StartRound, Show
<1>2. CASE ChildTells
  BY <1>2 DEF ChildTells, Show, Rebased
<1>3. CASE RoundThrows
  BY <1>3 DEF RoundThrows, Throw, End, Show
<1>4. CASE WorkCompared
  BY <1>4 DEF WorkCompared, WorkReported, Reports, Show, Rebased
<1>5. CASE WorkChecked
  BY <1>5 DEF WorkChecked, WorkReported, Reports, StartCheck, Show, Rebased
<1>6. CASE WorkReviewed
  BY <1>6 DEF WorkReviewed, WorkReported, Reports, StartReview, StartRound, Show, Rebased
<1>7. CASE ReviewAccepts
  BY <1>7 DEF ReviewAccepts, Reports, Settle, End, Show
<1>8. CASE ReviewRepaired
  BY <1>8 DEF ReviewRepaired, Reports, StartRepair, StartRound, Show, Rebased
<1>9. CASE ReviewRejects
  BY <1>9 DEF ReviewRejects, Reports, Settle, End, Show
<1>10. CASE CommandStarts
  BY <1>10 DEF CommandStarts
<1>11. CASE CommandEnds
  BY <1>11 DEF CommandEnds
<1>11a. CASE ShellExits
  BY <1>11a DEF ShellExits
<1>12. CASE CheckCutShort
  BY <1>12 DEF CheckCutShort, Throw, End, Show
<1>13. CASE Judges
  BY <1>13 DEF Judges, Show
<1>14. CASE CannotJudge
  BY <1>14 DEF CannotJudge, Settle, End, Show
<1>15. CASE Baseline
  BY <1>15 DEF Baseline
<1>16. CASE BaselineFails
  BY <1>16 DEF BaselineFails, Settle, End, Show
<1>17. CASE FrozenKept
  BY <1>17 DEF FrozenKept, StartCheck
<1>18. CASE FrozenChanged
  BY <1>18 DEF FrozenChanged, Settle, End, Show
<1>19. CASE CheckAccepts
  BY <1>19 DEF CheckAccepts, CheckPassed, CheckDone, Settle, End, Show
<1>20. CASE CheckReviewed
  BY <1>20 DEF CheckReviewed, CheckPassed, CheckDone, StartReview, StartRound, Show
<1>21. CASE CheckRepaired
  BY <1>21 DEF CheckRepaired, CheckDone, StartRepair, StartRound, Show
<1>22. CASE CheckRejects
  BY <1>22 DEF CheckRejects, CheckDone, Settle, End, Show
<1>23. CASE Abort
  BY <1>23 DEF Abort
<1>24. CASE TimeRunsOut
  BY <1>24 DEF TimeRunsOut
<1>25. CASE Touch
  BY <1>25 DEF Touch
<1>26. CASE UNCHANGED vars
  BY <1>26 DEF vars
<1> QED
  BY <1>1, <1>2, <1>3, <1>4, <1>5, <1>6, <1>7, <1>8, <1>9, <1>10, <1>11, <1>11a, <1>12, <1>13, <1>14,
     <1>15, <1>16, <1>17, <1>18, <1>19, <1>20, <1>21, <1>22, <1>23, <1>24, <1>25, <1>26 DEF Next,
     Round, Check

LEMMA StepTypeOK ==
  ASSUME TypeOK, [Next]_vars
  PROVE  TypeOK'
BY MoneyTypes, PlaceTypes, ChildTypes, RoundTypes, CountTypes, CheckTypes, EventTypes,
   VerdictTypes, WorldTypes, PolicyStays DEF TypeOK

-----------------------------------------------------------------------------
LEMMA StepPhase ==
  ASSUME IInv, [Next]_vars
  PROVE  PhaseInv'
<1> USE ReviewCycleAssumption DEF IInv, TypeOK, PhaseInv, HasCheck, HasReview, outcome
<1>1. CASE Prepared
  BY <1>1 DEF Prepared, StartRound, Show
<1>2. CASE ChildTells
  BY <1>2 DEF ChildTells, Show, Rebased
<1>3. CASE RoundThrows
  BY <1>3 DEF RoundThrows, Throw, End, Show
<1>4. CASE WorkCompared
  BY <1>4 DEF WorkCompared, WorkReported, Reports, Show, Rebased
<1>5. CASE WorkChecked
  BY <1>5 DEF WorkChecked, WorkReported, Reports, StartCheck, Show, Rebased
<1>6. CASE WorkReviewed
  BY <1>6 DEF WorkReviewed, WorkReported, Reports, StartReview, StartRound, Show, Rebased
<1>7. CASE ReviewAccepts
  BY <1>7 DEF ReviewAccepts, Reports, Settle, End, Show
<1>8. CASE ReviewRepaired
  BY <1>8 DEF ReviewRepaired, Reports, StartRepair, StartRound, Show, Rebased
<1>9. CASE ReviewRejects
  BY <1>9 DEF ReviewRejects, Reports, Settle, End, Show
<1>10. CASE CommandStarts
  BY <1>10 DEF CommandStarts
<1>11. CASE CommandEnds
  BY <1>11 DEF CommandEnds
<1>11a. CASE ShellExits
  BY <1>11a DEF ShellExits
<1>12. CASE CheckCutShort
  BY <1>12 DEF CheckCutShort, Throw, End, Show
<1>13. CASE Judges
  BY <1>13 DEF Judges, Show
<1>14. CASE CannotJudge
  BY <1>14 DEF CannotJudge, Settle, End, Show
<1>15. CASE Baseline
  BY <1>15 DEF Baseline
<1>16. CASE BaselineFails
  BY <1>16 DEF BaselineFails, Settle, End, Show
<1>17. CASE FrozenKept
  BY <1>17 DEF FrozenKept, StartCheck
<1>18. CASE FrozenChanged
  BY <1>18 DEF FrozenChanged, Settle, End, Show
<1>19. CASE CheckAccepts
  BY <1>19 DEF CheckAccepts, CheckPassed, CheckDone, Settle, End, Show
<1>20. CASE CheckReviewed
  BY <1>20 DEF CheckReviewed, CheckPassed, CheckDone, StartReview, StartRound, Show
<1>21. CASE CheckRepaired
  BY <1>21 DEF CheckRepaired, CheckDone, StartRepair, StartRound, Show
<1>22. CASE CheckRejects
  BY <1>22 DEF CheckRejects, CheckDone, Settle, End, Show
<1>23. CASE Abort
  BY <1>23 DEF Abort
<1>24. CASE TimeRunsOut
  BY <1>24 DEF TimeRunsOut
<1>25. CASE Touch
  BY <1>25 DEF Touch
<1>26. CASE UNCHANGED vars
  BY <1>26 DEF vars
<1> QED
  BY <1>1, <1>2, <1>3, <1>4, <1>5, <1>6, <1>7, <1>8, <1>9, <1>10, <1>11, <1>11a, <1>12, <1>13, <1>14,
     <1>15, <1>16, <1>17, <1>18, <1>19, <1>20, <1>21, <1>22, <1>23, <1>24, <1>25, <1>26 DEF Next,
     Round, Check

LEMMA StepAccount ==
  ASSUME IInv, [Next]_vars
  PROVE  AccountInv'
<1> USE ReviewCycleAssumption DEF IInv, PhaseInv, money, outcome
<1>1. CASE Prepared
  BY <1>1 DEF Prepared, StartRound, Show, AccountInv
<1>2. CASE ChildTells
  BY <1>2 DEF ChildTells, Show, Rebased, AccountInv
<1>3. CASE RoundThrows
  <2>1. accounted' <=> ~missing'
    BY <1>3, Spent DEF RoundEnds
  <2>2. total' = Sum(cost', 0) /\ share' <= total'
    BY <1>3, Spent DEF RoundEnds
  <2>3. verdict' # None => paid' = IF accounted' THEN total' ELSE None
    BY <1>3 DEF RoundThrows, Throw, End, Show
  <2> QED
    BY <2>1, <2>2, <2>3 DEF AccountInv
<1>4. CASE WorkCompared
  <2>1. accounted' <=> ~missing'
    BY <1>4, Spent DEF RoundEnds
  <2>2. total' = Sum(cost', 0) /\ share' <= total'
    BY <1>4, Spent DEF RoundEnds
  <2>3. verdict' # None => paid' = IF accounted' THEN total' ELSE None
    BY <1>4 DEF WorkCompared, WorkReported, Reports, Show, Rebased
  <2> QED
    BY <2>1, <2>2, <2>3 DEF AccountInv
<1>5. CASE WorkChecked
  <2>1. accounted' <=> ~missing'
    BY <1>5, Spent DEF RoundEnds
  <2>2. total' = Sum(cost', 0) /\ share' <= total'
    BY <1>5, Spent DEF RoundEnds
  <2>3. verdict' # None => paid' = IF accounted' THEN total' ELSE None
    BY <1>5 DEF WorkChecked, WorkReported, Reports, StartCheck, Show, Rebased
  <2> QED
    BY <2>1, <2>2, <2>3 DEF AccountInv
<1>6. CASE WorkReviewed
  <2>1. accounted' <=> ~missing'
    BY <1>6, Spent DEF RoundEnds
  <2>2. total' = Sum(cost', 0) /\ share' <= total'
    BY <1>6, Spent DEF RoundEnds
  <2>3. verdict' # None => paid' = IF accounted' THEN total' ELSE None
    BY <1>6 DEF WorkReviewed, WorkReported, Reports, StartReview, StartRound, Show, Rebased
  <2> QED
    BY <2>1, <2>2, <2>3 DEF AccountInv
<1>7. CASE ReviewAccepts
  <2>1. accounted' <=> ~missing'
    BY <1>7, Spent DEF RoundEnds
  <2>2. total' = Sum(cost', 0) /\ share' <= total'
    BY <1>7, Spent DEF RoundEnds
  <2>3. verdict' # None => paid' = IF accounted' THEN total' ELSE None
    BY <1>7 DEF ReviewAccepts, Reports, Settle, End, Show
  <2> QED
    BY <2>1, <2>2, <2>3 DEF AccountInv
<1>8. CASE ReviewRepaired
  <2>1. accounted' <=> ~missing'
    BY <1>8, Spent DEF RoundEnds
  <2>2. total' = Sum(cost', 0) /\ share' <= total'
    BY <1>8, Spent DEF RoundEnds
  <2>3. verdict' # None => paid' = IF accounted' THEN total' ELSE None
    BY <1>8 DEF ReviewRepaired, Reports, StartRepair, StartRound, Show, Rebased
  <2> QED
    BY <2>1, <2>2, <2>3 DEF AccountInv
<1>9. CASE ReviewRejects
  <2>1. accounted' <=> ~missing'
    BY <1>9, Spent DEF RoundEnds
  <2>2. total' = Sum(cost', 0) /\ share' <= total'
    BY <1>9, Spent DEF RoundEnds
  <2>3. verdict' # None => paid' = IF accounted' THEN total' ELSE None
    BY <1>9 DEF ReviewRejects, Reports, Settle, End, Show
  <2> QED
    BY <2>1, <2>2, <2>3 DEF AccountInv
<1>10. CASE CommandStarts
  BY <1>10 DEF CommandStarts, AccountInv
<1>11. CASE CommandEnds
  BY <1>11 DEF CommandEnds, AccountInv
<1>11a. CASE ShellExits
  BY <1>11a DEF ShellExits, AccountInv
<1>12. CASE CheckCutShort
  BY <1>12 DEF CheckCutShort, Throw, End, Show, AccountInv
<1>13. CASE Judges
  BY <1>13 DEF Judges, Show, AccountInv
<1>14. CASE CannotJudge
  BY <1>14 DEF CannotJudge, Settle, End, Show, AccountInv
<1>15. CASE Baseline
  BY <1>15 DEF Baseline, AccountInv
<1>16. CASE BaselineFails
  BY <1>16 DEF BaselineFails, Settle, End, Show, AccountInv
<1>17. CASE FrozenKept
  BY <1>17 DEF FrozenKept, StartCheck, AccountInv
<1>18. CASE FrozenChanged
  BY <1>18 DEF FrozenChanged, Settle, End, Show, AccountInv
<1>19. CASE CheckAccepts
  BY <1>19 DEF CheckAccepts, CheckPassed, CheckDone, Settle, End, Show, AccountInv
<1>20. CASE CheckReviewed
  BY <1>20 DEF CheckReviewed, CheckPassed, CheckDone, StartReview, StartRound, Show, AccountInv
<1>21. CASE CheckRepaired
  BY <1>21 DEF CheckRepaired, CheckDone, StartRepair, StartRound, Show, AccountInv
<1>22. CASE CheckRejects
  BY <1>22 DEF CheckRejects, CheckDone, Settle, End, Show, AccountInv
<1>23. CASE Abort
  BY <1>23 DEF Abort, AccountInv
<1>24. CASE TimeRunsOut
  BY <1>24 DEF TimeRunsOut, AccountInv
<1>25. CASE Touch
  BY <1>25 DEF Touch, AccountInv
<1>26. CASE UNCHANGED vars
  BY <1>26 DEF vars, AccountInv
<1> QED
  BY <1>1, <1>2, <1>3, <1>4, <1>5, <1>6, <1>7, <1>8, <1>9, <1>10, <1>11, <1>11a, <1>12, <1>13, <1>14,
     <1>15, <1>16, <1>17, <1>18, <1>19, <1>20, <1>21, <1>22, <1>23, <1>24, <1>25, <1>26 DEF Next,
     Round, Check

LEMMA ThrowSettles ==
  ASSUME Throw
  PROVE  /\ pc' = "settled" /\ verdict' = "thrown" /\ status' \in {"aborted", "failed"}
         /\ ended' = ended + 1 /\ begun' = begun /\ live' = 0 /\ shown' = total'
         /\ paid' = (IF accounted' THEN total' ELSE None)
         /\ status' = "aborted" => aborted'
<1>1. PICK as \in {"aborted", "failed"} :
        End("thrown", as) /\ (as = "aborted" => aborted \/ aborted')
  BY DEF Throw
<1> QED
  BY <1>1 DEF End, Show

LEMMA StepLife ==
  ASSUME IInv, [Next]_vars
  PROVE  LifeInv'
<1> USE ReviewCycleAssumption DEF IInv, TypeOK, PhaseInv, LifeInv, OneLife, events, outcome
<1>1. CASE Prepared
  BY <1>1 DEF Prepared, StartRound, Show
<1>2. CASE ChildTells
  BY <1>2 DEF ChildTells, Show, Rebased
<1>3. CASE RoundThrows
  BY <1>3, ThrowSettles DEF RoundThrows
<1>4. CASE WorkCompared
  BY <1>4 DEF WorkCompared, WorkReported, Reports, Show, Rebased
<1>5. CASE WorkChecked
  BY <1>5 DEF WorkChecked, WorkReported, Reports, StartCheck, Show, Rebased
<1>6. CASE WorkReviewed
  BY <1>6 DEF WorkReviewed, WorkReported, Reports, StartReview, StartRound, Show, Rebased
<1>7. CASE ReviewAccepts
  BY <1>7, MoneyTypes DEF ReviewAccepts, Reports, Settle, End, Show
<1>8. CASE ReviewRepaired
  BY <1>8 DEF ReviewRepaired, Reports, StartRepair, StartRound, Show, Rebased
<1>9. CASE ReviewRejects
  BY <1>9, MoneyTypes DEF ReviewRejects, Reports, Settle, End, Show
<1>10. CASE CommandStarts
  BY <1>10 DEF CommandStarts
<1>11. CASE CommandEnds
  BY <1>11 DEF CommandEnds
<1>11a. CASE ShellExits
  BY <1>11a DEF ShellExits
<1>12. CASE CheckCutShort
  BY <1>12, ThrowSettles DEF CheckCutShort, CheckOver, CheckRuns
<1>13. CASE Judges
  BY <1>13 DEF Judges, Show
<1>14. CASE CannotJudge
  BY <1>14, MoneyTypes DEF CannotJudge, Settle, End, Show
<1>15. CASE Baseline
  BY <1>15 DEF Baseline
<1>16. CASE BaselineFails
  BY <1>16, MoneyTypes DEF BaselineFails, Settle, End, Show
<1>17. CASE FrozenKept
  BY <1>17 DEF FrozenKept, StartCheck
<1>18. CASE FrozenChanged
  BY <1>18, MoneyTypes DEF FrozenChanged, Settle, End, Show
<1>19. CASE CheckAccepts
  BY <1>19, MoneyTypes DEF CheckAccepts, CheckPassed, CheckDone, Settle, End, Show
<1>20. CASE CheckReviewed
  BY <1>20 DEF CheckReviewed, CheckPassed, CheckDone, StartReview, StartRound, Show
<1>21. CASE CheckRepaired
  BY <1>21 DEF CheckRepaired, CheckDone, StartRepair, StartRound, Show
<1>22. CASE CheckRejects
  BY <1>22, MoneyTypes DEF CheckRejects, CheckDone, Settle, End, Show
<1>23. CASE Abort
  BY <1>23 DEF Abort
<1>24. CASE TimeRunsOut
  BY <1>24 DEF TimeRunsOut
<1>25. CASE Touch
  BY <1>25 DEF Touch
<1>26. CASE UNCHANGED vars
  BY <1>26 DEF vars
<1> QED
  BY <1>1, <1>2, <1>3, <1>4, <1>5, <1>6, <1>7, <1>8, <1>9, <1>10, <1>11, <1>11a, <1>12, <1>13, <1>14,
     <1>15, <1>16, <1>17, <1>18, <1>19, <1>20, <1>21, <1>22, <1>23, <1>24, <1>25, <1>26 DEF Next,
     Round, Check

LEMMA StepJudged ==
  ASSUME IInv, [Next]_vars
  PROVE  JudgedInv'
<1> USE ReviewCycleAssumption DEF IInv, TypeOK, PhaseInv, JudgedInv, SuccessIsJudged, HasCheck, HasReview,
    outcome, history
<1>1. CASE Prepared
  BY <1>1 DEF Prepared, StartRound, Show
<1>2. CASE ChildTells
  BY <1>2 DEF ChildTells, Show, Rebased
<1>3. CASE RoundThrows
  BY <1>3 DEF RoundThrows, Throw, End, Show
<1>4. CASE WorkCompared
  BY <1>4 DEF WorkCompared, WorkReported, Reports, Show, Rebased, Checked
<1>5. CASE WorkChecked
  BY <1>5 DEF WorkChecked, WorkReported, Reports, StartCheck, Show, Rebased, Checked
<1>6. CASE WorkReviewed
  BY <1>6 DEF WorkReviewed, WorkReported, Reports, StartReview, StartRound, Show, Rebased,
     Checked
<1>7. CASE ReviewAccepts
  BY <1>7 DEF ReviewAccepts, Reports, Settle, End, Show
<1>8. CASE ReviewRepaired
  BY <1>8 DEF ReviewRepaired, Reports, StartRepair, StartRound, Show, Rebased
<1>9. CASE ReviewRejects
  BY <1>9 DEF ReviewRejects, Reports, Settle, End, Show
<1>10. CASE CommandStarts
  BY <1>10 DEF CommandStarts
<1>11. CASE CommandEnds
  BY <1>11 DEF CommandEnds
<1>11a. CASE ShellExits
  BY <1>11a DEF ShellExits
<1>12. CASE CheckCutShort
  BY <1>12 DEF CheckCutShort, Throw, End, Show
<1>13. CASE Judges
  BY <1>13 DEF Judges, Show
<1>14. CASE CannotJudge
  BY <1>14 DEF CannotJudge, Settle, End, Show
<1>15. CASE Baseline
  BY <1>15 DEF Baseline
<1>16. CASE BaselineFails
  BY <1>16 DEF BaselineFails, Settle, End, Show
<1>17. CASE FrozenKept
  BY <1>17 DEF FrozenKept, StartCheck
<1>18. CASE FrozenChanged
  BY <1>18 DEF FrozenChanged, Settle, End, Show
<1>19. CASE CheckAccepts
  BY <1>19 DEF CheckAccepts, CheckPassed, CheckDone, Settle, End, Show
<1>20. CASE CheckReviewed
  BY <1>20 DEF CheckReviewed, CheckPassed, CheckDone, StartReview, StartRound, Show
<1>21. CASE CheckRepaired
  BY <1>21 DEF CheckRepaired, CheckDone, StartRepair, StartRound, Show
<1>22. CASE CheckRejects
  BY <1>22 DEF CheckRejects, CheckDone, Settle, End, Show
<1>23. CASE Abort
  BY <1>23 DEF Abort
<1>24. CASE TimeRunsOut
  BY <1>24 DEF TimeRunsOut
<1>25. CASE Touch
  BY <1>25 DEF Touch
<1>26. CASE UNCHANGED vars
  BY <1>26 DEF vars
<1> QED
  BY <1>1, <1>2, <1>3, <1>4, <1>5, <1>6, <1>7, <1>8, <1>9, <1>10, <1>11, <1>11a, <1>12, <1>13, <1>14,
     <1>15, <1>16, <1>17, <1>18, <1>19, <1>20, <1>21, <1>22, <1>23, <1>24, <1>25, <1>26 DEF Next,
     Round, Check

LEMMA StepShown ==
  ASSUME IInv, [Next]_vars
  PROVE  /\ ShownInv'
         /\ ~missing' => shown' >= shown
<1>1. /\ total \in 0..Limit /\ shown \in 0..Limit /\ live \in Nat /\ Limit \in Nat
      /\ pc # "round" => live = 0
  BY ReviewCycleAssumption DEF IInv, TypeOK, PhaseInv
<1> USE <1>1, ReviewCycleAssumption DEF IInv, ShownInv, money, events, Sum
<1>2. CASE Prepared
  BY <1>2 DEF Prepared, StartRound, Show
<1>3. CASE ChildTells
  BY <1>3 DEF ChildTells, Show, Rebased
<1>4. CASE RoundThrows
  <2>1. ~missing' => ~missing /\ total' = Sum(total, live)
    BY <1>4, Spent DEF RoundEnds
  <2>2. live' = 0 /\ shown' \in {total', Sum(total, live)}
    BY <1>4 DEF RoundThrows, Throw, End, Show
  <2> QED
    BY <1>1, <2>1, <2>2, MoneyTypes DEF ShownInv, Sum
<1>5. CASE WorkCompared
  <2>1. ~missing' => ~missing /\ total' = Sum(total, live)
    BY <1>5, Spent DEF RoundEnds
  <2>2. live' = 0 /\ shown' \in {total', Sum(total, live)}
    BY <1>5 DEF WorkCompared, WorkReported, Reports, Show, Rebased
  <2> QED
    BY <1>1, <2>1, <2>2, MoneyTypes DEF ShownInv, Sum
<1>6. CASE WorkChecked
  <2>1. ~missing' => ~missing /\ total' = Sum(total, live)
    BY <1>6, Spent DEF RoundEnds
  <2>2. live' = 0 /\ shown' \in {total', Sum(total, live)}
    BY <1>6 DEF WorkChecked, WorkReported, Reports, StartCheck, Show, Rebased
  <2> QED
    BY <1>1, <2>1, <2>2, MoneyTypes DEF ShownInv, Sum
<1>7. CASE WorkReviewed
  <2>1. ~missing' => ~missing /\ total' = Sum(total, live)
    BY <1>7, Spent DEF RoundEnds
  <2>2. live' = 0 /\ shown' \in {total', Sum(total, live)}
    BY <1>7 DEF WorkReviewed, WorkReported, Reports, StartReview, StartRound, Show, Rebased
  <2> QED
    BY <1>1, <2>1, <2>2, MoneyTypes DEF ShownInv, Sum
<1>8. CASE ReviewAccepts
  <2>1. ~missing' => ~missing /\ total' = Sum(total, live)
    BY <1>8, Spent DEF RoundEnds
  <2>2. live' = 0 /\ shown' \in {total', Sum(total, live)}
    BY <1>8 DEF ReviewAccepts, Reports, Settle, End, Show
  <2> QED
    BY <1>1, <2>1, <2>2, MoneyTypes DEF ShownInv, Sum
<1>9. CASE ReviewRepaired
  <2>1. ~missing' => ~missing /\ total' = Sum(total, live)
    BY <1>9, Spent DEF RoundEnds
  <2>2. live' = 0 /\ shown' \in {total', Sum(total, live)}
    BY <1>9 DEF ReviewRepaired, Reports, StartRepair, StartRound, Show, Rebased
  <2> QED
    BY <1>1, <2>1, <2>2, MoneyTypes DEF ShownInv, Sum
<1>10. CASE ReviewRejects
  <2>1. ~missing' => ~missing /\ total' = Sum(total, live)
    BY <1>10, Spent DEF RoundEnds
  <2>2. live' = 0 /\ shown' \in {total', Sum(total, live)}
    BY <1>10 DEF ReviewRejects, Reports, Settle, End, Show
  <2> QED
    BY <1>1, <2>1, <2>2, MoneyTypes DEF ShownInv, Sum
<1>11. CASE CommandStarts
  BY <1>11 DEF CommandStarts
<1>12. CASE CommandEnds
  BY <1>12 DEF CommandEnds
<1>12a. CASE ShellExits
  BY <1>12a DEF ShellExits
<1>13. CASE CheckCutShort
  BY <1>13, ThrowSettles DEF CheckCutShort, CheckOver, CheckRuns
<1>14. CASE Judges
  BY <1>14 DEF Judges, Show
<1>15. CASE CannotJudge
  BY <1>15 DEF CannotJudge, Settle, End, Show
<1>16. CASE Baseline
  BY <1>16 DEF Baseline
<1>17. CASE BaselineFails
  BY <1>17 DEF BaselineFails, Settle, End, Show
<1>18. CASE FrozenKept
  BY <1>18 DEF FrozenKept, StartCheck
<1>19. CASE FrozenChanged
  BY <1>19 DEF FrozenChanged, Settle, End, Show
<1>20. CASE CheckAccepts
  BY <1>20 DEF CheckAccepts, CheckPassed, CheckDone, Settle, End, Show
<1>21. CASE CheckReviewed
  BY <1>21 DEF CheckReviewed, CheckPassed, CheckDone, StartReview, StartRound, Show
<1>22. CASE CheckRepaired
  BY <1>22 DEF CheckRepaired, CheckDone, StartRepair, StartRound, Show
<1>23. CASE CheckRejects
  BY <1>23 DEF CheckRejects, CheckDone, Settle, End, Show
<1>24. CASE Abort
  BY <1>24 DEF Abort
<1>25. CASE TimeRunsOut
  BY <1>25 DEF TimeRunsOut
<1>26. CASE Touch
  BY <1>26 DEF Touch
<1>27. CASE UNCHANGED vars
  BY <1>27 DEF vars
<1> QED
  BY <1>2, <1>3, <1>4, <1>5, <1>6, <1>7, <1>8, <1>9, <1>10, <1>11, <1>12, <1>12a, <1>13, <1>14, <1>15,
     <1>16, <1>17, <1>18, <1>19, <1>20, <1>21, <1>22, <1>23, <1>24, <1>25, <1>26, <1>27 DEF Next,
     Round, Check

LEMMA StepBound ==
  ASSUME IInv, [Next]_vars
  PROVE  BoundInv'
<1> USE ReviewCycleAssumption DEF IInv, TypeOK, PhaseInv, BoundInv, RoundsBounded, HasCheck, HasReview, Working,
    Reviewing, check, history
<1>1. CASE Prepared
  BY <1>1 DEF Prepared, StartRound, Show
<1>2. CASE ChildTells
  BY <1>2 DEF ChildTells, Show, Rebased
<1>3. CASE RoundThrows
  BY <1>3 DEF RoundThrows, Throw, End, Show
<1>4. CASE WorkCompared
  BY <1>4 DEF WorkCompared, WorkReported, Reports, Show, Rebased, Checked
<1>5. CASE WorkChecked
  BY <1>5 DEF WorkChecked, WorkReported, Reports, StartCheck, Show, Rebased, Checked
<1>6. CASE WorkReviewed
  BY <1>6 DEF WorkReviewed, WorkReported, Reports, StartReview, StartRound, Show, Rebased,
     Checked
<1>7. CASE ReviewAccepts
  BY <1>7 DEF ReviewAccepts, Reports, Settle, End, Show
<1>8. CASE ReviewRepaired
  BY <1>8 DEF ReviewRepaired, Reports, StartRepair, StartRound, Show, Rebased
<1>9. CASE ReviewRejects
  BY <1>9 DEF ReviewRejects, Reports, Settle, End, Show
<1>10. CASE CommandStarts
  BY <1>10 DEF CommandStarts
<1>11. CASE CommandEnds
  BY <1>11 DEF CommandEnds
<1>11a. CASE ShellExits
  BY <1>11a DEF ShellExits
<1>12. CASE CheckCutShort
  BY <1>12 DEF CheckCutShort, Throw, End, Show
<1>13. CASE Judges
  BY <1>13 DEF Judges, Show
<1>14. CASE CannotJudge
  BY <1>14 DEF CannotJudge, Settle, End, Show
<1>15. CASE Baseline
  BY <1>15 DEF Baseline
<1>16. CASE BaselineFails
  BY <1>16 DEF BaselineFails, Settle, End, Show
<1>17. CASE FrozenKept
  BY <1>17 DEF FrozenKept, StartCheck
<1>18. CASE FrozenChanged
  BY <1>18 DEF FrozenChanged, Settle, End, Show
<1>19. CASE CheckAccepts
  BY <1>19 DEF CheckAccepts, CheckPassed, CheckDone, Settle, End, Show
<1>20. CASE CheckReviewed
  BY <1>20 DEF CheckReviewed, CheckPassed, CheckDone, StartReview, StartRound, Show
<1>21. CASE CheckRepaired
  BY <1>21 DEF CheckRepaired, CheckDone, StartRepair, StartRound, Show, Another
<1>22. CASE CheckRejects
  BY <1>22 DEF CheckRejects, CheckDone, Settle, End, Show
<1>23. CASE Abort
  BY <1>23 DEF Abort
<1>24. CASE TimeRunsOut
  BY <1>24 DEF TimeRunsOut
<1>25. CASE Touch
  BY <1>25 DEF Touch
<1>26. CASE UNCHANGED vars
  BY <1>26 DEF vars
<1> QED
  BY <1>1, <1>2, <1>3, <1>4, <1>5, <1>6, <1>7, <1>8, <1>9, <1>10, <1>11, <1>11a, <1>12, <1>13, <1>14,
     <1>15, <1>16, <1>17, <1>18, <1>19, <1>20, <1>21, <1>22, <1>23, <1>24, <1>25, <1>26 DEF Next,
     Round, Check

LEMMA StepIInv ==
  ASSUME IInv, [Next]_vars
  PROVE  IInv'
<1>1. TypeOK'
  BY StepTypeOK DEF IInv
<1> QED
  BY <1>1, StepPhase, StepAccount, StepLife, StepJudged, StepShown, StepBound DEF IInv

(* The four arguments hold along every attempt at a node.                   *)
THEOREM CycleInvariant == Spec => []IInv
BY InitIInv, StepIInv, PTL DEF Spec

(* Every counter, latch and verdict of the cycle keeps its type             *)
(* (runPiReviewCycle).                                                      *)
THEOREM TypeCorrect == Spec => []TypeOK
<1>1. IInv => TypeOK
  BY DEF IInv
<1> QED
  BY <1>1, CycleInvariant, PTL

(* A node is paid for with the sum over its rounds, or not at all (spend,   *)
(* settle, failed), for every number of rounds and every saturation limit.  *)
THEOREM CycleSpendIsExact == Spec => []SpendExact
<1>1. IInv => SpendExact
  <2> SUFFICES ASSUME IInv PROVE SpendExact
    OBVIOUS
  <2>1. total # None /\ (accounted <=> ~missing) /\ total = Sum(cost, 0) /\ share <= total
    BY ReviewCycleAssumption DEF IInv, TypeOK, AccountInv
  <2>2. verdict # None => paid = IF accounted THEN total ELSE None
    BY DEF IInv, AccountInv
  <2>3. verdict = None => paid = None
    BY DEF IInv, LifeInv
  <2> QED
    BY <2>1, <2>2, <2>3 DEF SpendExact
<1> QED
  BY <1>1, CycleInvariant, PTL

(* A node starts once and ends once for its observer, in the state and with *)
(* the spend it settles with (roundProgress, notify).                       *)
THEOREM NodeHasOneLife == Spec => []OneLife
<1>1. IInv => OneLife
  BY DEF IInv, LifeInv
<1> QED
  BY <1>1, CycleInvariant, PTL

(* No policy and no interleaving of edits, aborts and repairs accepts a     *)
(* version that was not judged.                                             *)
THEOREM AcceptedIsJudged == Spec => []SuccessIsJudged
<1>1. IInv => SuccessIsJudged
  BY DEF IInv, JudgedInv
<1> QED
  BY <1>1, CycleInvariant, PTL

(* The figure an observer keeps of a node never falls while it is known.    *)
THEOREM ShownNeverFalls == Spec => LiveNeverFalls
<1>1. IInv /\ [Next]_vars => [~missing' => shown' >= shown]_vars
  BY StepShown
<1> QED
  BY <1>1, CycleInvariant, PTL DEF Spec, LiveNeverFalls

(* The loop ends: its rounds are bounded by the policies and MaxRuns, for   *)
(* every policy (the head of the loop, improved).                           *)
THEOREM LoopIsBounded == Spec => []RoundsBounded
<1>1. IInv => RoundsBounded
  BY DEF IInv, BoundInv
<1> QED
  BY <1>1, CycleInvariant, PTL
=============================================================================
