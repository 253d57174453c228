------------------------- MODULE WorkerProcessProofs -------------------------
(****************************************************************************)
(* Theorems of WorkerProcess, for every length of the stream and every      *)
(* bound.                                                                   *)
(*                                                                          *)
(* Three arguments that hardly touch each other. Spend: while the current   *)
(* turn is counted its figures are pending and not committed, because tools *)
(* run between turns, so each turn is committed once (OpenTurn). Verdict:   *)
(* what outlived the report is latched unless it could not be read          *)
(* (OutlivedIsLatched). Group: a group that was sent SIGKILL cannot start   *)
(* anything (ForcedIsDoomed).                                               *)
(****************************************************************************)
EXTENDS WorkerProcess, TLAPS

PhaseInv ==
  /\ phase # "settled" => verdict = None
  /\ phase = "new" => lines = 0 /\ tree = {} /\ ~counted /\ signalled = "no" /\ output = None

(* While a turn's figures were heard but its end was not, they are pending. *)
OpenTurn ==
  /\ counted => turn = "priced"
  /\ counted /\ phase # "settled" => spend.total < heard
  /\ spend.total + Pended <= heard
  /\ ~deaf /\ pending # "no" => turn # "idle"
  /\ ~deaf /\ pending = "good" => counted
  /\ ~deaf /\ ~replaced /\ counted /\ phase # "settled" => pending \in {"good", "bad"}

CommittedTurns ==
  ~deaf /\ ~replaced /\ ~spend.unusable =>
    spend.total = Least(MaxSpend, IF counted /\ phase # "settled" THEN heard - 1
                                  ELSE heard - Dropped)

OutlivedIsLatched ==
  /\ ranOn \/ batch # "no" => notFinal \/ hidden \/ failure # None
  /\ notFinal => ranOn \/ batch # "no"

ForcedIsDoomed == signalled = "force" \/ phase = "settled" => tree \subseteq doomed

ObserverInv ==
  /\ phase = "settled" => progress <= MaxProgress /\ (lines > 0 => finished = 1)
  /\ phase # "settled" => progress <= MaxProgress - 1 /\ finished = 0

(* What the promise settled with is the spend as it stood.                  *)
VerdictSpend ==
  phase = "settled" /\ verdict.usage # None => verdict.usage = spend.total /\ ~spend.unusable

(* The verdict is read from the latches.                                    *)
VerdictInv ==
  phase = "settled" =>
    (verdict.kind = "resolved" <=> output # None /\ failure = None /\ ~aborted /\ ~notFinal)

IInv == /\ TypeOK /\ PhaseInv /\ OpenTurn /\ CommittedTurns /\ OutlivedIsLatched
        /\ ForcedIsDoomed /\ ObserverInv /\ VerdictSpend /\ VerdictInv

LEMMA CommitTypes ==
  ASSUME TypeOK, NEW usage \in Usages
  PROVE  Committed(usage) \in [total : Nat, reported : BOOLEAN, unusable : BOOLEAN]
<1>1. ASSUME NEW u
      PROVE  AddAssistantUsage(spend, u) \in [total : Nat, reported : BOOLEAN, unusable : BOOLEAN]
  <2>1. Least(MaxSpend, spend.total + 1) \in Nat /\ spend.total \in Nat
    BY WorkerProcessAssumption DEF TypeOK, Least
  <2>2. (spend.reported \/ u # "none") \in BOOLEAN /\ (spend.unusable \/ u = "bad") \in BOOLEAN
    BY DEF TypeOK
  <2> QED
    BY <2>1, <2>2 DEF AddAssistantUsage
<1> QED
  BY <1>1 DEF Committed

LEMMA PendingTypes ==
  ASSUME TypeOK, CommitPending
  PROVE  /\ spend' \in [total : Nat, reported : BOOLEAN, unusable : BOOLEAN]
         /\ pending' \in Usages \cup {"no"}
<1>1. "none" \in Usages
  BY DEF Usages
<1>2. CASE pending = "no"
  BY <1>2 DEF CommitPending, account, TypeOK
<1>3. CASE pending # "no"
  BY <1>1, <1>3, CommitTypes DEF CommitPending, Commit
<1> QED
  BY <1>2, <1>3

LEMMA StepTypeOK ==
  ASSUME IInv, [Next]_vars
  PROVE  TypeOK'
<1> USE WorkerProcessAssumption DEF IInv, TypeOK, latches, account, observer, group, history
<1>1. CASE Refused
  <2>1. phase' \in {"new", "streaming", "trailing", "closing", "torn", "settled"} /\ more' \in BOOLEAN /\ lines' \in Nat
    BY <1>1 DEF Refused, Reject
  <2>2. failure' \in Failures \cup {None} /\ output' \in Reports \cup {None}
    BY <1>1 DEF Refused, Reject, Failures
  <2>3. notFinal' \in BOOLEAN /\ rejected' \in BOOLEAN /\ provider' \in BOOLEAN /\ stdin' \in BOOLEAN
    BY <1>1 DEF Refused, Reject
  <2>4. pending' \in Usages \cup {"no"} /\ spend' \in [total : Nat, reported : BOOLEAN, unusable : BOOLEAN]
    BY <1>1 DEF Refused, Reject, Usages
  <2>5. progress' \in Nat /\ finished' \in Nat
    BY <1>1 DEF Refused, Reject
  <2>6. signalled' \in {"no", "term", "force"} /\ aborted' \in BOOLEAN
    BY <1>1 DEF Refused, Reject
  <2>7. tree' \subseteq {"worker", "tool"} /\ holds' \in BOOLEAN /\ doomed' \subseteq {"worker", "tool"}
    BY <1>1 DEF Refused, Reject
  <2>8. verdict' \in [kind : Failures \cup {"resolved"}, usage : Nat \cup {None}] \cup {None}
    BY <1>1 DEF Refused, Reject, Usages, Failures
  <2>9. turn' \in {"idle", "open", "priced"}
    BY <1>1 DEF Refused, Reject
  <2>10. heard' \in Nat
    BY <1>1 DEF Refused, Reject
  <2>11. counted' \in BOOLEAN
    BY <1>1 DEF Refused, Reject
  <2>12. deaf' \in BOOLEAN /\ replaced' \in BOOLEAN /\ ranOn' \in BOOLEAN /\ hidden' \in BOOLEAN
        /\ amended' \in BOOLEAN /\ batch' \in {"no", "last", "earlier"}
    BY <1>1 DEF Refused, Reject
  <2> QED
    BY <2>1, <2>2, <2>3, <2>4, <2>5, <2>6, <2>7, <2>8, <2>9, <2>10, <2>11, <2>12
<1>2. CASE Spawn
  BY <1>2 DEF Spawn, Least, Failures
<1>3. ASSUME NEW usage \in Usages, Update(usage) PROVE TypeOK'
  <2>1. phase' \in {"new", "streaming", "trailing", "closing", "torn", "settled"} /\ more' \in BOOLEAN /\ lines' \in Nat
    BY <1>3 DEF Update, Telling, Hears, Reading, ReadLine, Write, Unread
  <2>2. failure' \in Failures \cup {None} /\ output' \in Reports \cup {None}
    BY <1>3 DEF Update, Telling, Hears, Reading, ReadLine, Write, Unread, Failures
  <2>3. notFinal' \in BOOLEAN /\ rejected' \in BOOLEAN /\ provider' \in BOOLEAN /\ stdin' \in BOOLEAN
    BY <1>3 DEF Update, Telling, Hears, Reading, ReadLine, Write, Unread
  <2>4. pending' \in Usages \cup {"no"} /\ spend' \in [total : Nat, reported : BOOLEAN, unusable : BOOLEAN]
    BY <1>3 DEF Update, Telling, Hears, Reading, ReadLine, Write, Unread, Usages
  <2>5. progress' \in Nat /\ finished' \in Nat
    BY <1>3 DEF Update, Telling, Hears, Reading, ReadLine, Write, Unread
  <2>6. signalled' \in {"no", "term", "force"} /\ aborted' \in BOOLEAN
    BY <1>3 DEF Update, Telling, Hears, Reading, ReadLine, Write, Unread
  <2>7. tree' \subseteq {"worker", "tool"} /\ holds' \in BOOLEAN /\ doomed' \subseteq {"worker", "tool"}
    BY <1>3 DEF Update, Telling, Hears, Reading, ReadLine, Write, Unread
  <2>8. verdict' \in [kind : Failures \cup {"resolved"}, usage : Nat \cup {None}] \cup {None}
    BY <1>3 DEF Update, Telling, Hears, Reading, ReadLine, Write, Unread, Usages, Failures
  <2>9. turn' \in {"idle", "open", "priced"}
    BY <1>3 DEF Update, Telling, Hears, Reading, ReadLine, Write, Unread
  <2>10. heard' \in Nat
    BY <1>3 DEF Update, Telling, Hears, Reading, ReadLine, Write, Unread
  <2>11. counted' \in BOOLEAN
    BY <1>3 DEF Update, Telling, Hears, Reading, ReadLine, Write, Unread
  <2>12. deaf' \in BOOLEAN /\ replaced' \in BOOLEAN /\ ranOn' \in BOOLEAN /\ hidden' \in BOOLEAN
        /\ amended' \in BOOLEAN /\ batch' \in {"no", "last", "earlier"}
    BY <1>3 DEF Update, Telling, Hears, Reading, ReadLine, Write, Unread
  <2> QED
    BY <2>1, <2>2, <2>3, <2>4, <2>5, <2>6, <2>7, <2>8, <2>9, <2>10, <2>11, <2>12
<1>4. ASSUME NEW usage \in Usages, NEW kind \in {"plain", "error", "batch"}, MessageEnd(usage, kind) PROVE TypeOK'
  <2>1. phase' \in {"new", "streaming", "trailing", "closing", "torn", "settled"} /\ more' \in BOOLEAN /\ lines' \in Nat
    BY <1>4 DEF MessageEnd, Hears, Reading, ReadLine, Write, Unread, Commit, Committed, AddAssistantUsage, Emit, Observed, Terminate, Least
  <2>2. failure' \in Failures \cup {None} /\ output' \in Reports \cup {None}
    BY <1>4 DEF MessageEnd, Hears, Reading, ReadLine, Write, Unread, Commit, Committed, AddAssistantUsage, Emit, Observed, Terminate, Least, Failures
  <2>3. notFinal' \in BOOLEAN /\ rejected' \in BOOLEAN /\ provider' \in BOOLEAN /\ stdin' \in BOOLEAN
    BY <1>4 DEF MessageEnd, Hears, Reading, ReadLine, Write, Unread, Commit, Committed, AddAssistantUsage, Emit, Observed, Terminate, Least
  <2>4. pending' \in Usages \cup {"no"} /\ spend' \in [total : Nat, reported : BOOLEAN, unusable : BOOLEAN]
    BY <1>4, CommitTypes DEF MessageEnd, Hears, Unread, Commit
  <2>5. progress' \in Nat /\ finished' \in Nat
    BY <1>4 DEF MessageEnd, Hears, Reading, ReadLine, Write, Unread, Commit, Committed, AddAssistantUsage, Emit, Observed, Terminate, Least
  <2>6. signalled' \in {"no", "term", "force"} /\ aborted' \in BOOLEAN
    BY <1>4 DEF MessageEnd, Hears, Reading, ReadLine, Write, Unread, Commit, Committed, AddAssistantUsage, Emit, Observed, Terminate, Least
  <2>7. tree' \subseteq {"worker", "tool"} /\ holds' \in BOOLEAN /\ doomed' \subseteq {"worker", "tool"}
    BY <1>4 DEF MessageEnd, Hears, Reading, ReadLine, Write, Unread, Commit, Committed, AddAssistantUsage, Emit, Observed, Terminate, Least
  <2>8. verdict' \in [kind : Failures \cup {"resolved"}, usage : Nat \cup {None}] \cup {None}
    BY <1>4 DEF MessageEnd, Hears, Reading, ReadLine, Write, Unread, Commit, Committed, AddAssistantUsage, Emit, Observed, Terminate, Least, Usages, Failures
  <2>9. turn' \in {"idle", "open", "priced"}
    BY <1>4 DEF MessageEnd, Hears, Reading, ReadLine, Write, Unread, Commit, Committed, AddAssistantUsage, Emit, Observed, Terminate, Least
  <2>10. heard' \in Nat
    BY <1>4 DEF MessageEnd, Hears, Reading, ReadLine, Write, Unread, Commit, Committed, AddAssistantUsage, Emit, Observed, Terminate, Least
  <2>11. counted' \in BOOLEAN
    BY <1>4 DEF MessageEnd, Hears, Reading, ReadLine, Write, Unread, Commit, Committed, AddAssistantUsage, Emit, Observed, Terminate, Least
  <2>12. deaf' \in BOOLEAN /\ replaced' \in BOOLEAN /\ ranOn' \in BOOLEAN /\ hidden' \in BOOLEAN
        /\ amended' \in BOOLEAN /\ batch' \in {"no", "last", "earlier"}
    BY <1>4 DEF MessageEnd, Hears, Reading, ReadLine, Write, Unread, Commit, Committed, AddAssistantUsage, Emit, Observed, Terminate, Least
  <2> QED
    BY <2>1, <2>2, <2>3, <2>4, <2>5, <2>6, <2>7, <2>8, <2>9, <2>10, <2>11, <2>12
<1>5. CASE ToolStart
  <2>1. phase' \in {"new", "streaming", "trailing", "closing", "torn", "settled"} /\ more' \in BOOLEAN /\ lines' \in Nat
    BY <1>5 DEF ToolStart, Reading, ReadLine, Write, Unread, CommitPending, Commit, Committed, AddAssistantUsage, Emit, Observed, Terminate, Least
  <2>2. failure' \in Failures \cup {None} /\ output' \in Reports \cup {None}
    BY <1>5 DEF ToolStart, Reading, ReadLine, Write, Unread, CommitPending, Commit, Committed, AddAssistantUsage, Emit, Observed, Terminate, Least, Failures
  <2>3. notFinal' \in BOOLEAN /\ rejected' \in BOOLEAN /\ provider' \in BOOLEAN /\ stdin' \in BOOLEAN
    BY <1>5 DEF ToolStart, Reading, ReadLine, Write, Unread, CommitPending, Commit, Committed, AddAssistantUsage, Emit, Observed, Terminate, Least
  <2>4. pending' \in Usages \cup {"no"} /\ spend' \in [total : Nat, reported : BOOLEAN, unusable : BOOLEAN]
    BY <1>5, PendingTypes DEF ToolStart, Unread
  <2>5. progress' \in Nat /\ finished' \in Nat
    BY <1>5 DEF ToolStart, Reading, ReadLine, Write, Unread, CommitPending, Commit, Committed, AddAssistantUsage, Emit, Observed, Terminate, Least
  <2>6. signalled' \in {"no", "term", "force"} /\ aborted' \in BOOLEAN
    BY <1>5 DEF ToolStart, Reading, ReadLine, Write, Unread, CommitPending, Commit, Committed, AddAssistantUsage, Emit, Observed, Terminate, Least
  <2>7. tree' \subseteq {"worker", "tool"} /\ holds' \in BOOLEAN /\ doomed' \subseteq {"worker", "tool"}
    BY <1>5 DEF ToolStart, Reading, ReadLine, Write, Unread, CommitPending, Commit, Committed, AddAssistantUsage, Emit, Observed, Terminate, Least
  <2>8. verdict' \in [kind : Failures \cup {"resolved"}, usage : Nat \cup {None}] \cup {None}
    BY <1>5 DEF ToolStart, Reading, ReadLine, Write, Unread, CommitPending, Commit, Committed, AddAssistantUsage, Emit, Observed, Terminate, Least, Usages, Failures
  <2>9. turn' \in {"idle", "open", "priced"}
    BY <1>5 DEF ToolStart, Reading, ReadLine, Write, Unread, CommitPending, Commit, Committed, AddAssistantUsage, Emit, Observed, Terminate, Least
  <2>10. heard' \in Nat
    BY <1>5 DEF ToolStart, Reading, ReadLine, Write, Unread, CommitPending, Commit, Committed, AddAssistantUsage, Emit, Observed, Terminate, Least
  <2>11. counted' \in BOOLEAN
    BY <1>5 DEF ToolStart, Reading, ReadLine, Write, Unread, CommitPending, Commit, Committed, AddAssistantUsage, Emit, Observed, Terminate, Least
  <2>12. deaf' \in BOOLEAN /\ replaced' \in BOOLEAN /\ ranOn' \in BOOLEAN /\ hidden' \in BOOLEAN
        /\ amended' \in BOOLEAN /\ batch' \in {"no", "last", "earlier"}
    BY <1>5 DEF ToolStart, Reading, ReadLine, Write, Unread, CommitPending, Commit, Committed, AddAssistantUsage, Emit, Observed, Terminate, Least
  <2> QED
    BY <2>1, <2>2, <2>3, <2>4, <2>5, <2>6, <2>7, <2>8, <2>9, <2>10, <2>11, <2>12
<1>6. CASE ToolEnd
  <2>1. phase' \in {"new", "streaming", "trailing", "closing", "torn", "settled"} /\ more' \in BOOLEAN /\ lines' \in Nat
    BY <1>6 DEF ToolEnd, Reading, ReadLine, Write, Unread, CommitPending, Commit, Committed, AddAssistantUsage, Emit, Observed, Terminate, Least
  <2>2. failure' \in Failures \cup {None} /\ output' \in Reports \cup {None}
    BY <1>6 DEF ToolEnd, Reading, ReadLine, Write, Unread, CommitPending, Commit, Committed, AddAssistantUsage, Emit, Observed, Terminate, Least, Failures
  <2>3. notFinal' \in BOOLEAN /\ rejected' \in BOOLEAN /\ provider' \in BOOLEAN /\ stdin' \in BOOLEAN
    BY <1>6 DEF ToolEnd, Reading, ReadLine, Write, Unread, CommitPending, Commit, Committed, AddAssistantUsage, Emit, Observed, Terminate, Least
  <2>4. pending' \in Usages \cup {"no"} /\ spend' \in [total : Nat, reported : BOOLEAN, unusable : BOOLEAN]
    BY <1>6, PendingTypes DEF ToolEnd, Unread
  <2>5. progress' \in Nat /\ finished' \in Nat
    BY <1>6 DEF ToolEnd, Reading, ReadLine, Write, Unread, CommitPending, Commit, Committed, AddAssistantUsage, Emit, Observed, Terminate, Least
  <2>6. signalled' \in {"no", "term", "force"} /\ aborted' \in BOOLEAN
    BY <1>6 DEF ToolEnd, Reading, ReadLine, Write, Unread, CommitPending, Commit, Committed, AddAssistantUsage, Emit, Observed, Terminate, Least
  <2>7. tree' \subseteq {"worker", "tool"} /\ holds' \in BOOLEAN /\ doomed' \subseteq {"worker", "tool"}
    BY <1>6 DEF ToolEnd, Reading, ReadLine, Write, Unread, CommitPending, Commit, Committed, AddAssistantUsage, Emit, Observed, Terminate, Least
  <2>8. verdict' \in [kind : Failures \cup {"resolved"}, usage : Nat \cup {None}] \cup {None}
    BY <1>6 DEF ToolEnd, Reading, ReadLine, Write, Unread, CommitPending, Commit, Committed, AddAssistantUsage, Emit, Observed, Terminate, Least, Usages, Failures
  <2>9. turn' \in {"idle", "open", "priced"}
    BY <1>6 DEF ToolEnd, Reading, ReadLine, Write, Unread, CommitPending, Commit, Committed, AddAssistantUsage, Emit, Observed, Terminate, Least
  <2>10. heard' \in Nat
    BY <1>6 DEF ToolEnd, Reading, ReadLine, Write, Unread, CommitPending, Commit, Committed, AddAssistantUsage, Emit, Observed, Terminate, Least
  <2>11. counted' \in BOOLEAN
    BY <1>6 DEF ToolEnd, Reading, ReadLine, Write, Unread, CommitPending, Commit, Committed, AddAssistantUsage, Emit, Observed, Terminate, Least
  <2>12. deaf' \in BOOLEAN /\ replaced' \in BOOLEAN /\ ranOn' \in BOOLEAN /\ hidden' \in BOOLEAN
        /\ amended' \in BOOLEAN /\ batch' \in {"no", "last", "earlier"}
    BY <1>6 DEF ToolEnd, Reading, ReadLine, Write, Unread, CommitPending, Commit, Committed, AddAssistantUsage, Emit, Observed, Terminate, Least
  <2> QED
    BY <2>1, <2>2, <2>3, <2>4, <2>5, <2>6, <2>7, <2>8, <2>9, <2>10, <2>11, <2>12
<1>7. ASSUME NEW report \in Reports \cup {"rejected", "forged"}, ReportEnd(report) PROVE TypeOK'
  <2>1. phase' \in {"new", "streaming", "trailing", "closing", "torn", "settled"} /\ more' \in BOOLEAN /\ lines' \in Nat
    BY <1>7 DEF ReportEnd, Reading, ReadLine, Write, Unread, CommitPending, Commit, Committed, AddAssistantUsage, Emit, Observed, Fail, Terminate, Least
  <2>2. failure' \in Failures \cup {None} /\ output' \in Reports \cup {None}
    BY <1>7 DEF ReportEnd, Reading, ReadLine, Write, Unread, CommitPending, Commit, Committed, AddAssistantUsage, Emit, Observed, Fail, Terminate, Least, Failures
  <2>3. notFinal' \in BOOLEAN /\ rejected' \in BOOLEAN /\ provider' \in BOOLEAN /\ stdin' \in BOOLEAN
    BY <1>7 DEF ReportEnd, Reading, ReadLine, Write, Unread, CommitPending, Commit, Committed, AddAssistantUsage, Emit, Observed, Fail, Terminate, Least
  <2>4. pending' \in Usages \cup {"no"} /\ spend' \in [total : Nat, reported : BOOLEAN, unusable : BOOLEAN]
    BY <1>7, PendingTypes DEF ReportEnd, Unread
  <2>5. progress' \in Nat /\ finished' \in Nat
    BY <1>7 DEF ReportEnd, Reading, ReadLine, Write, Unread, CommitPending, Commit, Committed, AddAssistantUsage, Emit, Observed, Fail, Terminate, Least
  <2>6. signalled' \in {"no", "term", "force"} /\ aborted' \in BOOLEAN
    BY <1>7 DEF ReportEnd, Reading, ReadLine, Write, Unread, CommitPending, Commit, Committed, AddAssistantUsage, Emit, Observed, Fail, Terminate, Least
  <2>7. tree' \subseteq {"worker", "tool"} /\ holds' \in BOOLEAN /\ doomed' \subseteq {"worker", "tool"}
    BY <1>7 DEF ReportEnd, Reading, ReadLine, Write, Unread, CommitPending, Commit, Committed, AddAssistantUsage, Emit, Observed, Fail, Terminate, Least
  <2>8. verdict' \in [kind : Failures \cup {"resolved"}, usage : Nat \cup {None}] \cup {None}
    BY <1>7 DEF ReportEnd, Reading, ReadLine, Write, Unread, CommitPending, Commit, Committed, AddAssistantUsage, Emit, Observed, Fail, Terminate, Least, Usages, Failures
  <2>9. turn' \in {"idle", "open", "priced"}
    BY <1>7 DEF ReportEnd, Reading, ReadLine, Write, Unread, CommitPending, Commit, Committed, AddAssistantUsage, Emit, Observed, Fail, Terminate, Least
  <2>10. heard' \in Nat
    BY <1>7 DEF ReportEnd, Reading, ReadLine, Write, Unread, CommitPending, Commit, Committed, AddAssistantUsage, Emit, Observed, Fail, Terminate, Least
  <2>11. counted' \in BOOLEAN
    BY <1>7 DEF ReportEnd, Reading, ReadLine, Write, Unread, CommitPending, Commit, Committed, AddAssistantUsage, Emit, Observed, Fail, Terminate, Least
  <2>12. deaf' \in BOOLEAN /\ replaced' \in BOOLEAN /\ ranOn' \in BOOLEAN /\ hidden' \in BOOLEAN
        /\ amended' \in BOOLEAN /\ batch' \in {"no", "last", "earlier"}
    BY <1>7 DEF ReportEnd, Reading, ReadLine, Write, Unread, CommitPending, Commit, Committed, AddAssistantUsage, Emit, Observed, Fail, Terminate, Least
  <2> QED
    BY <2>1, <2>2, <2>3, <2>4, <2>5, <2>6, <2>7, <2>8, <2>9, <2>10, <2>11, <2>12
<1>8. CASE Junk
  <2>1. phase' \in {"new", "streaming", "trailing", "closing", "torn", "settled"} /\ more' \in BOOLEAN /\ lines' \in Nat
    BY <1>8 DEF Junk, Reading, ReadLine, Write, Unread, Fail, Terminate
  <2>2. failure' \in Failures \cup {None} /\ output' \in Reports \cup {None}
    BY <1>8 DEF Junk, Reading, ReadLine, Write, Unread, Fail, Terminate, Failures
  <2>3. notFinal' \in BOOLEAN /\ rejected' \in BOOLEAN /\ provider' \in BOOLEAN /\ stdin' \in BOOLEAN
    BY <1>8 DEF Junk, Reading, ReadLine, Write, Unread, Fail, Terminate
  <2>4. pending' \in Usages \cup {"no"} /\ spend' \in [total : Nat, reported : BOOLEAN, unusable : BOOLEAN]
    BY <1>8 DEF Junk, Reading, ReadLine, Write, Unread, Fail, Terminate, Usages
  <2>5. progress' \in Nat /\ finished' \in Nat
    BY <1>8 DEF Junk, Reading, ReadLine, Write, Unread, Fail, Terminate
  <2>6. signalled' \in {"no", "term", "force"} /\ aborted' \in BOOLEAN
    BY <1>8 DEF Junk, Reading, ReadLine, Write, Unread, Fail, Terminate
  <2>7. tree' \subseteq {"worker", "tool"} /\ holds' \in BOOLEAN /\ doomed' \subseteq {"worker", "tool"}
    BY <1>8 DEF Junk, Reading, ReadLine, Write, Unread, Fail, Terminate
  <2>8. verdict' \in [kind : Failures \cup {"resolved"}, usage : Nat \cup {None}] \cup {None}
    BY <1>8 DEF Junk, Reading, ReadLine, Write, Unread, Fail, Terminate, Usages, Failures
  <2>9. turn' \in {"idle", "open", "priced"}
    BY <1>8 DEF Junk, Reading, ReadLine, Write, Unread, Fail, Terminate
  <2>10. heard' \in Nat
    BY <1>8 DEF Junk, Reading, ReadLine, Write, Unread, Fail, Terminate
  <2>11. counted' \in BOOLEAN
    BY <1>8 DEF Junk, Reading, ReadLine, Write, Unread, Fail, Terminate
  <2>12. deaf' \in BOOLEAN /\ replaced' \in BOOLEAN /\ ranOn' \in BOOLEAN /\ hidden' \in BOOLEAN
        /\ amended' \in BOOLEAN /\ batch' \in {"no", "last", "earlier"}
    BY <1>8 DEF Junk, Reading, ReadLine, Write, Unread, Fail, Terminate
  <2> QED
    BY <2>1, <2>2, <2>3, <2>4, <2>5, <2>6, <2>7, <2>8, <2>9, <2>10, <2>11, <2>12
<1>9. CASE Abort
  BY <1>9 DEF Abort, Terminate, Failures
<1>10. CASE StreamFails
  BY <1>10 DEF StreamFails, Fail, Terminate, Failures
<1>11. CASE StdinError
  BY <1>11 DEF StdinError, Fail, Terminate, Failures
<1>12. CASE Escalate
  BY <1>12 DEF Escalate, Failures
<1>13. CASE Close
  BY <1>13 DEF Close, Failures
<1>14. CASE Settle
  <2>1. phase' \in {"new", "streaming", "trailing", "closing", "torn", "settled"} /\ more' \in BOOLEAN /\ lines' \in Nat
    BY <1>14 DEF Settle, CommitPending, Commit, Committed, AddAssistantUsage, AccountedUsage, Outcome, Observed, Sweep
  <2>2. failure' \in Failures \cup {None} /\ output' \in Reports \cup {None}
    BY <1>14 DEF Settle, CommitPending, Commit, Committed, AddAssistantUsage, AccountedUsage, Outcome, Observed, Sweep, Failures
  <2>3. notFinal' \in BOOLEAN /\ rejected' \in BOOLEAN /\ provider' \in BOOLEAN /\ stdin' \in BOOLEAN
    BY <1>14 DEF Settle, CommitPending, Commit, Committed, AddAssistantUsage, AccountedUsage, Outcome, Observed, Sweep
  <2>4. pending' \in Usages \cup {"no"} /\ spend' \in [total : Nat, reported : BOOLEAN, unusable : BOOLEAN]
    BY <1>14, PendingTypes DEF Settle, Unread
  <2>5. progress' \in Nat /\ finished' \in Nat
    BY <1>14 DEF Settle, CommitPending, Commit, Committed, AddAssistantUsage, AccountedUsage, Outcome, Observed, Sweep
  <2>6. signalled' \in {"no", "term", "force"} /\ aborted' \in BOOLEAN
    BY <1>14 DEF Settle, CommitPending, Commit, Committed, AddAssistantUsage, AccountedUsage, Outcome, Observed, Sweep
  <2>7. tree' \subseteq {"worker", "tool"} /\ holds' \in BOOLEAN /\ doomed' \subseteq {"worker", "tool"}
    BY <1>14 DEF Settle, CommitPending, Commit, Committed, AddAssistantUsage, AccountedUsage, Outcome, Observed, Sweep
  <2>8. verdict' \in [kind : Failures \cup {"resolved"}, usage : Nat \cup {None}] \cup {None}
    BY <1>14, <2>4 DEF Settle, AccountedUsage, Outcome, Failures
  <2>9. turn' \in {"idle", "open", "priced"}
    BY <1>14 DEF Settle, CommitPending, Commit, Committed, AddAssistantUsage, AccountedUsage, Outcome, Observed, Sweep
  <2>10. heard' \in Nat
    BY <1>14 DEF Settle, CommitPending, Commit, Committed, AddAssistantUsage, AccountedUsage, Outcome, Observed, Sweep
  <2>11. counted' \in BOOLEAN
    BY <1>14 DEF Settle, CommitPending, Commit, Committed, AddAssistantUsage, AccountedUsage, Outcome, Observed, Sweep
  <2>12. deaf' \in BOOLEAN /\ replaced' \in BOOLEAN /\ ranOn' \in BOOLEAN /\ hidden' \in BOOLEAN
        /\ amended' \in BOOLEAN /\ batch' \in {"no", "last", "earlier"}
    BY <1>14 DEF Settle, CommitPending, Commit, Committed, AddAssistantUsage, AccountedUsage, Outcome, Observed, Sweep
  <2> QED
    BY <2>1, <2>2, <2>3, <2>4, <2>5, <2>6, <2>7, <2>8, <2>9, <2>10, <2>11, <2>12
<1>15. CASE StartTool
  BY <1>15 DEF StartTool, Failures
<1>16. ASSUME NEW p \in tree, Die(p) PROVE TypeOK'
  BY <1>16 DEF Die, Failures
<1>17. CASE UNCHANGED vars
  BY <1>17 DEF vars
<1> QED
  BY <1>1, <1>2, <1>3, <1>4, <1>5, <1>6, <1>7, <1>8, <1>9, <1>10, <1>11, <1>12, <1>13, <1>14, <1>15, <1>16, <1>17 DEF Next, Handler, Line

LEMMA StepPhaseInv ==
  ASSUME IInv, [Next]_vars
  PROVE  PhaseInv'
<1> USE WorkerProcessAssumption DEF IInv, TypeOK, PhaseInv, latches, account, observer, group, history, Usages
<1>1. CASE Refused
  BY <1>1 DEF Refused, Reject
<1>2. CASE Spawn
  BY <1>2 DEF Spawn, Least
<1>3. ASSUME NEW usage \in Usages, Update(usage) PROVE PhaseInv'
  BY <1>3 DEF Update, Telling, Hears, Reading, ReadLine, Write, Unread, Usages
<1>4. ASSUME NEW usage \in Usages, NEW kind \in {"plain", "error", "batch"}, MessageEnd(usage, kind) PROVE PhaseInv'
  BY <1>4 DEF MessageEnd, Hears, Reading, ReadLine, Write, Unread, Usages, Commit, Committed, AddAssistantUsage, Emit, Observed, Terminate, Least
<1>5. CASE ToolStart
  BY <1>5 DEF ToolStart, Reading, ReadLine, Write, Unread, Usages, CommitPending, Commit, Committed, AddAssistantUsage, Emit, Observed, Terminate, Least
<1>6. CASE ToolEnd
  BY <1>6 DEF ToolEnd, Reading, ReadLine, Write, Unread, Usages, CommitPending, Commit, Committed, AddAssistantUsage, Emit, Observed, Terminate, Least
<1>7. ASSUME NEW report \in Reports \cup {"rejected", "forged"}, ReportEnd(report) PROVE PhaseInv'
  BY <1>7 DEF ReportEnd, Reading, ReadLine, Write, Unread, Usages, CommitPending, Commit, Committed, AddAssistantUsage, Emit, Observed, Fail, Terminate, Least
<1>8. CASE Junk
  BY <1>8 DEF Junk, Reading, ReadLine, Write, Unread, Fail, Terminate
<1>9. CASE Abort
  BY <1>9 DEF Abort, Terminate
<1>10. CASE StreamFails
  BY <1>10 DEF StreamFails, Fail, Terminate
<1>11. CASE StdinError
  BY <1>11 DEF StdinError, Fail, Terminate
<1>12. CASE Escalate
  BY <1>12 DEF Escalate
<1>13. CASE Close
  BY <1>13 DEF Close
<1>14. CASE Settle
  BY <1>14 DEF Settle, CommitPending, Commit, Committed, AddAssistantUsage, AccountedUsage, Outcome, Observed, Sweep, Usages, Least
<1>15. CASE StartTool
  BY <1>15 DEF StartTool
<1>16. ASSUME NEW p \in tree, Die(p) PROVE PhaseInv'
  BY <1>16 DEF Die
<1>17. CASE UNCHANGED vars
  BY <1>17 DEF vars
<1> QED
  BY <1>1, <1>2, <1>3, <1>4, <1>5, <1>6, <1>7, <1>8, <1>9, <1>10, <1>11, <1>12, <1>13, <1>14, <1>15, <1>16, <1>17 DEF Next, Handler, Line

(* An update is read, or leaves the account of its turn as it was.          *)
LEMMA Hearing ==
  ASSUME TypeOK, NEW usage \in Usages, Update(usage)
  PROVE  \/ /\ pending' = usage /\ (counted' <=> counted \/ usage = "good")
            /\ (replaced' <=> replaced \/ (usage = "odd" /\ counted))
         \/ pending' = pending /\ counted' = counted /\ replaced' = replaced
<1>1. CASE Reading /\ pending' = usage /\ Hears(usage) /\ counted' = (counted \/ usage = "good")
  BY <1>1 DEF TypeOK, Hears
<1>2. CASE UNCHANGED <<pending, counted, replaced>>
  BY <1>2
<1> QED
  BY <1>1, <1>2 DEF Update, Unread, account

LEMMA StepOpenTurn ==
  ASSUME IInv, [Next]_vars
  PROVE  OpenTurn'
<1> USE WorkerProcessAssumption DEF IInv, TypeOK, PhaseInv, latches, account, observer, group, history, Pended, Usages
<1> USE DEF OpenTurn
<1>1. CASE Refused
  BY <1>1 DEF Refused, Reject
<1>2. CASE Spawn
  BY <1>2 DEF Spawn, Least
<1>3. ASSUME NEW usage \in Usages, Update(usage) PROVE OpenTurn'
  <2> USE <1>3 DEF Update, Telling, Hears, Reading, ReadLine, Write, Unread
  <2>0. phase # "settled" /\ heard \in Nat /\ spend.total \in Nat /\ spend' = spend
    OBVIOUS
  <2>1. counted' => turn' = "priced"
    OBVIOUS
  <2>2. counted' /\ phase' # "settled" => spend'.total < heard'
    <3>1. CASE heard' = heard + 1
      BY <2>0, <3>1
    <3>2. CASE counted' = counted /\ heard' = heard
      BY <2>0, <3>2
    <3> QED
      BY <3>1, <3>2
  <2>3. spend'.total + (IF pending' = "good" THEN 1 ELSE 0) <= heard'
    OBVIOUS
  <2>4. ~deaf' /\ pending' # "no" => turn' # "idle"
    OBVIOUS
  <2>5. ~deaf' /\ pending' = "good" => counted'
    BY <2>0, Hearing
  <2>6. ~deaf' /\ ~replaced' /\ counted' /\ phase' # "settled" => pending' \in {"good", "bad"}
    <3>1. CASE pending' = usage /\ (counted' <=> counted \/ usage = "good")
               /\ (replaced' <=> replaced \/ (usage = "odd" /\ counted))
      <4>1. turn = "priced" => usage # "none"
        OBVIOUS
      <4>2. usage \in {"none", "good", "bad", "odd"}
        OBVIOUS
      <4> QED
        BY <2>0, <3>1, <4>1, <4>2
    <3>2. CASE pending' = pending /\ counted' = counted /\ replaced' = replaced
      BY <2>0, <3>2
    <3> QED
      BY <3>1, <3>2, Hearing
  <2> QED
    BY <2>1, <2>2, <2>3, <2>4, <2>5, <2>6
<1>4. ASSUME NEW usage \in Usages, NEW kind \in {"plain", "error", "batch"}, MessageEnd(usage, kind) PROVE OpenTurn'
  BY <1>4 DEF MessageEnd, Hears, Reading, ReadLine, Write, Unread, Usages, Commit, Committed, AddAssistantUsage, Emit, Observed, Terminate, Least
<1>5. CASE ToolStart
  BY <1>5 DEF ToolStart, Reading, ReadLine, Write, Unread, Usages, CommitPending, Commit, Committed, AddAssistantUsage, Emit, Observed, Terminate, Least
<1>6. CASE ToolEnd
  BY <1>6 DEF ToolEnd, Reading, ReadLine, Write, Unread, Usages, CommitPending, Commit, Committed, AddAssistantUsage, Emit, Observed, Terminate, Least
<1>7. ASSUME NEW report \in Reports \cup {"rejected", "forged"}, ReportEnd(report) PROVE OpenTurn'
  BY <1>7 DEF ReportEnd, Reading, ReadLine, Write, Unread, Usages, CommitPending, Commit, Committed, AddAssistantUsage, Emit, Observed, Fail, Terminate, Least
<1>8. CASE Junk
  BY <1>8 DEF Junk, Reading, ReadLine, Write, Unread, Fail, Terminate
<1>9. CASE Abort
  BY <1>9 DEF Abort, Terminate
<1>10. CASE StreamFails
  BY <1>10 DEF StreamFails, Fail, Terminate
<1>11. CASE StdinError
  BY <1>11 DEF StdinError, Fail, Terminate
<1>12. CASE Escalate
  BY <1>12 DEF Escalate
<1>13. CASE Close
  BY <1>13 DEF Close
<1>14. CASE Settle
  BY <1>14 DEF Settle, CommitPending, Commit, Committed, AddAssistantUsage, AccountedUsage, Outcome, Observed, Sweep, Usages, Least
<1>15. CASE StartTool
  BY <1>15 DEF StartTool
<1>16. ASSUME NEW p \in tree, Die(p) PROVE OpenTurn'
  BY <1>16 DEF Die
<1>17. CASE UNCHANGED vars
  BY <1>17 DEF vars
<1> QED
  BY <1>1, <1>2, <1>3, <1>4, <1>5, <1>6, <1>7, <1>8, <1>9, <1>10, <1>11, <1>12, <1>13, <1>14, <1>15, <1>16, <1>17 DEF Next, Handler, Line

LEMMA StepCommittedTurns ==
  ASSUME IInv, [Next]_vars
  PROVE  CommittedTurns'
<1> USE WorkerProcessAssumption DEF IInv, TypeOK, PhaseInv, latches, account, observer, group, history, Usages, Pended
<1> USE DEF CommittedTurns, Dropped
<1> USE DEF OpenTurn
<1>1. CASE Refused
  BY <1>1 DEF Refused, Reject
<1>2. CASE Spawn
  BY <1>2 DEF Spawn, Least
<1>3. ASSUME NEW usage \in Usages, Update(usage) PROVE CommittedTurns'
  <2>1. /\ phase # "settled" /\ heard \in Nat /\ UNCHANGED <<spend, deaf>>
        /\ phase' # "settled" /\ (replaced => replaced')
    BY <1>3 DEF Update, Hears, Reading, ReadLine, Unread
  <2>2. CASE heard' = heard + 1 /\ ~counted /\ counted'
    BY <2>1, <2>2
  <2>3. CASE heard' = heard /\ (counted' <=> counted)
    BY <2>1, <2>3
  <2>4. CASE Hears(usage) /\ counted' = (counted \/ usage = "good")
    <3>1. CASE usage = "good" /\ ~counted
      BY <2>2, <2>4, <3>1 DEF Hears
    <3>2. CASE ~(usage = "good" /\ ~counted)
      BY <2>3, <2>4, <3>2 DEF Hears
    <3> QED
      BY <3>1, <3>2
  <2>5. CASE UNCHANGED <<heard, counted>>
    BY <2>3, <2>5
  <2> QED
    BY <1>3, <2>4, <2>5 DEF Update
<1>4. ASSUME NEW usage \in Usages, NEW kind \in {"plain", "error", "batch"}, MessageEnd(usage, kind) PROVE CommittedTurns'
  BY <1>4 DEF MessageEnd, Hears, Reading, ReadLine, Write, Unread, Usages, Commit, Committed, AddAssistantUsage, Emit, Observed, Terminate, Least
<1>5. CASE ToolStart
  BY <1>5 DEF ToolStart, Reading, ReadLine, Write, Unread, Usages, CommitPending, Commit, Committed, AddAssistantUsage, Emit, Observed, Terminate, Least
<1>6. CASE ToolEnd
  BY <1>6 DEF ToolEnd, Reading, ReadLine, Write, Unread, Usages, CommitPending, Commit, Committed, AddAssistantUsage, Emit, Observed, Terminate, Least
<1>7. ASSUME NEW report \in Reports \cup {"rejected", "forged"}, ReportEnd(report) PROVE CommittedTurns'
  BY <1>7 DEF ReportEnd, Reading, ReadLine, Write, Unread, Usages, CommitPending, Commit, Committed, AddAssistantUsage, Emit, Observed, Fail, Terminate, Least
<1>8. CASE Junk
  BY <1>8 DEF Junk, Reading, ReadLine, Write, Unread, Fail, Terminate
<1>9. CASE Abort
  BY <1>9 DEF Abort, Terminate
<1>10. CASE StreamFails
  BY <1>10 DEF StreamFails, Fail, Terminate
<1>11. CASE StdinError
  BY <1>11 DEF StdinError, Fail, Terminate
<1>12. CASE Escalate
  BY <1>12 DEF Escalate
<1>13. CASE Close
  BY <1>13 DEF Close
<1>14. CASE Settle
  BY <1>14 DEF Settle, CommitPending, Commit, Committed, AddAssistantUsage, AccountedUsage, Outcome, Observed, Sweep, Usages, Least
<1>15. CASE StartTool
  BY <1>15 DEF StartTool
<1>16. ASSUME NEW p \in tree, Die(p) PROVE CommittedTurns'
  BY <1>16 DEF Die
<1>17. CASE UNCHANGED vars
  BY <1>17 DEF vars
<1> QED
  BY <1>1, <1>2, <1>3, <1>4, <1>5, <1>6, <1>7, <1>8, <1>9, <1>10, <1>11, <1>12, <1>13, <1>14, <1>15, <1>16, <1>17 DEF Next, Handler, Line

LEMMA StepOutlivedIsLatched ==
  ASSUME IInv, [Next]_vars
  PROVE  OutlivedIsLatched'
<1> USE WorkerProcessAssumption DEF IInv, TypeOK, PhaseInv, latches, account, observer, group, history
<1> USE DEF OutlivedIsLatched
<1>1. CASE Refused
  BY <1>1 DEF Refused, Reject
<1>2. CASE Spawn
  BY <1>2 DEF Spawn, Least
<1>3. ASSUME NEW usage \in Usages, Update(usage) PROVE OutlivedIsLatched'
  BY <1>3 DEF Update, Telling, Hears, Reading, ReadLine, Write, Unread, Usages
<1>4. ASSUME NEW usage \in Usages, NEW kind \in {"plain", "error", "batch"}, MessageEnd(usage, kind) PROVE OutlivedIsLatched'
  <2>1. batch' # "no" <=> kind = "batch" \/ batch # "no"
    BY <1>4 DEF MessageEnd
  <2>2. /\ output' = output /\ failure' = failure
        /\ ranOn' <=> ranOn \/ (kind = "batch" /\ output # None)
    BY <1>4 DEF MessageEnd, Unread
  <2>3. CASE hidden' = hidden /\ (notFinal' <=> notFinal \/ kind = "batch")
    BY <2>1, <2>2, <2>3
  <2>4. CASE /\ notFinal' = notFinal /\ (hidden => hidden')
             /\ kind = "batch" => hidden' \/ failure # None
    BY <2>1, <2>2, <2>4
  <2> QED
    BY <1>4, <2>3, <2>4 DEF MessageEnd, Unread
<1>5. CASE ToolStart
  BY <1>5 DEF ToolStart, Reading, ReadLine, Write, Unread, Usages, CommitPending, Commit, Committed, AddAssistantUsage, Emit, Observed, Terminate, Least
<1>6. CASE ToolEnd
  BY <1>6 DEF ToolEnd, Reading, ReadLine, Write, Unread, Usages, CommitPending, Commit, Committed, AddAssistantUsage, Emit, Observed, Terminate, Least
<1>7. ASSUME NEW report \in Reports \cup {"rejected", "forged"}, ReportEnd(report) PROVE OutlivedIsLatched'
  BY <1>7 DEF ReportEnd, Reading, ReadLine, Write, Unread, Usages, CommitPending, Commit, Committed, AddAssistantUsage, Emit, Observed, Fail, Terminate, Least
<1>8. CASE Junk
  BY <1>8 DEF Junk, Reading, ReadLine, Write, Unread, Fail, Terminate
<1>9. CASE Abort
  BY <1>9 DEF Abort, Terminate
<1>10. CASE StreamFails
  BY <1>10 DEF StreamFails, Fail, Terminate
<1>11. CASE StdinError
  BY <1>11 DEF StdinError, Fail, Terminate
<1>12. CASE Escalate
  BY <1>12 DEF Escalate
<1>13. CASE Close
  BY <1>13 DEF Close
<1>14. CASE Settle
  BY <1>14 DEF Settle, CommitPending, Commit, Committed, AddAssistantUsage, AccountedUsage, Outcome, Observed, Sweep, Usages, Least
<1>15. CASE StartTool
  BY <1>15 DEF StartTool
<1>16. ASSUME NEW p \in tree, Die(p) PROVE OutlivedIsLatched'
  BY <1>16 DEF Die
<1>17. CASE UNCHANGED vars
  BY <1>17 DEF vars
<1> QED
  BY <1>1, <1>2, <1>3, <1>4, <1>5, <1>6, <1>7, <1>8, <1>9, <1>10, <1>11, <1>12, <1>13, <1>14, <1>15, <1>16, <1>17 DEF Next, Handler, Line

LEMMA StepForcedIsDoomed ==
  ASSUME IInv, [Next]_vars
  PROVE  ForcedIsDoomed'
<1> USE WorkerProcessAssumption DEF IInv, TypeOK, PhaseInv, latches, account, observer, group, history
<1> USE DEF ForcedIsDoomed
<1>1. CASE Refused
  BY <1>1 DEF Refused, Reject
<1>2. CASE Spawn
  BY <1>2 DEF Spawn, Least
<1>3. ASSUME NEW usage \in Usages, Update(usage) PROVE ForcedIsDoomed'
  BY <1>3 DEF Update, Telling, Hears, Reading, ReadLine, Write, Unread, Usages
<1>4. ASSUME NEW usage \in Usages, NEW kind \in {"plain", "error", "batch"}, MessageEnd(usage, kind) PROVE ForcedIsDoomed'
  BY <1>4 DEF MessageEnd, Hears, Reading, ReadLine, Write, Unread, Usages, Commit, Committed, AddAssistantUsage, Emit, Observed, Terminate, Least
<1>5. CASE ToolStart
  BY <1>5 DEF ToolStart, Reading, ReadLine, Write, Unread, Usages, CommitPending, Commit, Committed, AddAssistantUsage, Emit, Observed, Terminate, Least
<1>6. CASE ToolEnd
  BY <1>6 DEF ToolEnd, Reading, ReadLine, Write, Unread, Usages, CommitPending, Commit, Committed, AddAssistantUsage, Emit, Observed, Terminate, Least
<1>7. ASSUME NEW report \in Reports \cup {"rejected", "forged"}, ReportEnd(report) PROVE ForcedIsDoomed'
  BY <1>7 DEF ReportEnd, Reading, ReadLine, Write, Unread, Usages, CommitPending, Commit, Committed, AddAssistantUsage, Emit, Observed, Fail, Terminate, Least
<1>8. CASE Junk
  BY <1>8 DEF Junk, Reading, ReadLine, Write, Unread, Fail, Terminate
<1>9. CASE Abort
  BY <1>9 DEF Abort, Terminate
<1>10. CASE StreamFails
  BY <1>10 DEF StreamFails, Fail, Terminate
<1>11. CASE StdinError
  BY <1>11 DEF StdinError, Fail, Terminate
<1>12. CASE Escalate
  BY <1>12 DEF Escalate
<1>13. CASE Close
  BY <1>13 DEF Close
<1>14. CASE Settle
  BY <1>14 DEF Settle, CommitPending, Commit, Committed, AddAssistantUsage, AccountedUsage, Outcome, Observed, Sweep, Usages, Least
<1>15. CASE StartTool
  BY <1>15 DEF StartTool
<1>16. ASSUME NEW p \in tree, Die(p) PROVE ForcedIsDoomed'
  BY <1>16 DEF Die
<1>17. CASE UNCHANGED vars
  BY <1>17 DEF vars
<1>18. CASE Line
  BY <1>3, <1>4, <1>5, <1>6, <1>7, <1>8, <1>18 DEF Line
<1>19. CASE Handler
  BY <1>9, <1>10, <1>11, <1>12, <1>13, <1>14, <1>18, <1>19 DEF Handler
<1> QED
  BY <1>1, <1>2, <1>15, <1>16, <1>17, <1>19 DEF Next

LEMMA StepObserverInv ==
  ASSUME IInv, [Next]_vars
  PROVE  ObserverInv'
<1> USE WorkerProcessAssumption DEF IInv, TypeOK, PhaseInv, latches, account, observer, group, history, Usages
<1> USE DEF ObserverInv
<1>1. CASE Refused
  BY <1>1 DEF Refused, Reject
<1>2. CASE Spawn
  BY <1>2 DEF Spawn, Least
<1>3. ASSUME NEW usage \in Usages, Update(usage) PROVE ObserverInv'
  BY <1>3 DEF Update, Telling, Hears, Reading, ReadLine, Write, Unread, Usages
<1>4. ASSUME NEW usage \in Usages, NEW kind \in {"plain", "error", "batch"}, MessageEnd(usage, kind) PROVE ObserverInv'
  BY <1>4 DEF MessageEnd, Hears, Reading, ReadLine, Write, Unread, Usages, Commit, Committed, AddAssistantUsage, Emit, Observed, Terminate, Least
<1>5. CASE ToolStart
  BY <1>5 DEF ToolStart, Reading, ReadLine, Write, Unread, Usages, CommitPending, Commit, Committed, AddAssistantUsage, Emit, Observed, Terminate, Least
<1>6. CASE ToolEnd
  BY <1>6 DEF ToolEnd, Reading, ReadLine, Write, Unread, Usages, CommitPending, Commit, Committed, AddAssistantUsage, Emit, Observed, Terminate, Least
<1>7. ASSUME NEW report \in Reports \cup {"rejected", "forged"}, ReportEnd(report) PROVE ObserverInv'
  BY <1>7 DEF ReportEnd, Reading, ReadLine, Write, Unread, Usages, CommitPending, Commit, Committed, AddAssistantUsage, Emit, Observed, Fail, Terminate, Least
<1>8. CASE Junk
  BY <1>8 DEF Junk, Reading, ReadLine, Write, Unread, Fail, Terminate
<1>9. CASE Abort
  BY <1>9 DEF Abort, Terminate
<1>10. CASE StreamFails
  BY <1>10 DEF StreamFails, Fail, Terminate
<1>11. CASE StdinError
  BY <1>11 DEF StdinError, Fail, Terminate
<1>12. CASE Escalate
  BY <1>12 DEF Escalate
<1>13. CASE Close
  BY <1>13 DEF Close
<1>14. CASE Settle
  BY <1>14 DEF Settle, CommitPending, Commit, Committed, AddAssistantUsage, AccountedUsage, Outcome, Observed, Sweep, Usages, Least
<1>15. CASE StartTool
  BY <1>15 DEF StartTool
<1>16. ASSUME NEW p \in tree, Die(p) PROVE ObserverInv'
  BY <1>16 DEF Die
<1>17. CASE UNCHANGED vars
  BY <1>17 DEF vars
<1> QED
  BY <1>1, <1>2, <1>3, <1>4, <1>5, <1>6, <1>7, <1>8, <1>9, <1>10, <1>11, <1>12, <1>13, <1>14, <1>15, <1>16, <1>17 DEF Next, Handler, Line

LEMMA StepVerdictSpend ==
  ASSUME IInv, [Next]_vars
  PROVE  VerdictSpend'
<1> USE WorkerProcessAssumption DEF IInv, TypeOK, PhaseInv, latches, account, observer, group, history, Usages
<1> USE DEF VerdictSpend
<1>1. CASE Refused
  BY <1>1 DEF Refused, Reject
<1>2. CASE Spawn
  BY <1>2 DEF Spawn, Least
<1>3. ASSUME NEW usage \in Usages, Update(usage) PROVE VerdictSpend'
  BY <1>3 DEF Update, Telling, Hears, Reading, ReadLine, Write, Unread, Usages
<1>4. ASSUME NEW usage \in Usages, NEW kind \in {"plain", "error", "batch"}, MessageEnd(usage, kind) PROVE VerdictSpend'
  BY <1>4 DEF MessageEnd, Hears, Reading, ReadLine, Write, Unread, Usages, Commit, Committed, AddAssistantUsage, Emit, Observed, Terminate, Least
<1>5. CASE ToolStart
  BY <1>5 DEF ToolStart, Reading, ReadLine, Write, Unread, Usages, CommitPending, Commit, Committed, AddAssistantUsage, Emit, Observed, Terminate, Least
<1>6. CASE ToolEnd
  BY <1>6 DEF ToolEnd, Reading, ReadLine, Write, Unread, Usages, CommitPending, Commit, Committed, AddAssistantUsage, Emit, Observed, Terminate, Least
<1>7. ASSUME NEW report \in Reports \cup {"rejected", "forged"}, ReportEnd(report) PROVE VerdictSpend'
  BY <1>7 DEF ReportEnd, Reading, ReadLine, Write, Unread, Usages, CommitPending, Commit, Committed, AddAssistantUsage, Emit, Observed, Fail, Terminate, Least
<1>8. CASE Junk
  BY <1>8 DEF Junk, Reading, ReadLine, Write, Unread, Fail, Terminate
<1>9. CASE Abort
  BY <1>9 DEF Abort, Terminate
<1>10. CASE StreamFails
  BY <1>10 DEF StreamFails, Fail, Terminate
<1>11. CASE StdinError
  BY <1>11 DEF StdinError, Fail, Terminate
<1>12. CASE Escalate
  BY <1>12 DEF Escalate
<1>13. CASE Close
  BY <1>13 DEF Close
<1>14. CASE Settle
  BY <1>14 DEF Settle, CommitPending, Commit, Committed, AddAssistantUsage, AccountedUsage, Outcome, Observed, Sweep, Usages, Least
<1>15. CASE StartTool
  BY <1>15 DEF StartTool
<1>16. ASSUME NEW p \in tree, Die(p) PROVE VerdictSpend'
  BY <1>16 DEF Die
<1>17. CASE UNCHANGED vars
  BY <1>17 DEF vars
<1> QED
  BY <1>1, <1>2, <1>3, <1>4, <1>5, <1>6, <1>7, <1>8, <1>9, <1>10, <1>11, <1>12, <1>13, <1>14, <1>15, <1>16, <1>17 DEF Next, Handler, Line

LEMMA StepVerdictInv ==
  ASSUME IInv, [Next]_vars
  PROVE  VerdictInv'
<1> USE WorkerProcessAssumption DEF IInv, TypeOK, PhaseInv, latches, account, observer, group, history, Failures
<1> USE DEF VerdictInv
<1>1. CASE Refused
  BY <1>1 DEF Refused, Reject
<1>2. CASE Spawn
  BY <1>2 DEF Spawn, Least
<1>3. ASSUME NEW usage \in Usages, Update(usage) PROVE VerdictInv'
  BY <1>3 DEF Update, Telling, Hears, Reading, ReadLine, Write, Unread, Usages
<1>4. ASSUME NEW usage \in Usages, NEW kind \in {"plain", "error", "batch"}, MessageEnd(usage, kind) PROVE VerdictInv'
  BY <1>4 DEF MessageEnd, Hears, Reading, ReadLine, Write, Unread, Usages, Commit, Committed, AddAssistantUsage, Emit, Observed, Terminate, Least
<1>5. CASE ToolStart
  BY <1>5 DEF ToolStart, Reading, ReadLine, Write, Unread, Usages, CommitPending, Commit, Committed, AddAssistantUsage, Emit, Observed, Terminate, Least
<1>6. CASE ToolEnd
  BY <1>6 DEF ToolEnd, Reading, ReadLine, Write, Unread, Usages, CommitPending, Commit, Committed, AddAssistantUsage, Emit, Observed, Terminate, Least
<1>7. ASSUME NEW report \in Reports \cup {"rejected", "forged"}, ReportEnd(report) PROVE VerdictInv'
  BY <1>7 DEF ReportEnd, Reading, ReadLine, Write, Unread, Usages, CommitPending, Commit, Committed, AddAssistantUsage, Emit, Observed, Fail, Terminate, Least
<1>8. CASE Junk
  BY <1>8 DEF Junk, Reading, ReadLine, Write, Unread, Fail, Terminate
<1>9. CASE Abort
  BY <1>9 DEF Abort, Terminate
<1>10. CASE StreamFails
  BY <1>10 DEF StreamFails, Fail, Terminate
<1>11. CASE StdinError
  BY <1>11 DEF StdinError, Fail, Terminate
<1>12. CASE Escalate
  BY <1>12 DEF Escalate
<1>13. CASE Close
  BY <1>13 DEF Close
<1>14. CASE Settle
  BY <1>14 DEF Settle, CommitPending, Commit, Committed, AddAssistantUsage, AccountedUsage, Outcome, Observed, Sweep, Usages, Least
<1>15. CASE StartTool
  BY <1>15 DEF StartTool
<1>16. ASSUME NEW p \in tree, Die(p) PROVE VerdictInv'
  BY <1>16 DEF Die
<1>17. CASE UNCHANGED vars
  BY <1>17 DEF vars
<1> QED
  BY <1>1, <1>2, <1>3, <1>4, <1>5, <1>6, <1>7, <1>8, <1>9, <1>10, <1>11, <1>12, <1>13, <1>14, <1>15, <1>16, <1>17 DEF Next, Handler, Line

LEMMA InitIInv == Init => IInv
<1> SUFFICES ASSUME Init PROVE IInv
  OBVIOUS
<1>1. TypeOK
  BY DEF Init, TypeOK, Usages
<1>2. PhaseInv /\ OutlivedIsLatched /\ ForcedIsDoomed /\ ObserverInv /\ VerdictSpend /\ VerdictInv
  BY WorkerProcessAssumption DEF Init, PhaseInv, OutlivedIsLatched, ForcedIsDoomed, ObserverInv,
     VerdictSpend, VerdictInv
<1>3. OpenTurn
  BY DEF Init, OpenTurn, Pended
<1>4. CommittedTurns
  BY WorkerProcessAssumption DEF Init, CommittedTurns, Dropped, Least
<1> QED
  BY <1>1, <1>2, <1>3, <1>4 DEF IInv

LEMMA StepIInv == IInv /\ [Next]_vars => IInv'
BY StepTypeOK, StepPhaseInv, StepOpenTurn, StepCommittedTurns, StepOutlivedIsLatched,
   StepForcedIsDoomed, StepObserverInv, StepVerdictSpend, StepVerdictInv DEF IInv

(* The inductive invariant holds of every child.                            *)
THEOREM ProcessInvariant == Spec => []IInv
BY InitIInv, StepIInv, PTL DEF Spec

(* Every latch, counter and phase keeps its type.                           *)
THEOREM TypeCorrect == Spec => []TypeOK
<1>1. IInv => TypeOK
  BY DEF IInv
<1> QED
  BY <1>1, ProcessInvariant, PTL

(* No turn is spent twice, and a spend that is reported is that of all the  *)
(* turns whose cost was read, for every stream and every saturation bound,  *)
(* but for the turns the code loses: one whose end was not read, one whose  *)
(* figures a value that is no record replaced, and the one that was open    *)
(* when the stream broke off inside a character (addAssistantUsage,         *)
(* commitAssistantUsage, the `close` handler).                              *)
THEOREM SpendIsExact == Spec => []SpendExact
<1>1. IInv => SpendExact
  BY WorkerProcessAssumption DEF IInv, TypeOK, OpenTurn, CommittedTurns, VerdictSpend, SpendExact,
     Dropped, Least
<1> QED
  BY <1>1, ProcessInvariant, PTL

(* In whatever order its events came, no node succeeds on a report that     *)
(* other work outlived, unless the line that shows it was too large to      *)
(* read; and a report nothing outlived succeeds if no message ever called   *)
(* the report beside another tool. The second half has that premise because *)
(* the code latches any such message (see CorrectedReportCounts).           *)
THEOREM VerdictIsTheReport == Spec => []VerdictIsReport
<1>1. IInv => VerdictIsReport
  BY DEF IInv, TypeOK, OutlivedIsLatched, VerdictInv, VerdictIsReport
<1> QED
  BY <1>1, ProcessInvariant, PTL

(* When the promise settles, what is left of the group is being killed.     *)
THEOREM GroupIsCollected == Spec => []TreeCollected
<1>1. IInv => TreeCollected
  BY DEF IInv, ForcedIsDoomed, TreeCollected
<1> QED
  BY <1>1, ProcessInvariant, PTL

(* The observer's bound holds and its last update is never lost to it.      *)
THEOREM EndIsAlwaysObserved == Spec => []EndIsObserved
<1>1. IInv => EndIsObserved
  BY WorkerProcessAssumption DEF IInv, TypeOK, ObserverInv, EndIsObserved
<1> QED
  BY <1>1, ProcessInvariant, PTL
=============================================================================
