--------------------------- MODULE RecordContents ---------------------------
(****************************************************************************)
(* What a record of a run may contain, from its author to its readers. A    *)
(* worker's event or message is parsed and measured when it is published    *)
(* (store.ts). What an executor settles a task with is validated by the     *)
(* runner (run.ts, output.ts, usage.ts), again by the store that publishes  *)
(* it, again by every reader, and once more when it is handed to dependents *)
(* (context.ts). Each layer has bounds of its own, in bytes of text or of   *)
(* JSON, and none may refuse what the one before it let pass: that would be *)
(* a run that fails over its own record, or a journal nobody can read on.   *)
(*                                                                          *)
(* A text is [blank, bytes, json, line]: its size in UTF-8, as a JSON       *)
(* string, and on the single line a prompt needs. Sizes are in KiB, rounded *)
(* up. A coordination draft is [kind, author, to, message, items]; a result *)
(* is [kind, report, artifact, usage, diagnostics], a report [texts,        *)
(* blockers].                                                               *)
(****************************************************************************)
EXTENDS Integers, Sequences, FiniteSets, Functions

CONSTANTS
  Drafts,          \* what workers publish and executors settle with
  Members,         \* the tasks of the run
  Worker,          \* the one whose worker calls a tool
  Absent,          \* an optional field left out
  Envelope,        \* field names, identifiers, timestamps, usage
  MaxRecord,       \* RUN_STORE_MAX_RECORD_BYTES
  MaxText, MaxItem, MaxItems, MaxCoordination, MaxPage,   \* RUN_COORDINATION_*
  MaxReport, MaxSection, MaxReportText, MaxDiagnostics, MaxArtifact,  \* NODE_OUTPUT_LIMITS
  MaxResult, MaxContext   \* maxOutputBytes, maxPrerequisiteBytes

(* JSON writes a byte as six at most, and only blanks are nothing.          *)
AnyText ==
  {text \in [blank : BOOLEAN, bytes : Nat, json : Nat, line : Nat] :
     text.json <= 6 * text.bytes /\ (~text.blank => text.bytes > 0)}

ASSUME DraftsAssumption ==
  \A d \in Drafts :
    \/ /\ d.kind \in {"event", "message"}
       /\ d = [kind |-> d.kind, author |-> d.author, to |-> d.to, message |-> d.message,
               items |-> d.items]
       /\ d.message \in AnyText /\ d.items \in Seq(AnyText)
    \/ /\ d.kind = "result"
       /\ d.report # Absent => d.report.texts \in Seq(AnyText) /\ d.report.blockers \in BOOLEAN
       /\ {d.artifact, d.diagnostics} \subseteq AnyText \cup {Absent}

(* What one layer lets pass is within the bounds of the next.               *)
ASSUME BoundsAssumption ==
  /\ {Envelope, MaxRecord, MaxText, MaxItem, MaxItems, MaxCoordination, MaxPage, MaxReport,
      MaxSection, MaxReportText, MaxDiagnostics, MaxArtifact, MaxResult, MaxContext} \subseteq Nat
  /\ MaxCoordination < MaxPage
  /\ Envelope + MaxResult <= MaxRecord /\ Envelope + 6 * MaxArtifact <= MaxRecord
  /\ 1 <= MaxDiagnostics /\ Envelope + 1 <= MaxRecord

VARIABLES
  draft,   \* what is to be recorded
  layer    \* the last layer that let it pass, or how it ended

contents == <<draft, layer>>

ContentsInit == draft \in Drafts /\ layer = "drafted"

Total(texts, Measure(_)) == SumFunction([i \in DOMAIN texts |-> Measure(texts[i])])
Raw(text) == text.bytes
Json(text) == text.json
Line(text) == text.line

(* coordinationText and output.ts's text: trimmed, something is left.       *)
Bounded(text, max) == ~text.blank /\ text.bytes <= max
AllBounded(texts, max) == \A i \in DOMAIN texts : Bounded(texts[i], max)

Pass(from, to, fine, error) ==
  /\ layer = from
  /\ layer' = IF fine THEN to ELSE error

-----------------------------------------------------------------------------
(* Events and messages.                                                     *)

(* validStringArray.                                                        *)
ValidList(texts, max) == Len(texts) <= MaxItems /\ AllBounded(texts, max)

RecordSize(d) == Envelope + Json(d.message) + Total(d.items, Json)

(* Deviation: the bound is on the text, not on what is written of it.       *)
FitsAsText(d) == Envelope + Raw(d.message) + Total(d.items, Raw) <= MaxCoordination

FitsJournal(d) == RecordSize(d) <= MaxCoordination

(* The tools take the fields they declare; the author is the task of the    *)
(* worker's process, whatever the call says.                                *)
CallTool ==
  /\ draft.kind \in {"event", "message"}
  /\ Pass("drafted", "called", TRUE, "refused")
  /\ draft' = [draft EXCEPT !.author = Worker]

(* parsePublishRunEvent.                                                    *)
EventParses(d) == Bounded(d.message, MaxText) /\ ValidList(d.items, MaxItem)

(* publishRunEvent, under the lock of the run.                              *)
PublishEvent ==
  /\ draft.kind = "event"
  /\ Pass("called", "stored",
          EventParses(draft) /\ {draft.author} \cup draft.to \subseteq Members /\ FitsJournal(draft),
          "refused")
  /\ UNCHANGED draft

(* parsePublishRunMessage.                                                  *)
MessageParses(d) == Bounded(d.message, MaxText)

(* sendRunMessage, to the one recipient.                                    *)
SendMessage ==
  /\ draft.kind = "message"
  /\ Pass("called", "stored",
          MessageParses(draft) /\ {draft.author} \cup draft.to \subseteq Members /\ FitsJournal(draft),
          "refused")
  /\ UNCHANGED draft

(* readCoordinationPage: a record is within its bound, and then it fits a   *)
(* page, brackets included.                                                 *)
FitsPage(d) == RecordSize(d) <= MaxCoordination /\ RecordSize(d) < MaxPage

(* validateRunEvent: a message of blanks would do.                          *)
ReadableEvent(d) == d.message.bytes <= MaxText /\ ValidList(d.items, MaxItem)

(* readRunEvents. Who an event is for is not looked up again.               *)
ReadEvent ==
  /\ draft.kind = "event"
  /\ Pass("stored", "read",
          ReadableEvent(draft) /\ draft.author \in Members /\ FitsPage(draft), "unreadable")
  /\ UNCHANGED draft

(* validateRunMessage.                                                      *)
ReadableMessage(d) == d.message.bytes <= MaxText

(* readRunMessages.                                                         *)
ReadMessage ==
  /\ draft.kind = "message"
  /\ Pass("stored", "read",
          ReadableMessage(draft) /\ {draft.author} \cup draft.to \subseteq Members /\ FitsPage(draft),
          "unreadable")
  /\ UNCHANGED draft

-----------------------------------------------------------------------------
(* Results. parseReport keeps a budget of what the texts take as JSON and   *)
(* measures the whole report at the end.                                    *)
ReportSize(report) == Envelope + Total(report.texts, Json)

ReportParses(report) ==
  /\ Len(report.texts) <= MaxSection
  /\ AllBounded(report.texts, MaxReportText)
  /\ ReportSize(report) <= MaxReport

(* parseNodeArtifact.                                                       *)
ArtifactParses(text) == text = Absent \/ Bounded(text, MaxArtifact)

(* parseTaskUsage: figures in range, or none at all.                        *)
UsageParses(usage) == usage \in {Absent, "in_range"}

(* parseNodeDiagnostics: any string, within its bound also as JSON.         *)
DiagnosticsParse(text) ==
  text = Absent \/ (text.bytes <= MaxDiagnostics /\ text.json <= MaxDiagnostics)

JsonOf(text) == IF text = Absent THEN 0 ELSE Json(text)

(* What dependents and the parent are handed; the artifact is apart.        *)
ResultFits(d) == ReportSize(d.report) + JsonOf(d.diagnostics) <= MaxResult

ResultParses(d) ==
  /\ d.report # Absent => ReportParses(d.report)
  /\ ArtifactParses(d.artifact)
  /\ UsageParses(d.usage)
  /\ DiagnosticsParse(d.diagnostics)

Output(status, report, artifact, usage, diagnostics) ==
  [kind |-> "output", status |-> status, report |-> report, artifact |-> artifact,
   usage |-> usage, diagnostics |-> diagnostics]

(* A line from the runner's own table.                                      *)
Diagnosed == [blank |-> FALSE, bytes |-> 1, json |-> 1, line |-> 1]

InvalidResult == Output("failed", Absent, Absent, Absent, Diagnosed)

(* validateExecutorResult.                                                  *)
ValidResult(d) == d.report # Absent /\ ResultParses(d) /\ ResultFits(d)

Validated(d) ==
  IF ~ValidResult(d) THEN InvalidResult
  ELSE Output(IF d.report.blockers THEN "failed" ELSE "succeeded",
              d.report, d.artifact, d.usage, d.diagnostics)

ValidateResult ==
  /\ draft.kind = "result"
  /\ Pass("drafted", "settled", TRUE, "refused")
  /\ draft' = Validated(draft)

(* A task that timed out or was aborted meanwhile: withUsage keeps what the *)
(* valid result, or the failure, says it spent and drops the rest.          *)
DiscardResult ==
  /\ draft.kind = "result"
  /\ Pass("drafted", "settled", TRUE, "refused")
  /\ \E status \in {"failed", "aborted"}, usage \in {Absent, Validated(draft).usage} :
       draft' = Output(status, Absent, Absent, usage, Diagnosed)

(* publishNodeOutput, as persistCompletion calls it.                        *)
Publishable(d) ==
  /\ d.status = "succeeded" => d.report # Absent /\ ~d.report.blockers
  /\ d.status = "aborted" => d.report = Absent /\ d.artifact = Absent
  /\ ResultParses(d)

OutputSize(d) ==
  Envelope + JsonOf(d.diagnostics) + (IF d.report = Absent THEN 0 ELSE ReportSize(d.report))

FitsRecord(d) == OutputSize(d) <= MaxRecord /\ Envelope + JsonOf(d.artifact) <= MaxRecord

PublishOutput ==
  /\ draft.kind = "output"
  /\ Pass("settled", "stored", Publishable(draft) /\ FitsRecord(draft), "unpublishable")
  /\ UNCHANGED draft

(* validateNodeOutputRecord, which finds the artifact's size in the output, *)
(* and validateNodeArtifact.                                                *)
ReadableOutput(d) ==
  /\ d.artifact # Absent => d.artifact.bytes \in 1 .. MaxArtifact
  /\ UsageParses(d.usage) /\ DiagnosticsParse(d.diagnostics)
  /\ IF d.report = Absent THEN d.status # "succeeded"
     ELSE /\ ReportParses(d.report)
          /\ d.status = "failed" \/ (d.status = "succeeded" /\ ~d.report.blockers)

(* readNodeOutput and readNodeArtifact; readJson measures the file first.   *)
ReadOutput ==
  /\ draft.kind = "output"
  /\ Pass("stored", "read",
          FitsRecord(draft) /\ ReadableOutput(draft) /\ ArtifactParses(draft.artifact),
          "unreadable")
  /\ UNCHANGED draft

(* serializePrerequisiteReports for a dependent with no other prerequisite: *)
(* the report is parsed once more, and line separators are escaped.         *)
HandOn ==
  /\ draft.kind = "output" /\ draft.status = "succeeded"
  /\ Pass("read",
          IF Envelope + Total(draft.report.texts, Line) <= MaxContext THEN "handed on" ELSE "overflow",
          ReportParses(draft.report), "unreadable")
  /\ UNCHANGED draft

Record ==
  \/ CallTool \/ PublishEvent \/ SendMessage \/ ReadEvent \/ ReadMessage
  \/ ValidateResult \/ DiscardResult \/ PublishOutput \/ ReadOutput \/ HandOn

-----------------------------------------------------------------------------
(* No layer refuses what the one before it let pass, whatever characters a  *)
(* text is made of: a result the runner accepted is published, and every    *)
(* record in the store can be read, and fits the page it is read in. What   *)
(* is read there of a worker was written by that worker.                    *)
RecordsReadBack ==
  /\ layer \notin {"unpublishable", "unreadable"}
  /\ draft.kind \in {"event", "message"} /\ layer = "read" => draft.author = Worker
=============================================================================
