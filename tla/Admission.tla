------------------------------ MODULE Admission ------------------------------
(****************************************************************************)
(* What a graph goes through before it has a run: the tool's request parser *)
(* (orchestrator.ts) or, for a caller of the library, nothing; the runtime  *)
(* bounds (run.ts), the normalization of the graph (graph.ts), the          *)
(* executor's look at every payload (pi-subprocess.ts), and the manifest    *)
(* (store.ts) it is stored in and read back from. Each layer validates      *)
(* again what it is given, and normalizes it again.                         *)
(*                                                                          *)
(* A request is [via, tasks, concurrency]; a task [id, needs, payload]. An  *)
(* id as written is [name, padded], name 0 being the empty one: trim takes  *)
(* the padding away. Ids are ordered as their names.                        *)
(*                                                                          *)
(* The search for a cycle is the loop of the code, one action for each turn *)
(* of it. In which order it looks at roots and dependencies is left open.   *)
(****************************************************************************)
EXTENDS Integers, Sequences, FiniteSets, Functions

CONSTANTS
  Requests,        \* the requests submitted
  Profiles,        \* the configured worker profiles
  None,            \* an optional field left out
  MaxTasks, MaxNeeds, MaxConcurrency, MaxPayload,   \* RUN_GRAPH_LIMITS
  MaxRounds, MaxCommands,   \* REVIEW_LIMITS, CHECK_LIMITS
  MaxRecord        \* RUN_STORE_MAX_RECORD_BYTES

RawIds == [name : Nat, padded : BOOLEAN]

Payloads ==
  [profile : STRING, bytes : Nat,
   review : {None} \cup [profile : STRING, rounds : Int, bytes : Nat],
   check : {None} \cup [commands : Int, rounds : Int]]

ASSUME RequestsAssumption ==
  /\ Requests \subseteq
       [via : {"tool", "library"}, concurrency : {None} \cup Int,
        tasks : Seq([id : RawIds, needs : Seq(RawIds), payload : Payloads])]
  /\ {MaxTasks, MaxNeeds, MaxConcurrency, MaxPayload, MaxRounds, MaxCommands, MaxRecord}
       \subseteq Nat

VARIABLES
  request,   \* the request, normalized or not
  stage,     \* the last layer that let it pass, or what refused it
  frames,    \* the path of the search: [id, left], left what is still to be looked at
  marks      \* what the search marked each id with; None while there is no search

admission == <<request, stage, frames, marks>>

AdmissionInit ==
  request \in Requests /\ stage = "submitted" /\ frames = <<>> /\ marks = None

Trimmed(raw) == [raw EXCEPT !.padded = FALSE]
Blank(raw) == raw.name = 0

(* Every layer either passes the request on, perhaps changed, or throws.    *)
Layer(from, to, fine, next, error) ==
  /\ stage = from
  /\ IF fine THEN stage' = to /\ request' = next
             ELSE stage' = error /\ UNCHANGED request
  /\ frames' = <<>> /\ marks' = None

-----------------------------------------------------------------------------
(* parseWorkerGraphRequest. An optional list that is there has its bounds.  *)
ReviewParses(review) == review = None \/ review.rounds \in 1..MaxRounds

CheckParses(check) ==
  check = None \/ (check.rounds \in 1..MaxRounds /\ check.commands \in 1..MaxCommands)

TaskParses(task) ==
  /\ ~Blank(task.id)
  /\ Len(task.needs) <= MaxNeeds
  /\ \A i \in DOMAIN task.needs : ~Blank(task.needs[i])
  /\ ReviewParses(task.payload.review) /\ CheckParses(task.payload.check)

RequestParses ==
  /\ Len(request.tasks) \in 1..MaxTasks
  /\ \A i \in DOMAIN request.tasks : TaskParses(request.tasks[i])
  /\ request.concurrency = None \/ request.concurrency \in 1..MaxConcurrency

Parse ==
  Layer("submitted", "parsed", request.via = "tool" => RequestParses, request, "refused")

(* validateRun.                                                             *)
WithinBounds ==
  /\ Len(request.tasks) <= MaxTasks
  /\ request.concurrency = None \/ request.concurrency <= MaxConcurrency
  /\ \A i \in DOMAIN request.tasks :
       /\ Len(request.tasks[i].needs) <= MaxNeeds
       /\ request.tasks[i].payload.bytes <= MaxPayload

CheckBounds == Layer("parsed", "bounded", WithinBounds, request, "refused")

-----------------------------------------------------------------------------
(* normalizedTasks: needs are trimmed, then told apart, then sorted: the    *)
(* k-th has k - 1 before it.                                                *)
Sorted(ids) ==
  [k \in 1..Cardinality(ids) |->
     CHOOSE d \in ids : Cardinality({e \in ids : e.name < d.name}) = k - 1]

NormalNeeds(needs) == Sorted({Trimmed(needs[i]) : i \in DOMAIN needs})

NormalTasks(tasks) ==
  [i \in DOMAIN tasks |->
     [tasks[i] EXCEPT !.id = Trimmed(@), !.needs = NormalNeeds(@)]]

Ids(tasks) == {tasks[i].id : i \in DOMAIN tasks}

NeedsOf(tasks) ==
  [id \in Ids(tasks) |->
     UNION {Range(tasks[i].needs) : i \in {j \in DOMAIN tasks : tasks[j].id = id}}]

Duplicated(tasks) == \E i, j \in DOMAIN tasks : i # j /\ tasks[i].id = tasks[j].id

-----------------------------------------------------------------------------
(* findCycle: depth first from every id not yet marked, along the needs     *)
(* that are other tasks of the graph.                                       *)
Dependencies(tasks) ==
  [id \in Ids(tasks) |-> {d \in NeedsOf(tasks)[id] : d # id /\ d \in Ids(tasks) /\ ~Blank(d)}]

(* Deviation: the search starts from tasks without prerequisites.           *)
RootsWithoutNeeds(tasks) == {id \in Ids(tasks) : Dependencies(tasks)[id] = {}}

Roots(tasks) == Ids(tasks)

Validating == stage \in {"bounded", "accepted", "created"}
Searched == NormalTasks(request.tasks)

FindCycle ==
  /\ Validating /\ marks = None /\ ~Duplicated(Searched)
  /\ marks' = [id \in Ids(Searched) |-> "unmarked"] /\ frames' = <<>>
  /\ UNCHANGED <<request, stage>>

Visit(path, id) ==
  /\ frames' = Append(path, [id |-> id, left |-> Dependencies(Searched)[id]])
  /\ marks' = [marks EXCEPT ![id] = "visiting"]

VisitRoot ==
  /\ marks # None /\ frames = <<>>
  /\ \E id \in Roots(Searched) : marks[id] = "unmarked" /\ Visit(<<>>, id)
  /\ UNCHANGED <<request, stage>>

Top == frames[Len(frames)]

LookAtNext ==
  /\ frames # <<>>
  /\ \E d \in Top.left :
       LET rest == [frames EXCEPT ![Len(frames)].left = @ \ {d}]
       IN  \/ marks[d] = "unmarked" /\ Visit(rest, d)
           \/ marks[d] = "visited" /\ frames' = rest /\ UNCHANGED marks
  /\ UNCHANGED <<request, stage>>

Return ==
  /\ frames # <<>> /\ Top.left = {}
  /\ frames' = SubSeq(frames, 1, Len(frames) - 1)
  /\ marks' = [marks EXCEPT ![Top.id] = "visited"]
  /\ UNCHANGED <<request, stage>>

Search == FindCycle \/ VisitRoot \/ LookAtNext \/ Return

(* A cycle is met in a dependency that is being visited. The one found      *)
(* first is reported.                                                       *)
CycleFound == frames # <<>> /\ \E d \in Top.left : marks[d] = "visiting"

NothingLeft ==
  /\ marks # None /\ frames = <<>>
  /\ \A id \in Roots(Searched) : marks[id] # "unmarked"

(* validateGraph, once its search has ended: the request has an issue.      *)
Validated == Validating /\ (Duplicated(Searched) \/ CycleFound \/ NothingLeft)

HasIssue ==
  \/ Duplicated(Searched)
  \/ \E i \in DOMAIN Searched :
       \/ Blank(Searched[i].id)
       \/ \E d \in Range(Searched[i].needs) :
            Blank(d) \/ d = Searched[i].id \/ d \notin Ids(Searched)
  \/ request.concurrency # None /\ request.concurrency <= 0
  \/ CycleFound

Normalized == [request EXCEPT !.tasks = NormalTasks(@)]

Normalize ==
  /\ Validated
  /\ Layer("bounded", "normalized", ~HasIssue, Normalized, "rejected")

-----------------------------------------------------------------------------
(* validateTasks: what a round would otherwise find out after another was   *)
(* spent. The reviewer's own payload is generated from the task's.          *)
ProfilesKnown(payload) ==
  /\ payload.profile \in Profiles
  /\ payload.review # None => payload.review.profile \in Profiles

(* parseWorkerTaskPayload.                                                  *)
PayloadParses(payload) == ReviewParses(payload.review) /\ CheckParses(payload.check)

PayloadRuns(payload) ==
  /\ PayloadParses(payload)
  /\ ProfilesKnown(payload)
  /\ payload.bytes <= MaxPayload
  /\ payload.review # None => payload.review.bytes <= MaxPayload

CheckPayloads ==
  Layer("normalized", "accepted",
        \A i \in DOMAIN request.tasks : PayloadRuns(request.tasks[i].payload), request, "refused")

(* createRun normalizes the graph again, and the manifest has to fit in a   *)
(* record before anything is created for it.                                *)
ManifestBytes ==
  SumFunction([i \in DOMAIN request.tasks |-> request.tasks[i].payload.bytes])

CreateRun ==
  /\ Validated
  /\ Layer("accepted", "created", ~HasIssue /\ ManifestBytes <= MaxRecord,
           Normalized, "refused")

(* readRun: validateManifest accepts only a normalized graph; runGraph      *)
(* normalizes once more what it schedules from.                             *)
ReadManifest ==
  /\ Validated
  /\ Layer("created", "scheduled", ~HasIssue /\ Normalized.tasks = request.tasks,
           Normalized, "unreadable")

Admit ==
  \/ Search
  \/ Parse \/ CheckBounds \/ Normalize \/ CheckPayloads \/ CreateRun \/ ReadManifest

(* The run of what was scheduled begins.                                    *)
Run == stage = "scheduled" /\ stage' = "running" /\ UNCHANGED <<request, frames, marks>>

AdmissionSpec == AdmissionInit /\ [][Admit \/ Run]_admission

-----------------------------------------------------------------------------
(* What RunGraph assumes of a graph, by TaskGraph's definitions.            *)
Graph(T, N) == INSTANCE TaskGraph WITH Tasks <- T, Needs <- N

SoundGraph(tasks) ==
  LET needs == NeedsOf(tasks)
  IN  /\ Cardinality(Ids(tasks)) = Len(tasks)
      /\ \A id \in Ids(tasks) : ~Blank(id) /\ needs[id] \subseteq Ids(tasks)
      /\ Graph(Ids(tasks), needs)!Acyclic

(* A request is scheduled only as a graph the scheduler can finish: every   *)
(* prerequisite a task of the graph, no cycle, a usable concurrency, and no *)
(* profile, a reviewer's neither, that a round would look up in vain. What  *)
(* was stored for it is always readable. And the graph is rejected only if  *)
(* trimming its ids does leave such a problem.                              *)
AdmittedIsRunnable ==
  /\ stage \in {"scheduled", "running"} =>
       /\ SoundGraph(request.tasks)
       /\ request.concurrency = None \/ request.concurrency \in 1..MaxConcurrency
       /\ \A i \in DOMAIN request.tasks :
            LET payload == request.tasks[i].payload
            IN  /\ payload.profile \in Profiles
                /\ payload.review # None =>
                     payload.review.profile \in Profiles /\ payload.review.rounds >= 1
  /\ stage # "unreadable"
  /\ stage = "rejected" =>
       ~SoundGraph(NormalTasks(request.tasks)) \/ (request.concurrency # None /\ request.concurrency <= 0)
=============================================================================
