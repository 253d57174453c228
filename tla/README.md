# A verification development for pi-worker-graph

pi-worker-graph lets one parent agent session run a dependency graph of writable
worker agents in one checkout. A *run* is one graph: a directory of JSON records
under a state root, an orchestrator process that schedules it, and one worker
process per round of a task. Two kinds of code are hard in it. Processes
coordinate through nothing but the filesystem (exclusive links, renames and
removals of small files), and each may be killed anywhere. And every long-lived
piece of a process (the scheduler, a worker's parent, the check and review
cycle, the session's mode) is asynchronous code that reads state, awaits, and
goes on with what it read.

Line numbers refer to `src/src/*.ts`. A definition whose comment begins with
"Deviation" models a plausible mistake in the definition after it; no
specification uses it, and `PROJECT.json` ("mutants") pairs it with the property
that fails when it takes that definition's place.

## 1. Inventory

| component | state | operations | interacts with |
|---|---|---|---|
| task graph (`graph.ts`) | none, pure | `validateGraph`, `setNodeStatus`, `readyFrontier`, `settleBlocked`, `isGraphComplete` | the scheduler, every layer that is given a graph |
| scheduler (`run.ts`) | node states in memory, the map `running`, an abort signal | `runGraph`, `executeTask`, `persistCompletion`, `abortPending`, `releaseRunHold` | store, executor, caller's signal |
| run ownership and mutation lock (`store.ts`) | `owner.json`, `mutation.lock` of each run | `acquireRunOwnership`, `assertRunOwnership`, `recoverRunMutationLock`, `releaseRunOwnership`, `forceReleaseRunOwnership` | every writer of a run, workers and operators |
| node records (`store.ts`) | `nodes/`, `outputs/`, `artifacts/` | `writeNodeState`, `publishNodeOutput`, `readNodeOutput`, `readNodeArtifact`, `readRunUsage` | the scheduler writes; dependents, the parent's report and operators read |
| capacity (`store.ts`) | `runs/`, `runs/slots/N.json` | `createRun`, `claimRunSlot`, `deleteRun`, `listRetainedRuns` | creators and operators of any process |
| coordination journal (`store.ts`, `coordination.ts`) | `coordination/NNNNNN.json` | `publishRunEvent`, `sendRunMessage`, `readRunEvents`, `readRunMessages` | workers, under the mutation lock |
| worker process (`pi-subprocess.ts`) | what the stream has told, a latched failure, termination timers | `runNormalizedPiWorkerProcess` | the child and its process group, the caller's signal, the observer of progress |
| check and review cycle (`pi-subprocess.ts`, `check.ts`) | rounds, spend, fingerprints of frozen paths | `runPiReviewCycle`, `runCheck` | one worker process per round; the checkout its siblings write |
| worker-graph mode (`extension.ts`) | snapshots of tools, model and thinking level; entries of the session's branch | `activate`, `deactivate`, `restoreModeState`, `/swarm` | Pi's session events, the configuration |
| orchestration tool (`orchestrator.ts`) | one running flag, a budget latch, each task's latest progress | the `worker_graph` tool | the mode, the configuration, the scheduler |
| usage accounting (`usage.ts`, all of the above) | none of its own | sums that saturate | from a turn's figures to what a stored run is said to have spent |
| configuration (`config.ts`) | a file an operator edits | load | mode and tool, each for itself |
| validation and bounds (`output.ts`, `context.ts`, `json.ts`, parsers of the others) | none | parse, measure | between any two layers |

What makes each correct, in one line:

* task graph: no dependent overtakes a prerequisite; a failure blocks exactly its
  descendants; a settled graph can always go on; what is stored is a graph of that
  kind, whatever was submitted.
* scheduler: it decides from what is durable, starts nothing after an abort,
  always ends, and reports what happened.
* ownership and lock: one writer at a time; every write to a run is under an
  owner; a lock is taken away only from a process that can no longer use it.
* records: whatever interrupts a completion, a reader is told no contradiction.
* capacity: never more runs than slots, every run with its slot, no removal of an
  owned run begun, and only an interruption strands a slot.
* journal: no record lost, skipped or repeated, within its retention; what can be
  written can be read.
* worker process: one verdict, that of its last word; its group is collected; a
  stop settles; no turn is paid for twice, and what is lost is known by name.
* cycle: it ends; only judged work is accepted; spend is every round's or unknown.
* mode: leaving it puts back what the operator had.
* tool: one graph at a time; the ceiling stops it; its report is bounded.

`PROJECT.json` ("hazards") lists the hard behaviours at the lines where they bite.

## 2. Modules

```
TaskGraph <- NodeLifecycle <- NodeRecords <- RunReader -+
    ^              ^               ^                    +- StoredRun <- MCNodeLifecycle
    |              | implements    | implements         |
    +--------- RunGraph -----------+        Admission --+
RunLock      RunCapacity      EventLog <-implements- Journal -+
                                            RecordContents ---+- StoredJournal <- MCJournal
WorkerProcess -rounds of-> ReviewCycle
Configuration <- SwarmMode, GraphTool <- ParentSession <- MCParentSession
```

`X <- Y`: Y extends X. Composition by reasoning, where no module extends both:
`RunLock` justifies that a store call of `RunGraph` is one step at a time, and
`RunGraph`'s `ReleaseWaitsForExecutions` justifies `RunLock`'s guard that no task
runs when the hold is released; `Journal` takes from `RunLock` that one process at
a time is inside the lock; `ReviewCycle` takes from `WorkerProcess` how a round may
end; `GraphTool` takes from `RunGraph` that an aborted graph ends. It takes nothing
from `ReviewCycle` about live figures: these may fall after a round that told
nothing (`LiveNeverFalls` ends there), and `Progress` lets them fall at any time.

**TaskGraph** — `graph.ts` as operators over a function from tasks to statuses.
`settleBlocked` repeats a pass until nothing changes; `Doomed` is the same set as
a least fixed point ("in every absorbing set"), which needs no recursion. Graphs
are arbitrary acyclic ones (`GraphAssumption`).

**Admission** — what establishes that assumption: a request goes through the
tool's parser, the runtime's bounds, the graph's normalization and cycle search,
the executor's look at every payload and the manifest, each a layer that may
refuse it. Ids carry whether they are padded, because layers trim at different
points. `findCycle`'s depth-first search is a state machine of its own: `frames` is
its stack, `marks` its map, and `FindCycle`, `VisitRoot`, `LookAtNext` and `Return`
are the turns of its loop; the order in which it looks at roots and dependencies is
left open. A layer that validates waits for it to end (`Validated`). `SoundGraph` is
the definition of what all this is to establish.

**NodeLifecycle, NodeRecords** — what the persisted states of one run promise,
and then with outputs and artifacts: an artifact, the output that claims it, the
state that output justifies. The store refuses less than this (it would block a
task that has an output); `RunGraph` implements it all the same.

**RunReader** — `readNodeOutput`, `readNodeArtifact` and `readRunUsage`, which
take no lock and read one file after another, beside `NodeRecords` and a deletion.
**StoredRun** puts `Admission` before it: only the run of an admitted request has
records, and of these the runs of the graph that `Followed` requests are followed.

**RunLock** — `owner.json` and `mutation.lock` of one run at the granularity of
single filesystem calls. The parent is `runGraph` with its mutation guard
(`run.ts` 555) and `releaseRunHold` (722); each worker loops over
`withActiveRunPublication` (2429); operators run `deleteRun` (1741),
`forceReleaseRunOwnership` (1911) or `acquireRunOwnership` (1589). `pc` names the
call a process stands at. The lock's holder is tracked although the code's file
names only a task: `DropLock` removes whatever is there, as `rm` does, and
`robbed` records that somebody lost a lock it was using. `dir` is "dying" while
`rm -r` unlinks entries one by one.

**RunGraph** — `runGraph` as one coroutine whose `at` is the await it stands at,
beside its executions (`executeTask`), the caller's abort, an operator's forced
release and a kill. Every record write is its own step, so a crash or a refused
call (`StoreRefuses`) may fall between any two. The scheduler keeps `memory`
beside `disk`, as the code does. A call the store would refuse because the
scheduler asked for something illegal leads to outcome "scheduling", which
`NeverMisschedules` shows to be unreachable: the guards are checked, not assumed.

**RunCapacity** — `createRun`'s reads, slot link and rename, `deleteRun`'s
search, lock, owner check, removal and slot release, one filesystem call per
step; creators have limits of their own. A creator may own its run. Its acquisition has
read the manifest before it asks for the lock, so it may still link the lock and
write `owner.json` in a directory under removal (`OwnLock`, `Own`), which the
removal meets again (`RemoveEntry`) before the directory can go.

**Journal** — `coordination/` of one run: a function from sequence numbers to
records. A publication takes the lock, lists the directory (`List`), links the
file under the number after the last (`Link`), and lists again if that number is
taken, up to `MaxAttempts` times. `Stray` is the writer outside the lock that the
comment at `store.ts` 2534 counts with. A reader lists the names after its cursor
(`ListEntries`) and reads the files later (`ReadPage`), while others publish.
`Page`, `HeldBack` and `NextCursor` are the loop of `readCoordinationPage` (2588)
as sets. `Position` is the caller, which polls on from the returned cursor or the
last record it was given. `EventLog` is what remains for a reader of the
directory: a sequence to which records are appended.

**RecordContents** — a draft (an event, a message, or what an executor settles
with) through every layer that looks at it: the tool, the store, the runner's
validation, the readers, a dependent's prompt. A text is its sizes: in UTF-8, as
JSON, on the single line of a prompt. **StoredJournal** puts it before `Journal`.

**WorkerProcess** — one child from spawn to verdict. A line of its output is one
event with the choices a line has; the handlers of Node are atomic, the lines of
one chunk are read in a row, and everything from `close` to the verdict is one
run of handlers. Beside it the child and a tool it starts live in a process group
that signals reach (`tree`, `doomed`), and hold the pipe that delays `close`. A usage is
a record that can be used ("good") or not ("bad"), nothing, or a value that is no
record ("odd"), which takes the place of what was pending (`value ?? pending`). A
stream that breaks off inside a character makes the decoder throw at `close`
(phase "torn"), and what stood after it in the same `try`, a last line and the
pending turn, is skipped. `batch` and `amended` remember what the stream said of
reports before the one that was captured.

**ReviewCycle** — `runPiReviewCycle` with its rounds, the commands of each check
run, the fingerprint of frozen paths and what other workers do to them, and the
events it shows of the node. The code between two awaits is one action, in which
an observer may raise the abort signal (it is the graph's budget). A command is its
shell and, once that has exited (`ShellExits`), whatever still holds its pipes:
`stop` (`check.ts` 94) kills the group only while the shell lives, and the promise
waits for `close`.

**SwarmMode, GraphTool, Configuration, ParentSession** — `job` is the handler of
the extension that runs and the await it stands at; the session's branch is the
entries a restart finds. The operator's edits, the models Pi loses, tool calls
and a crash come between any two awaits. `ParentSession` composes the mode with
the tool and the file both read, and counts the requests to the model whose named
profiles were rejected since the last edit (`misled`).

## 3. What the runs show

| run | bounds | shows |
|---|---|---|
| `node_lifecycle` | every graph of three tasks, two tasks with every confusion of ids, one with every payload; the records of a join, its two branches and a tail; a reader of the join | what is admitted is runnable; settlement is order-free and a settled frontier goes on; a reader is told no contradiction and no task that ran as free; 563 088 states |
| `run_lock` | 1 parent, 2 workers, 1 operator, 3 attempts, 1 mutation, 1 record, fairness | exclusion and ownership under every interleaving and kill; only the release's recovery takes a lock in use; the parent ends; 341 977 states |
| `run_lock_robbed` | 1 parent, 1 worker, 1 operator | finding: the final recovery takes a live operator's lock |
| `run_lock_deletion` | same | finding: an acquisition inside a removal |
| `run_graph` | five tasks (diamond and an isolated one), concurrency 2, fairness | the scheduler's properties and the refinement of `NodeRecords`; 200 716 states |
| `run_capacity` | 3 creators with any limits, 2 slots, 1 operator | capacity, slots, stranding; 1 115 155 states |
| `run_capacity_in_flight` | 2 creators, 1 slot, 1 operator | finding: a deletion removes the slot of a creation in flight |
| `journal` | drafts at and beyond every bound in three kinds of text; 2 workers, a stray writer, 1 reader, 3 records of two topics and two sizes, 2 attempts, fairness of the reader | what is recorded reads back; the journal is a log and its reader gets every record of its query once; 133 790 states |
| `worker_process` | three lines in up to two turns, spend saturating at 2, three updates, fairness | verdict, spend, process group, observer, and that a stop settles; 593 957 states |
| `worker_corrects` | four lines | finding: a corrected report does not count if the rejected one shared its batch |
| `review_cycle` | every policy of up to two check rounds and two reviews, two commands, two check runs, spend saturating at 2, fairness | only judged work succeeds, spend and events are exact, live figures never fall, the cycle ends unless its pipes are held; 1 088 040 states |
| `parent_session` | one edit of the file, one mishap, two calls, a graph of two tasks, a ceiling or none | tools and model come back, one graph at a time, the ceiling stops it, its report fits, an edit misleads one request at most; 1 680 533 states |

Why the bounds are enough. The interesting graphs are a diamond (two
prerequisites race, one fails, a task is blocked by one of them), a tail behind it
(settlement needs more than one pass) and an independent task. In the lock, two
workers give a holder, a contender and a reaped task whose lock is left; the
operator is a third who is inside its section while both contend, and may force
the release, delete or take over; three attempts let more than one recovery fall
into one mutation. In the capacity run there are more
creators than slots, so that somebody loses every race, and limits differ. In the
journal a page holds one record of the larger size or two of the smaller exactly,
so pages end by bytes, by number and at the end of the listing, before and after
records the query does not select; the record bounds are the code's own, in KiB.
In the worker, three lines are a report, something that outlives it and an end,
or two turns of which the second is broken off, whose figures add up below the
bound of the sums; the finding needs a fourth line, for a rejected report, its
batch, a message and the correction. In
the cycle, two check rounds with two commands are an improvement and none, and two
reviews are a repair in between and the last. In the session one mishap (a model
that goes away, a crash, a restart) falls between any two awaits of any handler,
and the second call meets a first that still runs. `Limit`, `MaxSpend`,
`MaxRuns`, `MaxAttempts`, `MaxRecords` and the like are the code's own limits,
made small; `MaxLines`, `MaxUse`, `MaxCount`, `MaxWrites`, `MaxEdits`,
`MaxMishaps` bound what an environment does.

Runs with `CHECK_DEADLOCK FALSE` are of systems that stop: a run, a worker or a
cycle ends, a creator is done, processes die.

### Fairness

`RunGraph!Fairness`: the scheduler's step is taken when it can be (an await
whose promise has settled resumes; a store call returns or throws, with a wait
for the lock bounded by `MUTATION_LOCK_WAIT_MS` and four attempts), and every
task timer and cleanup timer eventually fires. Nothing is assumed of executors:
one may never answer. `Journal!FairSpec` assumes only that a polling reader polls
again and that its calls return; publishers may stop anywhere. `RunLock!Fairness`:
the parent's next call happens, executions settle by those timers, and a worker
whose task is settled ends, which is the executor's contract (`run.ts` 145).
`WorkerProcess!Fairness`: Node runs its handlers and timers, and a process that
was sent SIGKILL dies; the child itself may hang for ever. `ReviewCycle!FairSpec`:
the code goes on after an await; a round that was told to stop ends
(`WorkerProcess!StopSettles`), and so does a command whose shell is still there,
because its group is killed. Nothing is assumed of a command whose shell is gone:
`stop` returns at once (`check.ts` 95) and a background process may hold the pipes
for ever, so `CycleEnds` says that the cycle ends or hangs there. And the signal is raised at last, because the
runner always sets a timeout for a task. Operators, aborts of the caller, edits
and kills are never fair. Where a guard may flicker (`MutationLock` while workers
take the lock in turn) one of the disjuncts, success or `locked`, is always
enabled, so weak fairness of the parent suffices.

### Assumptions of the models

* Worker: Pi executes tools only between turns; what a provider tells of a turn's
  usage is cumulative; a report's line always fits the line limit; no tool leaves
  its process group (`setsid`), and the platform has process groups (on Windows
  the code runs `taskkill`); an observer cannot abort in the "started" update.
* Cycle: nothing a check starts leaves the group of its shell; a task with neither
  check nor review is a plain `WorkerProcess`; sessions
  only change prompts; time is one flag, whether the deadline leaves room for
  another round.
* Session: Pi runs one handler of the mode at a time and awaits it; Pi's own log
  keeps the session's model across restarts.
* Reader: the usage of each task is read independently of the others', so that of
  one task (`Asked`) stands for all.
* Records: `Envelope` stands for field names, ids and timestamps; task ids are
  short. Of the admitted requests those of one graph are followed, of the
  drafts one (`Followed`): a run does not depend on the payloads, a journal on no
  more than topics and sizes.

### Findings

1. *A live operator's lock may be taken* (`NobodyRobbed`, `store.ts` 1843). At the
   end of a run `releaseRunHold` recovers the lock without looking at its holder.
   That is right about workers (theorem `LoneRunReleases`), but another process
   in `deleteRun`, a forced release or an acquisition loses a lock it is using,
   against the rule at `store.ts` 920.
2. *Deletion does not exclude acquisition* (`DeletionExcludesAcquisition`,
   `store.ts` 1767), against the comment at 1733: the lock is one of the files
   `rm -r` removes.
3. *A published run without a slot* (`RetainedHoldsSlot` in
   `run_capacity_in_flight`, `store.ts` 1774), against the comment at 1736. A slot
   whose run has no directory yet is listed like a stranded one; deleting it while
   its creator is about to rename leaves the disagreement that stops the store.
   `run_capacity` therefore assumes (`CreatorsGone`) that an operator deletes an
   unpublished run only when its creator is gone, and has one operator: with two,
   both may find the same stranded slot, and the second removes the file after a
   creation has linked it anew (`releaseRunSlot`, 596).

4. *A corrected report fails* (`CorrectedReportCounts`, `pi-subprocess.ts` 1142),
   against README.md 329 and the comment at `pi-subprocess.ts` 1174: a message that
   calls the report beside another tool latches `reportNotFinal` before the report
   is looked at. If that report is rejected, the worker corrects it, calls it alone
   and does nothing after it, the latch of the first batch still fails the task.
   `VerdictIsReport` states what the code does: success needs a stream in which no
   report, not even a rejected one, shared its batch.

What the models must allow for, although no run is spent on it:

* The store's own guard is weaker than the run's protocol: it would record
  "running" or "blocked" for a task that has an output. Only the scheduler's order
  of calls keeps the records consistent (`RecordsFollowProtocol`).
* A budget stop raised by the last progress event of a round makes the next round
  throw before it spawns, without usage, so all that was known of the node's spend
  is withheld; `SpendExact` states it that way ("or unknown").
* `UsageAccumulator` promises that only "a complete, usable accounting is
  persisted" (`pi-subprocess.ts` 777). Two turns escape it, and `SpendExact` names
  both: one that is open when the stream breaks off inside a character, since
  `decoder.decode()` throws in the `try` that would commit it (1251–1262), though
  what was committed before is reported (`Dropped`); and one whose figures a value
  that is no record replaces, which marks nothing (822, 1088; `replaced`).
* `runCommand` says that an abort "takes down anything it started, the same way a
  worker process is stopped" (`check.ts` 68). It takes down nothing once the shell
  has exited (95), and a background process on its pipes keeps the attempt waiting;
  a worker's group is killed in that case. `CycleEnds` excepts that state alone.
* `DivergenceEnds` states what the comment of `currentProfiles` (`extension.ts`
  697–708) promises. The two reads are never one: a file edited between a request
  and its call rejects that call, and every other call of that request.
* That the limits of creators are kept where they differ (`store.ts` 530) is in the
  model, but a store without that check first exceeds one with four creators and
  three slots; `CapacityBound` is about all slots.
* `fail` does nothing at `close`: a malformed last line without a line end is not a
  failure. Spend that follows a latched failure is not read, that of an oversize
  line is lost, and a tool that ends after the report on such a line goes unseen
  (`deaf`, `hidden` in `WorkerProcess`; `VerdictIsReport` excludes what could not
  be read).
* Check runs may exceed `maxRuns` by the reviews' repairs (`RoundsBounded` is the
  exact bound, theorem `LoopIsBounded`). Frozen paths are compared before a check,
  hence not after a review round. After a round without usage the live figure goes
  on from what was known before it (`LiveNeverFalls` ends there).
* A session that restores the mode from its branch moves the model without an
  entry of its own when none is there; a crash between moving the model and
  recording the mode, or a restart with an unreadable configuration followed by
  `/swarm off`, leaves the session on the configured model. `ModelReturns` states
  what holds around these. Handlers that overlap could record the suppressed tools
  as the operator's; the assumption of one handler at a time excludes it.
* The nodes of a report that have none of their own are added without the check of
  what is left, and weigh more than what was kept for them (diagnostics, rounds) or
  less (`reportOmitted` is kept and not used). `Allowance` is the exact bound: the
  limit or the smallest forms, and each node's excess. A bound without the second
  case was refuted by its proof: TLC had no node smaller than its smallest form.
* A task aborted before it started has an output without usage and is then named
  as one whose spend is unknown; the comment at `store.ts` 2853 says such tasks
  ran. An executor's result that fails validation loses the usage it carried.
* A graph that passes every validation is refused by `createRun` when its manifest
  exceeds a record; one accepted report of line separators may exceed the context
  of a dependent, whose task then fails (`layer = "overflow"`).

## 4. What is proved

Each module named `...Proofs` extends the component it is about; all theorems are
checked to the last step. An invariant of the runs is seldom inductive; what is
added to make it so is a named conjunct, stated where TLC can check it too.

`RunReaderProofs`, for every acyclic graph (`GraphAssumption`) and whatever tasks
are asked about: first the task graph and its lifecycle, `TypeCorrect`,
`NeverOvertakes`, `BlockedDescends`, `NeverStalls`, `SettlementResumes`.
`NeverStalls` rests on the lemma `FrontierOfSettled`: among the tasks a settled
state leaves pending take one with no pending prerequisite (acyclicity); its
prerequisites cannot be running or blocking, so they succeeded.
`SettlementResumes` shows that the least absorbing set of a state with one doomed
task blocked is the old one without that task. Then the readers: `ReadersAgree`
and `SpendIsShown`. `ReaderInv` says what the records never take back (an output
stays, with the artifact it claims, and a final state agrees with it) and,
from it, what a call may conclude from what it saw earlier (`SawInv`: only a state
that was not final may have changed since it was read, or an output that was not
there). Last the composition: readers, writers and a deletion
implement the lifecycle (`ReaderImplementsLifecycle`), and `StoredRun` implements
both of its halves (`StoredImplementsReader`, `StoredImplementsAdmission`), so
that what is proved of either holds of the specification the run checks.

`RunLockProofs`, for any number of tasks, operators, attempts, writes and
records, from `RunLockAssumption` and, but for the types, `WorkersStop` (an
executor settles only after its worker has ended): `TypeCorrect`,
`OneInsideAtATime`, `MutatesOnlyOwnedRun`, `PublishesOnlyUnderOwner`,
`GuardRecoversOnlyTheDead` (with `RobbedOnlyAtRelease`), and, with no operator,
`LoneRunReleases`: neither a lock nor a hold is left, and nobody was robbed. `IInv` adds:
who is inside its section holds the lock; a worker lives only while its task is
running (so the lock of a reaped task is a dead process's and stays put between
reading the holder and removing the file); and only the release's recovery robs,
after which the parent neither mutates nor recovers and no task runs. All of it is
conditional on `dir = "present"`: of a directory under removal the code promises
nothing. `LoneParent` adds what is needed without operators.

`RunGraphProofs`, for every finite acyclic graph and every concurrency, from
`GraphAssumption` and `ConcurrencyAssumption`: all safety properties of the
scheduler, that it implements `NodeLifecycle` (`ImplementsLifecycle`) and that it
implements `NodeRecords` (`ImplementsRecords`). First the types and the records:
no step changes more than one durable status, and only as `NodeLifecycle!Next`
does, so `BlockedHasCause` holds of `disk` and need not be proved again. Then
`IInv`: the copy in memory is the durable state but for the record being written
(`MemoryTracksDisk`); `RunningExecutes` ties the records that say "running" to
the executions and the completion in hand; `OutputsFresh` says that an output
exists only for a settled task or that completion; `ModeHonest` and `VerdictTrue`
say why the scheduler is where it is. Then `SlotsFree`, which counts: the batch,
the task in hand and the executions together never exceed the limit.

The same module proves `Admission`, which is why `RunGraph` may assume an acyclic
graph: `AdmittedRuns`, for any set of requests of any size, with any ids and
payloads, and any limits (`RequestsAssumption`: requests have their declared shape,
which the first layer sees to, and limits are naturals). It says of `findCycle` that
it finds a cycle exactly if there is one. `SearchInv` is stated of any dependencies
without self-references: the frames are a path along dependencies that visits
nothing twice (`Chained`); what is "visiting" is what is on the path, and what a
frame has looked at already is either visited or the next frame (`MarkedAsFound`);
what was left is closed under dependencies (`Closed`) and has no cycle
(`Noncyclic`: each of its nonempty subsets has a member that needs none of it, which
is `TaskGraph!Acyclic` and avoids paths). A dependency that is "visiting" therefore
closes a cycle (`MetOnPathIsCycle`), and when nothing is unmarked all was left
(`AllLeftIsNoncyclic`). `AdmissionInv` says what each layer has made sure of.
Normalization twice is normalization once (`NormalTwice`), because what is sorted
is a set (`SortedHasAll`): without it a stored manifest could be unreadable.

`JournalProofs`, for any number of workers, readers, records and any record
sizes, from `JournalAssumption`: `ImplementsLog`, `ReadersMissNothing`,
`RefusesForCause`. `IInv` says that the numbers have no gap (`Numbered`), that who
publishes holds the lock and the number it listed is the next one unless a stray
took it (`Exclusive`), and that what a reader listed is a segment of the journal
that starts at its cursor (`ListingIsSegment`). Wherever a page ends, it is then
what the query selects of that segment up to the position the caller goes on from
(`PageIsUpToPosition`). `Fits` stays unexpanded: it matters only for liveness.

The same module proves that the layers a record passes agree (`RecordsAreReadBack`),
for any texts and members, and that the journal behind them is the journal
(`StoredImplementsJournal`). It rests on `BoundsAssumption`, four inequalities of
the code's limits (a coordination record is smaller than a page: `store.ts`
`RUN_COORDINATION_LIMITS`; a result and an artifact, written as JSON, fit a record:
`NODE_OUTPUT_LIMITS`, `RUN_STORE_MAX_RECORD_BYTES`; the runner's own diagnostics
fit), and on `DraftsAssumption`, that JSON writes a byte as six at most.
`ContentsInv` says of a draft at each layer what the layers before it found.

`WorkerProcessProofs`, for every stream and every bound, from
`WorkerProcessAssumption`: `SpendIsExact`, `VerdictIsTheReport`,
`GroupIsCollected`, `EndIsAlwaysObserved`. While the current turn's figures are
counted they are pending and not committed, because tools run between turns
(`OpenTurn`), so each turn is committed once at most, and the one that a torn
stream drops is that turn; what outlived the report is latched
unless it could not be read (`OutlivedIsLatched`); a group that was sent SIGKILL
starts nothing (`ForcedIsDoomed`).

`ReviewCycleProofs`, for every policy, number of commands and limit, from
`ReviewCycleAssumption`: `CycleSpendIsExact`, `NodeHasOneLife`,
`AcceptedIsJudged`, `ShownNeverFalls`, `LoopIsBounded`. The total is the saturated
sum of what the rounds told, saturated once or at every round (`Spent`), and what
is shown is never more than it and the child's own figure (`ShownInv`); wherever
the loop asks a reviewer, the version in hand is the one its check passed
(`JudgedInv`); each repair is paid for by a check run or a review, and each of
those by a policy (`BoundInv`).

`RunCapacityProofs`, for any number of creators, slots and limits, from
`RunCapacityAssumption`: without further premises `OwnedRunsStay`
(`RemovalStartsUnowned`: a deleter about to unlink the first entry holds the lock,
and of a published directory nobody else can link it, so nobody has owned the run
since the check; who acquires later does so in a directory under removal); with
`CreatorsGone` and `OneDeletion`, which name what finding 3 shows the code not to
exclude, `RetainedRunsHoldASlot`, `CapacityIsBounded` (the slots of the retained
runs are an injection) and `StrandingNeedsInterruption`. A deleter that looks at
a slot has made sure that the directory is gone and that the creator is past its
rename or dead (`DeleterInv`), and the slot it found is still the only one of its
run (`FoundInv`).

`ParentSessionProofs`, for any tool sets, models, profiles, calls, graphs and
shapes of reports, and any number of edits and mishaps, from
`ConfigurationAssumption`, `BrokenAssumption`, `ModeAssumption` and `ToolAssumption`
(the absent value and the broken file are none of the readable ones, the operator's
model is not the configured one, tasks are finitely many): one theorem for each
property of the run. `SnapshotIsRestored`, `ModelIsRestored` and `ModeIsRecorded`
rest on `HandlerInv`, the conjunction of three parts, and `ModelInv`. At each await `AwaitInv` says which handler
may stand there, `EntryInv` what the entries of all branches hold, since a
navigation may return to any, and `SnapshotInv` which tools are active and where
the operator's are kept. `ModelInv` says that a session on the configured model that
was not left there knows the operator's: in memory, in the handler's snapshot or in
the branch. `DivergenceOfOneRequest` rests on `MisledInv`: once a request was misled
the file can be read, and a later request is given what it holds. `OneGraphAtATime` and `CeilingStops` rest
on `ToolInv`: nobody or one call has the tool, and a graph that has not started has
spent nothing. `ReportWithinBound` is about the recursive function `ReportSize`,
for any number of nodes: at each node what was put in so far, with what is kept for
the nodes to come, is at most the limit or the smallest forms, and the excess so
far. The community modules' sums are recursive functions too; their recursion is
shown to have a solution by taking a smallest number without one (`LeastOf`,
`Reaches`), which needs no theorem with an operator parameter.

Only model-checked is liveness under fairness (`ParentTerminates`, `RunEnds`,
`EveryRecordDelivered`, `StopSettles`, `CycleEnds`), which is out of the prover's
reach as is anything about ENABLED. Every other property of a run that passes is
stated by a theorem. Two things limit what the theorems say. Those of `RunLock` and
`RunCapacity` have premises (`WorkersStop`, no operator, `CreatorsGone`,
`OneDeletion`), because without them the code does not have the property, as the
findings show. And the composition by reasoning of section 2 is not a theorem: no
module extends both sides.

## 5. What is not modelled

* Wall-clock time. A wait for the lock may run out whenever it meets a holder;
  timers fire at any moment.
* The wording of prompts, notifications, results and errors; command lines and
  environments; query validation of the journal's readers, which changes nothing.
* Shape checks of parsed JSON (prototypes, accessors, unknown fields): a value
  has its declared shape or is refused by the first layer that sees it.
* Failing reads and unlinks in creation and deletion (a full disk, missing
  permissions): a refused creation and a stranded temporary file are their
  outcome. Failing record *writes* are modelled in `RunLock` and `RunGraph`.
* Hand edits of the state root.
* `listRetainedRuns` as a procedure: it changes nothing, and what it may show is
  the input of a deletion in `RunCapacity`.
* `index.ts`, which re-exports, and the benchmark harness under `src/bench`, which
  starts the package from outside and measures it: sequential scripts over
  checkouts and child processes, with no protocol of their own.
