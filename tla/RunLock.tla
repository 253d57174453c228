------------------------------- MODULE RunLock -------------------------------
(****************************************************************************)
(* The ownership record and the mutation lock of one run (store.ts), at the *)
(* granularity of single filesystem calls, with every process that touches  *)
(* them:                                                                    *)
(*   - the parent, the runGraph call that created the run (run.ts): it      *)
(*     takes ownership, mutates under the lock, recovers locks, and ends;   *)
(*   - one worker process per task, which publishes coordination records;   *)
(*   - operators, other processes that delete the run, force its release    *)
(*     or try to take its ownership.                                        *)
(*                                                                          *)
(* owner.json and mutation.lock are two files: owner names the process      *)
(* whose capability the first one records, lock the process whose link made *)
(* the second. The lock file itself names only a task, or no task; which    *)
(* process that is matters to the properties and to no decision below,      *)
(* except through Label.                                                    *)
(*                                                                          *)
(* Time is not modelled: a wait for the lock may run out (`locked`)         *)
(* whenever it meets a holder. A kill may strike any process anywhere and   *)
(* leaves its files behind.                                                 *)
(****************************************************************************)
EXTENDS Naturals

CONSTANTS
  parent,           \* the run's orchestrator
  Tasks,            \* task ids; a task id also stands for the task's worker
  Operators,        \* other processes that work on the same state root
  None,             \* no process: the file does not exist
  MaxAttempts,      \* MUTATION_LOCK_ATTEMPTS
  MaxWrites,        \* bound: mutations the parent performs
  MaxRecords,       \* bound: coordination records published
  WorkersStop       \* an executor settles only once its worker can do no more

Procs == {parent} \cup Tasks \cup Operators

ASSUME RunLockAssumption ==
  /\ parent \notin Tasks \cup Operators
  /\ Tasks \cap Operators = {}
  /\ None \notin Procs
  /\ MaxAttempts \in Nat \ {0}
  /\ MaxWrites \in Nat
  /\ MaxRecords \in Nat
  /\ WorkersStop \in BOOLEAN

VARIABLES
  dir,      \* the run directory: "present", "dying" under rm -r, or "gone"
  owner,    \* whose capability owner.json records, or None
  lock,     \* who linked mutation.lock, or None
  pc,       \* where each process is
  phase,    \* each task: "unstarted", "running", "settled" or "reaped"
  attempt,  \* attempts of the guarded mutation in hand
  writes,   \* mutations that landed
  journal,  \* coordination records published
  robbed    \* history: a process lost the lock it held inside its section

vars == <<dir, owner, lock, pc, phase, attempt, writes, journal, robbed>>

(* The program points between a successful link and the rm that releases.   *)
ParentInside == {"acqWrite", "acqUnlock", "check", "write", "unlock", "unlockFail",
                 "relCheck", "relRemove", "relUnlock"}
WorkerInside == {"wCheck", "wPublish", "wUnlock"}
OperatorInside == {"delCheck", "delRemove", "forceRemove", "takeWrite", "opUnlock"}
Inside == ParentInside \cup WorkerInside \cup OperatorInside

ParentPoints == ParentInside \cup
  {"created", "acqLock", "idle", "lock", "recOwner", "recHolder", "recTake",
   "failing", "relOwner", "relTake", "relLock", "ended", "dead"}
WorkerPoints == WorkerInside \cup {"none", "wIdle", "wLock", "dead"}
OperatorPoints == OperatorInside \cup
  {"opIdle", "delLock", "forceLock", "takeLock", "dead"}

Init ==
  /\ dir = "present"
  /\ owner = None
  /\ lock = None
  /\ pc = [x \in Procs |-> CASE x = parent -> "created"
                             [] x \in Tasks -> "none"
                             [] OTHER       -> "opIdle"]
  /\ phase = [t \in Tasks |-> "unstarted"]
  /\ attempt = 1
  /\ writes = 0
  /\ journal = 0
  /\ robbed = FALSE

-----------------------------------------------------------------------------
(* Steps every operation shares.                                            *)

Go(x, from, to) == pc[x] = from /\ pc' = [pc EXCEPT ![x] = to]

(* Deviation: a rename, which replaces the lock another process linked.     *)
ReplaceLock(x, from, to) ==
  /\ Go(x, from, to)
  /\ dir # "gone"
  /\ lock' = x
  /\ UNCHANGED <<dir, owner, phase, attempt, writes, journal, robbed>>

(* acquireRunMutationLock succeeds: an exclusive hard link.                 *)
TakeLock(x, from, to) ==
  /\ Go(x, from, to)
  /\ dir # "gone"
  /\ lock = None
  /\ lock' = x
  /\ UNCHANGED <<dir, owner, phase, attempt, writes, journal, robbed>>

(* Its deadline passes with the lock still held by someone (`locked`), or   *)
(* the directory is gone (`not_found`).                                     *)
LockRefused(x, from, to) ==
  /\ Go(x, from, to)
  /\ lock # None \/ dir = "gone"
  /\ UNCHANGED <<dir, owner, lock, phase, attempt, writes, journal, robbed>>

(* Removing the lock file now takes it from a process inside its section.   *)
Robs(x) == lock \notin {None, x} /\ pc[lock] \in Inside

(* The release acquireRunMutationLock returns: rm of the path, whoever      *)
(* linked the file that is there now.                                       *)
DropLock(x, from, to) ==
  /\ Go(x, from, to)
  /\ lock' = None
  /\ robbed' = (robbed \/ Robs(x))
  /\ UNCHANGED <<dir, owner, phase, attempt, writes, journal>>

(* A read or a decision that changes no file.                               *)
Decide(x, from, to) ==
  /\ Go(x, from, to)
  /\ UNCHANGED <<dir, owner, lock, phase, attempt, writes, journal, robbed>>

SetOwner(x, from, to, o) ==
  /\ Go(x, from, to)
  /\ owner' = o
  /\ UNCHANGED <<dir, lock, phase, attempt, writes, journal, robbed>>

-----------------------------------------------------------------------------
(* The parent: acquireRunOwnership, before the try block of runGraph.       *)

(* readRun first. While the directory is being removed it may already fail. *)
ReadCreatedRun ==
  \/ dir # "gone" /\ Decide(parent, "created", "acqLock")
  \/ dir # "present" /\ Decide(parent, "created", "ended")

AcquireLock ==
  \/ TakeLock(parent, "acqLock", "acqWrite")
  \/ LockRefused(parent, "acqLock", "ended")

(* writeNewFile with "wx": the record is created, or one was there.         *)
AcquireWrite ==
  \/ owner = None /\ dir # "gone" /\ SetOwner(parent, "acqWrite", "acqUnlock", parent)
  \/ /\ owner # None \/ dir = "gone"
     /\ DropLock(parent, "acqWrite", "ended")

AcquireUnlock == DropLock(parent, "acqUnlock", "idle")

(* The parent: one guarded mutation, writeNodeState or publishNodeOutput.   *)

BeginMutation ==
  /\ writes < MaxWrites
  /\ Go(parent, "idle", "lock")
  /\ attempt' = 1
  /\ UNCHANGED <<dir, owner, lock, phase, writes, journal, robbed>>

MutationLock ==
  \/ TakeLock(parent, "lock", "check")
  \/ attempt < MaxAttempts /\ lock # None /\ LockRefused(parent, "lock", "recOwner")
  \/ /\ attempt >= MaxAttempts \/ dir = "gone"
     /\ LockRefused(parent, "lock", "failing")

(* Deviation: the owner record is not read once the lock is held.           *)
SkipOwnerCheck == Decide(parent, "check", "write")

(* assertRunOwnership reads the owner record with the lock already held.    *)
(* While the directory is being removed any read may already fail.          *)
MutationCheck ==
  \/ owner = parent /\ Decide(parent, "check", "write")
  \/ /\ owner # parent \/ dir # "present"
     /\ Decide(parent, "check", "unlockFail")

MutationWrite ==
  /\ dir # "gone"
  /\ Go(parent, "write", "unlock")
  /\ writes' = writes + 1
  /\ UNCHANGED <<dir, owner, lock, phase, attempt, journal, robbed>>

(* Any record write can fail: the mutation throws, the lock is released.    *)
MutationWriteFails == Decide(parent, "write", "unlockFail")

MutationUnlock ==
  \/ DropLock(parent, "unlock", "idle")
  \/ DropLock(parent, "unlockFail", "failing")

-----------------------------------------------------------------------------
(* recoverRunMutationLock with the predicate, called by the mutation guard. *)

(* Deviation: the attempt is not counted.                                   *)
SameAttempt == attempt

NextAttempt == attempt + 1

(* Nothing was recovered; the guard retries the mutation all the same.      *)
Retry(from) ==
  /\ Go(parent, from, "lock")
  /\ attempt' = NextAttempt
  /\ UNCHANGED <<dir, owner, lock, phase, writes, journal, robbed>>

RecoverOwner ==
  \/ owner = parent /\ Decide(parent, "recOwner", "recHolder")
  \/ owner = None /\ Retry("recOwner")
  \/ owner \notin {parent, None} /\ Decide(parent, "recOwner", "failing")

(* Deviation: any task of the graph counts, running or not.                 *)
TaskOfGraph(x) == x \in Tasks

(* isHolderFinished: the lock names a task of this graph that is not in the *)
(* parent's map of running tasks. A lock without a task is never recovered. *)
HolderFinished(x) == x \in {t \in Tasks : phase[t] \in {"unstarted", "reaped"}}

(* Reading the holder and removing the file are two calls.                  *)
RecoverHolder ==
  \/ HolderFinished(lock) /\ Decide(parent, "recHolder", "recTake")
  \/ ~HolderFinished(lock) /\ Retry("recHolder")

RecoverTake ==
  /\ Go(parent, "recTake", "lock")
  /\ lock' = None
  /\ robbed' = (robbed \/ Robs(parent))
  /\ attempt' = NextAttempt
  /\ UNCHANGED <<dir, owner, phase, writes, journal>>

-----------------------------------------------------------------------------
(* The parent's tasks. executor(t) starts a worker process; its promise     *)
(* settles; the main loop then deletes t from `running`.                    *)

StartTask(t) ==
  /\ pc[parent] = "idle"
  /\ phase[t] = "unstarted"
  /\ phase' = [phase EXCEPT ![t] = "running"]
  /\ pc' = [pc EXCEPT ![t] = "wIdle"]
  /\ UNCHANGED <<dir, owner, lock, attempt, writes, journal, robbed>>

(* executeTask settles. An executor that honours its contract does so after *)
(* its worker's process ended; one that ignores its abort signal is settled *)
(* by the cleanup timer while the worker may be anywhere.                   *)
SettleTask(t) ==
  /\ pc[parent] # "dead"
  /\ phase[t] = "running"
  /\ WorkersStop => pc[t] = "dead"
  /\ phase' = [phase EXCEPT ![t] = "settled"]
  /\ UNCHANGED <<dir, owner, lock, pc, attempt, writes, journal, robbed>>

ReapTask(t) ==
  /\ pc[parent] = "idle"
  /\ phase[t] = "settled"
  /\ phase' = [phase EXCEPT ![t] = "reaped"]
  /\ UNCHANGED <<dir, owner, lock, pc, attempt, writes, journal, robbed>>

(* The loop ends with nothing running, or the error path has waited for     *)
(* every promise: releaseRunHold.                                           *)
EndRun ==
  /\ \A t \in Tasks : phase[t] # "running"
  /\ \/ /\ \A t \in Tasks : phase[t] # "settled"
        /\ Decide(parent, "idle", "relOwner")
     \/ Decide(parent, "failing", "relOwner")

(* recoverRunMutationLock without the predicate: the owner record is read,  *)
(* then whatever lock is there is removed.                                  *)
ReleaseOwner ==
  \/ owner = parent /\ Decide(parent, "relOwner", "relTake")
  \/ owner # parent /\ Decide(parent, "relOwner", "relLock")

ReleaseTake == DropLock(parent, "relTake", "relLock")

(* releaseRunOwnership. A refused lock leaves the hold in place.            *)
ReleaseLock ==
  \/ TakeLock(parent, "relLock", "relCheck")
  \/ LockRefused(parent, "relLock", "ended")

ReleaseCheck ==
  \/ owner = parent /\ Decide(parent, "relCheck", "relRemove")
  \/ owner # parent /\ Decide(parent, "relCheck", "relUnlock")

ReleaseRemove == SetOwner(parent, "relRemove", "relUnlock", None)

ReleaseUnlock == DropLock(parent, "relUnlock", "ended")

Parent ==
  \/ ReadCreatedRun \/ AcquireLock \/ AcquireWrite \/ AcquireUnlock
  \/ BeginMutation \/ MutationLock \/ MutationCheck
  \/ MutationWrite \/ MutationWriteFails \/ MutationUnlock
  \/ RecoverOwner \/ RecoverHolder \/ RecoverTake
  \/ EndRun \/ ReleaseOwner \/ ReleaseTake \/ ReleaseLock
  \/ ReleaseCheck \/ ReleaseRemove \/ ReleaseUnlock

-----------------------------------------------------------------------------
(* A worker: withActiveRunPublication around publishCoordinationRecord.     *)

BeginPublish(t) == journal < MaxRecords /\ Decide(t, "wIdle", "wLock")

PublishLock(t) ==
  \/ TakeLock(t, "wLock", "wCheck")
  \/ LockRefused(t, "wLock", "wIdle")

(* Deviation: the active owner is not checked under the lock.               *)
PublishUnchecked(t) == Decide(t, "wCheck", "wPublish")

(* assertActiveRunOwner: any owner will do.                                 *)
PublishCheck(t) ==
  \/ owner # None /\ Decide(t, "wCheck", "wPublish")
  \/ /\ owner = None \/ dir # "present"
     /\ Decide(t, "wCheck", "wUnlock")

Publish(t) ==
  /\ dir # "gone"
  /\ Go(t, "wPublish", "wUnlock")
  /\ journal' = journal + 1
  /\ UNCHANGED <<dir, owner, lock, phase, attempt, writes, robbed>>

(* The journal is full, or the record could not be written.                 *)
PublishFails(t) == Decide(t, "wPublish", "wUnlock")

PublishUnlock(t) == DropLock(t, "wUnlock", "wIdle")

(* The worker exits, or is killed: by its parent's abort or timeout, or by  *)
(* anything else, at any point.                                             *)
WorkerEnds(t) ==
  /\ pc[t] \in WorkerPoints \ {"none", "dead"}
  /\ Decide(t, pc[t], "dead")

Worker(t) ==
  \/ BeginPublish(t) \/ PublishLock(t) \/ PublishCheck(t)
  \/ Publish(t) \/ PublishFails(t) \/ PublishUnlock(t) \/ WorkerEnds(t)

-----------------------------------------------------------------------------
(* An operator's process: deleteRun, forceReleaseRunOwnership, or another   *)
(* caller of acquireRunOwnership.                                           *)

BeginDelete(o) == Decide(o, "opIdle", "delLock")

DeleteLock(o) ==
  \/ TakeLock(o, "delLock", "delCheck")
  \/ LockRefused(o, "delLock", "opIdle")

DeleteCheck(o) ==
  \/ owner = None /\ Decide(o, "delCheck", "delRemove")
  \/ owner # None /\ Decide(o, "delCheck", "opUnlock")

(* rm -r unlinks the entries one by one, the lock and an owner record among *)
(* them, and reads the directory again when it finds it not empty.          *)
DeleteEntry(o) ==
  /\ pc[o] = "delRemove"
  /\ dir' = IF dir = "gone" THEN "gone" ELSE "dying"
  /\ \/ lock' = None /\ UNCHANGED owner
     \/ owner' = None /\ UNCHANGED lock
  /\ UNCHANGED <<pc, phase, attempt, writes, journal, robbed>>

DeleteDirectory(o) ==
  /\ Go(o, "delRemove", "opUnlock")
  /\ lock = None /\ owner = None
  /\ dir' = "gone"
  /\ UNCHANGED <<owner, lock, phase, attempt, writes, journal, robbed>>

(* The operator asserts that the holder is gone. It may be wrong.           *)
BeginForce(o) == Decide(o, "opIdle", "forceLock")

ForceLock(o) ==
  \/ TakeLock(o, "forceLock", "forceRemove")
  \/ LockRefused(o, "forceLock", "opIdle")

ForceRemove(o) == SetOwner(o, "forceRemove", "opUnlock", None)

BeginTake(o) == dir # "gone" /\ Decide(o, "opIdle", "takeLock")

TakeOwnershipLock(o) ==
  \/ TakeLock(o, "takeLock", "takeWrite")
  \/ LockRefused(o, "takeLock", "opIdle")

TakeOwnership(o) ==
  \/ owner = None /\ dir # "gone" /\ SetOwner(o, "takeWrite", "opUnlock", o)
  \/ /\ owner # None \/ dir = "gone"
     /\ Decide(o, "takeWrite", "opUnlock")

OperatorUnlock(o) == DropLock(o, "opUnlock", "opIdle")

Operator(o) ==
  \/ BeginDelete(o) \/ DeleteLock(o) \/ DeleteCheck(o)
  \/ DeleteEntry(o) \/ DeleteDirectory(o)
  \/ BeginForce(o) \/ ForceLock(o) \/ ForceRemove(o)
  \/ BeginTake(o) \/ TakeOwnershipLock(o) \/ TakeOwnership(o)
  \/ OperatorUnlock(o)

(* SIGKILL of the parent or of an operator's process.                       *)
Kill(x) ==
  /\ pc[x] \notin {"dead", "ended"}
  /\ Decide(x, pc[x], "dead")

Next ==
  \/ Parent
  \/ \E t \in Tasks : Worker(t) \/ StartTask(t) \/ SettleTask(t) \/ ReapTask(t)
  \/ \E o \in Operators : Operator(o)
  \/ \E x \in {parent} \cup Operators : Kill(x)

Spec == Init /\ [][Next]_vars

(* Nothing the parent waits for is left undone by a process that is alive;  *)
(* every execution settles: by its answer, its timeout or its cleanup timer. *)
Fairness ==
  /\ WF_vars(Parent)
  /\ \A t \in Tasks :
       WF_vars(SettleTask(t)) /\ WF_vars(ReapTask(t)) /\ WF_vars(WorkerEnds(t))

FairSpec == Spec /\ Fairness

-----------------------------------------------------------------------------
TypeOK ==
  /\ dir \in {"present", "dying", "gone"}
  /\ owner \in Procs \cup {None}
  /\ lock \in Procs \cup {None}
  /\ pc \in [Procs -> ParentPoints \cup WorkerPoints \cup OperatorPoints]
  /\ pc[parent] \in ParentPoints
  /\ \A t \in Tasks : pc[t] \in WorkerPoints
  /\ \A o \in Operators : pc[o] \in OperatorPoints
  /\ phase \in [Tasks -> {"unstarted", "running", "settled", "reaped"}]
  /\ attempt \in 1 .. MaxAttempts
  /\ writes \in Nat
  /\ journal \in Nat
  /\ robbed \in BOOLEAN

(* One process at a time is between its lock and its release, until one of  *)
(* them is robbed of the lock. A killed holder is not inside; it only       *)
(* leaves its file. Nothing is promised of a directory under removal.       *)
ExclusiveSection ==
  dir = "present" /\ ~robbed =>
    \A x, y \in Procs : pc[x] \in Inside /\ pc[y] \in Inside => x = y

(* No mutation of the parent lands on a run it does not own at that moment, *)
(* even if an operator forced its release, or another process acquired the  *)
(* run, while the mutation waited for the lock.                             *)
MutationUnderOwnership ==
  dir = "present" /\ pc[parent] = "write" => owner = parent

(* No coordination record lands on a run without an active owner: neither   *)
(* the parent's release nor a forced one falls between a worker's check and *)
(* its publication.                                                         *)
PublicationUnderOwner ==
  dir = "present" => \A t \in Tasks : pc[t] = "wPublish" => owner # None

(* The mutation guard takes a lock only from a process that is dead, though *)
(* it reads the holder's name and removes the file in two calls.            *)
GuardNeverRobs ==
  dir = "present" /\ pc[parent] = "recTake" =>
    lock # None /\ pc[lock] = "dead"

(* While tasks run nobody is robbed of the lock, whoever contends for it:   *)
(* the recoveries of createMutationGuard take it from reaped tasks only,    *)
(* though a holder is read and its file removed in two calls. Only the last *)
(* recovery of releaseRunHold, which has no predicate, robs anybody.        *)
RobbedOnlyAtRelease ==
  dir = "present" /\ robbed =>
    pc[parent] \in {"relLock", "relCheck", "relRemove", "relUnlock", "ended", "dead"}

(* Nobody loses the lock inside its section: the rule of acquireRunMutation- *)
(* Lock, "only a caller that can show the named holder has finished may     *)
(* recover the lock".                                                       *)
NobodyRobbed == ~robbed

(* The check of deleteRun and the removal exclude an acquisition between.   *)
DeletionExcludesAcquisition ==
  [][\A o \in Operators :
       pc[o] = "delRemove" /\ dir # "gone" => owner' \in {owner, None}]_vars

(* A run that ends leaves neither a hold nor a lock behind, whatever worker *)
(* was killed holding the lock. (Stated for a parent nobody else contends   *)
(* with: a live contender may still refuse it the lock.)                    *)
ReleasedAtEnd ==
  pc[parent] = "ended" => owner # parent /\ lock = None

(* The parent is never held up for good by a lock: attempts are bounded,    *)
(* recovered locks are retried, and every execution settles.                *)
ParentTerminates == <>(pc[parent] \in {"ended", "dead"})

-----------------------------------------------------------------------------
(* The parts of the inductive invariant that no run needs for itself. They  *)
(* are what makes the properties above survive every step: see the README.  *)

(* A recovery under way leaves the guard another attempt.                   *)
AttemptLeft ==
  pc[parent] \in {"recOwner", "recHolder", "recTake"} => attempt < MaxAttempts

(* Whoever is inside its section holds the lock.                            *)
InsideHoldsLock ==
  dir = "present" /\ ~robbed => \A x \in Procs : pc[x] \in Inside => lock = x

(* A worker exists once its task started and, where executors honour their  *)
(* contract, no longer once the task's promise has settled.                 *)
WorkerFollowsTask ==
  \A t \in Tasks :
    /\ phase[t] = "unstarted" => pc[t] = "none" /\ lock # t
    /\ phase[t] = "running" => pc[t] # "none"
    /\ phase[t] \in {"settled", "reaped"} => pc[t] = "dead"

(* Before the run and once it is being released, no task is running.        *)
NoneRunning ==
  \/ robbed /\ dir = "present"
  \/ pc[parent] \in {"created", "acqLock", "acqWrite", "acqUnlock", "relOwner", "relTake",
                     "relLock", "relCheck", "relRemove", "relUnlock", "ended"}
  => \A t \in Tasks : phase[t] # "running"

(* Between reading the holder and removing the file the holder stays put.   *)
TakesReapedLock ==
  dir = "present" /\ pc[parent] = "recTake" =>
    lock \in Tasks /\ phase[lock] = "reaped"

IInv ==
  /\ AttemptLeft
  /\ InsideHoldsLock
  /\ WorkerFollowsTask
  /\ RobbedOnlyAtRelease
  /\ NoneRunning
  /\ TakesReapedLock
  /\ MutationUnderOwnership
  /\ PublicationUnderOwner

(* With no operator about: the parent alone decides who owns the run, and   *)
(* no lock is left where it must take one that nobody will release.         *)
LoneParent ==
  /\ dir = "present" /\ ~robbed
  /\ IF pc[parent] \in {"created", "acqLock", "acqWrite", "relUnlock", "ended"}
       THEN owner = None
       ELSE pc[parent] # "dead" => owner = parent
  /\ pc[parent] \in {"created", "acqLock", "relLock", "ended"} => lock = None
=============================================================================
