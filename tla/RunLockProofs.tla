---------------------------- MODULE RunLockProofs ----------------------------
(****************************************************************************)
(* Theorems of RunLock, for every number of tasks, workers, operators,      *)
(* attempts, mutations and records.                                         *)
(*                                                                          *)
(* The argument for safety: a process inside its section holds the lock, so *)
(* its own release gives up its own lock and nobody else is inside. Two     *)
(* removals are not by the holder. The guard's recovery (RecoverTake) hits  *)
(* the lock of a task already reaped, whose worker can no longer move: the  *)
(* name read earlier cannot have changed hands. The release's recovery      *)
(* (ReleaseTake) may hit anybody, but from there on no task runs and the    *)
(* parent neither mutates nor recovers again. Each action is one step below *)
(* and disturbs at most three conjuncts, which the solver takes together.   *)
(****************************************************************************)
EXTENDS RunLock, TLAPS

(* Attempts stay in range because a recovery under way has one left.        *)
TypeInv == TypeOK /\ AttemptLeft

LEMMA TypeInit == Init => TypeInv
<1> SUFFICES ASSUME Init PROVE TypeInv
  OBVIOUS
<1>1. pc[parent] = "created"
  BY RunLockAssumption DEF Init, Procs
<1>2. \A t \in Tasks : pc[t] = "none"
  BY RunLockAssumption DEF Init, Procs
<1>3. \A o \in Operators : pc[o] = "opIdle"
  BY RunLockAssumption DEF Init, Procs
<1>4. pc \in [Procs -> ParentPoints \cup WorkerPoints \cup OperatorPoints]
  BY DEF Init, ParentPoints, WorkerPoints, OperatorPoints
<1>5. /\ dir = "present" /\ owner = None /\ lock = None /\ attempt = 1
      /\ phase = [t \in Tasks |-> "unstarted"]
      /\ writes = 0 /\ journal = 0 /\ robbed = FALSE
  BY DEF Init
<1>6. AttemptLeft
  BY <1>1 DEF AttemptLeft
<1>7. /\ pc[parent] \in ParentPoints
      /\ \A t \in Tasks : pc[t] \in WorkerPoints
      /\ \A o \in Operators : pc[o] \in OperatorPoints
  BY <1>1, <1>2, <1>3 DEF ParentPoints, WorkerPoints, OperatorPoints
<1>8. phase \in [Tasks -> {"unstarted", "running", "settled", "reaped"}]
  BY <1>5
<1>9. attempt \in 1 .. MaxAttempts /\ writes \in Nat /\ journal \in Nat
  BY <1>5, RunLockAssumption
<1>10. robbed \in BOOLEAN /\ dir \in {"present", "dying", "gone"}
  BY <1>5
<1>11. owner \in Procs \cup {None} /\ lock \in Procs \cup {None}
  BY <1>5
<1> QED
  BY <1>4, <1>6, <1>7, <1>8, <1>9, <1>10, <1>11 DEF TypeInv, TypeOK

(* Every step of every process keeps the types.                             *)
LEMMA TypeStep ==
  ASSUME TypeInv, [Next]_vars
  PROVE  TypeInv'
<1>0. USE RunLockAssumption DEF TypeInv, TypeOK, AttemptLeft, Procs, ParentPoints,
      WorkerPoints, OperatorPoints, ParentInside, WorkerInside, OperatorInside
<1>1. CASE ReadCreatedRun
  BY <1>1 DEF ReadCreatedRun, Decide, Go
<1>2. CASE AcquireLock
  BY <1>2 DEF AcquireLock, TakeLock, LockRefused, Go
<1>3. CASE AcquireWrite
  <2>1. robbed' \in BOOLEAN
    BY <1>3 DEF AcquireWrite, SetOwner, DropLock
  <2> QED
    BY <1>3, <2>1 DEF AcquireWrite, SetOwner, DropLock, Go
<1>4. CASE AcquireUnlock
  BY <1>4 DEF AcquireUnlock, DropLock, Robs, Go
<1>5. CASE BeginMutation
  BY <1>5 DEF BeginMutation, Go
<1>6. CASE MutationLock
  BY <1>6 DEF MutationLock, TakeLock, LockRefused, Go
<1>7. CASE MutationCheck
  BY <1>7 DEF MutationCheck, Decide, Go
<1>8. CASE MutationWrite
  BY <1>8 DEF MutationWrite, Go
<1>9. CASE MutationWriteFails
  BY <1>9 DEF MutationWriteFails, Decide, Go
<1>10. CASE MutationUnlock
  <2>1. robbed' \in BOOLEAN
    BY <1>10 DEF MutationUnlock, DropLock
  <2> QED
    BY <1>10, <2>1 DEF MutationUnlock, DropLock, Go
<1>11. CASE RecoverOwner
  BY <1>11 DEF RecoverOwner, Decide, Retry, NextAttempt, Go
<1>12. CASE RecoverHolder
  BY <1>12 DEF RecoverHolder, Decide, Retry, NextAttempt, HolderFinished, Go
<1>13. CASE RecoverTake
  BY <1>13 DEF RecoverTake, Robs, NextAttempt, Go
<1>14. CASE EndRun
  BY <1>14 DEF EndRun, Decide, Go
<1>15. CASE ReleaseOwner
  BY <1>15 DEF ReleaseOwner, Decide, Go
<1>16. CASE ReleaseTake
  BY <1>16 DEF ReleaseTake, DropLock, Robs, Go
<1>17. CASE ReleaseLock
  BY <1>17 DEF ReleaseLock, TakeLock, LockRefused, Go
<1>18. CASE ReleaseCheck
  BY <1>18 DEF ReleaseCheck, Decide, Go
<1>19. CASE ReleaseRemove
  BY <1>19 DEF ReleaseRemove, SetOwner, Go
<1>20. CASE ReleaseUnlock
  BY <1>20 DEF ReleaseUnlock, DropLock, Robs, Go
<1>21. ASSUME NEW t \in Tasks, BeginPublish(t) PROVE TypeInv'
  BY <1>21 DEF BeginPublish, Decide, Go
<1>22. ASSUME NEW t \in Tasks, PublishLock(t) PROVE TypeInv'
  BY <1>22 DEF PublishLock, TakeLock, LockRefused, Go
<1>23. ASSUME NEW t \in Tasks, PublishCheck(t) PROVE TypeInv'
  BY <1>23 DEF PublishCheck, Decide, Go
<1>24. ASSUME NEW t \in Tasks, Publish(t) PROVE TypeInv'
  BY <1>24 DEF Publish, Go
<1>25. ASSUME NEW t \in Tasks, PublishUnlock(t) PROVE TypeInv'
  BY <1>25 DEF PublishUnlock, DropLock, Robs, Go
<1>44. ASSUME NEW t \in Tasks, PublishFails(t) PROVE TypeInv'
  BY <1>44 DEF PublishFails, Decide, Go
<1>26. ASSUME NEW t \in Tasks, WorkerEnds(t) PROVE TypeInv'
  BY <1>26 DEF WorkerEnds, Decide, Go
<1>27. ASSUME NEW t \in Tasks, StartTask(t) PROVE TypeInv'
  BY <1>27 DEF StartTask
<1>28. ASSUME NEW t \in Tasks, SettleTask(t) PROVE TypeInv'
  BY <1>28 DEF SettleTask
<1>29. ASSUME NEW t \in Tasks, ReapTask(t) PROVE TypeInv'
  BY <1>29 DEF ReapTask
<1>30. ASSUME NEW o \in Operators, BeginDelete(o) PROVE TypeInv'
  BY <1>30 DEF BeginDelete, Decide, Go
<1>31. ASSUME NEW o \in Operators, DeleteLock(o) PROVE TypeInv'
  BY <1>31 DEF DeleteLock, TakeLock, LockRefused, Go
<1>32. ASSUME NEW o \in Operators, DeleteCheck(o) PROVE TypeInv'
  BY <1>32 DEF DeleteCheck, Decide, Go
<1>33. ASSUME NEW o \in Operators, DeleteEntry(o) PROVE TypeInv'
  BY <1>33 DEF DeleteEntry
<1>34. ASSUME NEW o \in Operators, DeleteDirectory(o) PROVE TypeInv'
  BY <1>34 DEF DeleteDirectory, Go
<1>35. ASSUME NEW o \in Operators, BeginForce(o) PROVE TypeInv'
  BY <1>35 DEF BeginForce, Decide, Go
<1>36. ASSUME NEW o \in Operators, ForceLock(o) PROVE TypeInv'
  BY <1>36 DEF ForceLock, TakeLock, LockRefused, Go
<1>37. ASSUME NEW o \in Operators, ForceRemove(o) PROVE TypeInv'
  BY <1>37 DEF ForceRemove, SetOwner, Go
<1>38. ASSUME NEW o \in Operators, BeginTake(o) PROVE TypeInv'
  BY <1>38 DEF BeginTake, Decide, Go
<1>39. ASSUME NEW o \in Operators, TakeOwnershipLock(o) PROVE TypeInv'
  BY <1>39 DEF TakeOwnershipLock, TakeLock, LockRefused, Go
<1>40. ASSUME NEW o \in Operators, TakeOwnership(o) PROVE TypeInv'
  BY <1>40 DEF TakeOwnership, SetOwner, Decide, Go
<1>41. ASSUME NEW o \in Operators, OperatorUnlock(o) PROVE TypeInv'
  BY <1>41 DEF OperatorUnlock, DropLock, Robs, Go
<1>42. ASSUME NEW x \in {parent} \cup Operators, Kill(x) PROVE TypeInv'
  BY <1>42 DEF Kill, Decide, Go
<1>43. CASE UNCHANGED vars
  BY <1>43 DEF vars
<1>45. QED
  BY <1>1, <1>2, <1>3, <1>4, <1>5, <1>6, <1>7, <1>8, <1>9, <1>10, <1>11, <1>12, <1>13, <1>14,
      <1>15, <1>16, <1>17, <1>18, <1>19, <1>20, <1>21, <1>22, <1>23, <1>24, <1>25, <1>26,
      <1>27, <1>28, <1>29, <1>30, <1>31, <1>32, <1>33, <1>34, <1>35, <1>36, <1>37, <1>38,
      <1>39, <1>40, <1>41, <1>42, <1>43, <1>44 DEF Next, Parent, Worker, Operator

(* Every step keeps the inductive invariant.                                *)
LEMMA SafetyStep ==
  ASSUME WorkersStop, TypeInv, IInv, [Next]_vars
  PROVE  IInv'
<1>0. USE RunLockAssumption DEF TypeInv, TypeOK, Procs, IInv, AttemptLeft, InsideHoldsLock,
      WorkerFollowsTask, RobbedOnlyAtRelease, NoneRunning, TakesReapedLock,
      MutationUnderOwnership, PublicationUnderOwner, Inside, ParentPoints, WorkerPoints,
      OperatorPoints, ParentInside, WorkerInside, OperatorInside
<1>1. CASE ReadCreatedRun
  BY <1>1 DEF ReadCreatedRun, Decide, Go
<1>2. CASE AcquireLock
  BY <1>2 DEF AcquireLock, TakeLock, LockRefused, Go
<1>3. CASE AcquireWrite
  BY <1>3 DEF AcquireWrite, SetOwner, DropLock, Robs, Go
<1>4. CASE AcquireUnlock
  BY <1>4 DEF AcquireUnlock, DropLock, Robs, Go
<1>5. CASE BeginMutation
  BY <1>5 DEF BeginMutation, Go
<1>6. CASE MutationLock
  BY <1>6 DEF MutationLock, TakeLock, LockRefused, Go
<1>7. CASE MutationCheck
  BY <1>7 DEF MutationCheck, Decide, Go
<1>8. CASE MutationWrite
  BY <1>8 DEF MutationWrite, Go
<1>9. CASE MutationWriteFails
  BY <1>9 DEF MutationWriteFails, Decide, Go
<1>10. CASE MutationUnlock
  BY <1>10 DEF MutationUnlock, DropLock, Robs, Go
<1>11. CASE RecoverOwner
  BY <1>11 DEF RecoverOwner, Decide, Retry, NextAttempt, Go
<1>12. CASE RecoverHolder
  BY <1>12 DEF RecoverHolder, Decide, Retry, NextAttempt, HolderFinished, Go
<1>13. CASE RecoverTake
  BY <1>13 DEF RecoverTake, Robs, NextAttempt, Go
<1>14. CASE EndRun
  BY <1>14 DEF EndRun, Decide, Go
<1>15. CASE ReleaseOwner
  BY <1>15 DEF ReleaseOwner, Decide, Go
<1>16. CASE ReleaseTake
  <2>1. /\ pc[parent] = "relTake" /\ pc' = [pc EXCEPT ![parent] = "relLock"]
        /\ lock' = None /\ robbed' = (robbed \/ Robs(parent))
        /\ UNCHANGED <<dir, owner, phase, attempt, writes, journal>>
    BY <1>16 DEF ReleaseTake, DropLock, Go
  <2>2. pc'[parent] = "relLock" /\ \A x \in Procs : x # parent => pc'[x] = pc[x]
    BY <2>1
  <2>3. InsideHoldsLock'
    BY <2>1, <2>2 DEF Robs
  <2>4. WorkerFollowsTask'
    BY <2>1, <2>2
  <2> QED
    BY <2>1, <2>2, <2>3, <2>4
<1>17. CASE ReleaseLock
  BY <1>17 DEF ReleaseLock, TakeLock, LockRefused, Go
<1>18. CASE ReleaseCheck
  BY <1>18 DEF ReleaseCheck, Decide, Go
<1>19. CASE ReleaseRemove
  BY <1>19 DEF ReleaseRemove, SetOwner, Go
<1>20. CASE ReleaseUnlock
  BY <1>20 DEF ReleaseUnlock, DropLock, Robs, Go
<1>21. ASSUME NEW t \in Tasks, BeginPublish(t) PROVE IInv'
  BY <1>21 DEF BeginPublish, Decide, Go
<1>22. ASSUME NEW t \in Tasks, PublishLock(t) PROVE IInv'
  BY <1>22 DEF PublishLock, TakeLock, LockRefused, Go
<1>23. ASSUME NEW t \in Tasks, PublishCheck(t) PROVE IInv'
  BY <1>23 DEF PublishCheck, Decide, Go
<1>24. ASSUME NEW t \in Tasks, Publish(t) PROVE IInv'
  BY <1>24 DEF Publish, Go
<1>25. ASSUME NEW t \in Tasks, PublishUnlock(t) PROVE IInv'
  BY <1>25 DEF PublishUnlock, DropLock, Robs, Go
<1>44. ASSUME NEW t \in Tasks, PublishFails(t) PROVE IInv'
  BY <1>44 DEF PublishFails, Decide, Go
<1>26. ASSUME NEW t \in Tasks, WorkerEnds(t) PROVE IInv'
  BY <1>26 DEF WorkerEnds, Decide, Go
<1>27. ASSUME NEW t \in Tasks, StartTask(t) PROVE IInv'
  BY <1>27 DEF StartTask
<1>28. ASSUME NEW t \in Tasks, SettleTask(t) PROVE IInv'
  BY <1>28 DEF SettleTask
<1>29. ASSUME NEW t \in Tasks, ReapTask(t) PROVE IInv'
  BY <1>29 DEF ReapTask
<1>30. ASSUME NEW o \in Operators, BeginDelete(o) PROVE IInv'
  BY <1>30 DEF BeginDelete, Decide, Go
<1>31. ASSUME NEW o \in Operators, DeleteLock(o) PROVE IInv'
  BY <1>31 DEF DeleteLock, TakeLock, LockRefused, Go
<1>32. ASSUME NEW o \in Operators, DeleteCheck(o) PROVE IInv'
  BY <1>32 DEF DeleteCheck, Decide, Go
<1>33. ASSUME NEW o \in Operators, DeleteEntry(o) PROVE IInv'
  BY <1>33 DEF DeleteEntry
<1>34. ASSUME NEW o \in Operators, DeleteDirectory(o) PROVE IInv'
  BY <1>34 DEF DeleteDirectory, Go
<1>35. ASSUME NEW o \in Operators, BeginForce(o) PROVE IInv'
  BY <1>35 DEF BeginForce, Decide, Go
<1>36. ASSUME NEW o \in Operators, ForceLock(o) PROVE IInv'
  BY <1>36 DEF ForceLock, TakeLock, LockRefused, Go
<1>37. ASSUME NEW o \in Operators, ForceRemove(o) PROVE IInv'
  BY <1>37 DEF ForceRemove, SetOwner, Go
<1>38. ASSUME NEW o \in Operators, BeginTake(o) PROVE IInv'
  BY <1>38 DEF BeginTake, Decide, Go
<1>39. ASSUME NEW o \in Operators, TakeOwnershipLock(o) PROVE IInv'
  BY <1>39 DEF TakeOwnershipLock, TakeLock, LockRefused, Go
<1>40. ASSUME NEW o \in Operators, TakeOwnership(o) PROVE IInv'
  BY <1>40 DEF TakeOwnership, SetOwner, Decide, Go
<1>41. ASSUME NEW o \in Operators, OperatorUnlock(o) PROVE IInv'
  BY <1>41 DEF OperatorUnlock, DropLock, Robs, Go
<1>42. ASSUME NEW x \in {parent} \cup Operators, Kill(x) PROVE IInv'
  BY <1>42 DEF Kill, Decide, Go
<1>43. CASE UNCHANGED vars
  BY <1>43 DEF vars
<1>45. QED
  BY <1>1, <1>2, <1>3, <1>4, <1>5, <1>6, <1>7, <1>8, <1>9, <1>10, <1>11, <1>12, <1>13, <1>14,
      <1>15, <1>16, <1>17, <1>18, <1>19, <1>20, <1>21, <1>22, <1>23, <1>24, <1>25, <1>26,
      <1>27, <1>28, <1>29, <1>30, <1>31, <1>32, <1>33, <1>34, <1>35, <1>36, <1>37, <1>38,
      <1>39, <1>40, <1>41, <1>42, <1>43, <1>44 DEF Next, Parent, Worker, Operator

(* It holds of a run just created.                                          *)
LEMMA SafetyInit == Init => IInv
<1> SUFFICES ASSUME Init PROVE IInv
  OBVIOUS
<1>1. pc[parent] = "created" /\ \A t \in Tasks : pc[t] = "none"
  BY RunLockAssumption DEF Init, Procs
<1>2. \A x \in Procs : pc[x] \in {"created", "none", "opIdle"}
  BY RunLockAssumption DEF Init, Procs
<1>3. lock = None /\ robbed = FALSE /\ phase = [t \in Tasks |-> "unstarted"]
  BY DEF Init
<1>4. InsideHoldsLock /\ PublicationUnderOwner
  BY <1>1, <1>2 DEF InsideHoldsLock, PublicationUnderOwner, Inside, ParentInside, WorkerInside,
                    OperatorInside
<1>5. WorkerFollowsTask /\ NoneRunning
  <2>1. \A t \in Tasks : phase[t] = "unstarted" /\ pc[t] = "none"
    BY <1>1, <1>3
  <2>2. \A t \in Tasks : lock # t
    BY <1>3, RunLockAssumption DEF Procs
  <2> QED
    BY <2>1, <2>2 DEF WorkerFollowsTask, NoneRunning
<1>6. AttemptLeft /\ RobbedOnlyAtRelease /\ TakesReapedLock /\ MutationUnderOwnership
  BY <1>1, <1>3 DEF AttemptLeft, RobbedOnlyAtRelease, TakesReapedLock, MutationUnderOwnership
<1> QED
  BY <1>4, <1>5, <1>6 DEF IInv

-----------------------------------------------------------------------------
(* Every variable keeps its type, and a guarded mutation never makes more   *)
(* than MUTATION_LOCK_ATTEMPTS attempts (createMutationGuard).              *)
THEOREM TypeCorrect == Spec => []TypeOK
<1>1. TypeInv => TypeOK
  BY DEF TypeInv
<1> QED
  BY <1>1, TypeInit, TypeStep, PTL DEF Spec

(* The inductive invariant holds throughout, where executors stop their     *)
(* workers before they settle.                                              *)
LEMMA AlwaysSafe ==
  ASSUME WorkersStop
  PROVE  Spec => [](TypeInv /\ IInv)
<1>1. TypeInv /\ IInv /\ [Next]_vars => IInv'
  BY SafetyStep
<1> QED
  BY <1>1, TypeInit, TypeStep, SafetyInit, PTL DEF Spec

(* One process at a time is between its link of mutation.lock and its rm    *)
(* (acquireRunMutationLock), until a release robs one of them.              *)
THEOREM OneInsideAtATime ==
  ASSUME WorkersStop
  PROVE  Spec => []ExclusiveSection
<1>1. IInv => ExclusiveSection
  BY DEF IInv, InsideHoldsLock, ExclusiveSection
<1> QED
  BY <1>1, AlwaysSafe, PTL

(* Every node-state and output write of the parent lands on a run it owns   *)
(* at that moment: assertRunOwnership under the lock is enough, forced      *)
(* releases and deletions notwithstanding.                                  *)
THEOREM MutatesOnlyOwnedRun ==
  ASSUME WorkersStop
  PROVE  Spec => []MutationUnderOwnership
<1>1. IInv => MutationUnderOwnership
  BY DEF IInv
<1> QED
  BY <1>1, AlwaysSafe, PTL

(* Every coordination record of a worker lands on a run with an active      *)
(* owner (withActiveRunPublication).                                        *)
THEOREM PublishesOnlyUnderOwner ==
  ASSUME WorkersStop
  PROVE  Spec => []PublicationUnderOwner
<1>1. IInv => PublicationUnderOwner
  BY DEF IInv
<1> QED
  BY <1>1, AlwaysSafe, PTL

(* recoverRunMutationLock with the predicate of createMutationGuard removes *)
(* the lock of a dead process only, although it reads and removes in two    *)
(* calls: a reaped task's worker cannot release or link a lock in between.  *)
(* Whoever is robbed of the lock is robbed at the release.                  *)
THEOREM GuardRecoversOnlyTheDead ==
  ASSUME WorkersStop
  PROVE  Spec => [](GuardNeverRobs /\ RobbedOnlyAtRelease)
<1>1. TypeInv /\ IInv => GuardNeverRobs /\ RobbedOnlyAtRelease
  BY RunLockAssumption DEF IInv, TakesReapedLock, WorkerFollowsTask, GuardNeverRobs, Procs
<1> QED
  BY <1>1, AlwaysSafe, PTL

-----------------------------------------------------------------------------
(* Every step keeps LoneParent: once the run is being released no worker    *)
(* is left to link the lock again.                                          *)
LEMMA LoneStep ==
  ASSUME WorkersStop, Operators = {}, TypeInv, IInv, LoneParent, [Next]_vars
  PROVE  LoneParent'
<1>0. USE RunLockAssumption DEF TypeInv, TypeOK, Procs, IInv, InsideHoldsLock, WorkerFollowsTask,
      NoneRunning, TakesReapedLock, LoneParent, Inside, ParentPoints, WorkerPoints,
      ParentInside, WorkerInside, OperatorInside
<1>1. CASE ReadCreatedRun
  BY <1>1 DEF ReadCreatedRun, Decide, Go
<1>2. CASE AcquireLock
  BY <1>2 DEF AcquireLock, TakeLock, LockRefused, Go
<1>3. CASE AcquireWrite
  BY <1>3 DEF AcquireWrite, SetOwner, DropLock, Robs, Go
<1>4. CASE AcquireUnlock
  BY <1>4 DEF AcquireUnlock, DropLock, Robs, Go
<1>5. CASE BeginMutation
  BY <1>5 DEF BeginMutation, Go
<1>6. CASE MutationLock
  BY <1>6 DEF MutationLock, TakeLock, LockRefused, Go
<1>7. CASE MutationCheck
  BY <1>7 DEF MutationCheck, Decide, Go
<1>8. CASE MutationWrite
  BY <1>8 DEF MutationWrite, Go
<1>9. CASE MutationWriteFails
  BY <1>9 DEF MutationWriteFails, Decide, Go
<1>10. CASE MutationUnlock
  BY <1>10 DEF MutationUnlock, DropLock, Robs, Go
<1>11. CASE RecoverOwner
  BY <1>11 DEF RecoverOwner, Decide, Retry, NextAttempt, Go
<1>12. CASE RecoverHolder
  BY <1>12 DEF RecoverHolder, Decide, Retry, NextAttempt, HolderFinished, Go
<1>13. CASE RecoverTake
  BY <1>13 DEF RecoverTake, Robs, NextAttempt, Go
<1>14. CASE EndRun
  BY <1>14 DEF EndRun, Decide, Go
<1>15. CASE ReleaseOwner
  BY <1>15 DEF ReleaseOwner, Decide, Go
<1>16. CASE ReleaseTake
  BY <1>16 DEF ReleaseTake, DropLock, Robs, Go
<1>17. CASE ReleaseLock
  BY <1>17 DEF ReleaseLock, TakeLock, LockRefused, Go
<1>18. CASE ReleaseCheck
  BY <1>18 DEF ReleaseCheck, Decide, Go
<1>19. CASE ReleaseRemove
  BY <1>19 DEF ReleaseRemove, SetOwner, Go
<1>20. CASE ReleaseUnlock
  BY <1>20 DEF ReleaseUnlock, DropLock, Robs, Go
<1>21. ASSUME NEW t \in Tasks, BeginPublish(t) PROVE LoneParent'
  BY <1>21 DEF BeginPublish, Decide, Go
<1>22. ASSUME NEW t \in Tasks, PublishLock(t) PROVE LoneParent'
  BY <1>22 DEF PublishLock, TakeLock, LockRefused, Go
<1>23. ASSUME NEW t \in Tasks, PublishCheck(t) PROVE LoneParent'
  BY <1>23 DEF PublishCheck, Decide, Go
<1>24. ASSUME NEW t \in Tasks, Publish(t) PROVE LoneParent'
  BY <1>24 DEF Publish, Go
<1>25. ASSUME NEW t \in Tasks, PublishUnlock(t) PROVE LoneParent'
  BY <1>25 DEF PublishUnlock, DropLock, Robs, Go
<1>44. ASSUME NEW t \in Tasks, PublishFails(t) PROVE LoneParent'
  BY <1>44 DEF PublishFails, Decide, Go
<1>26. ASSUME NEW t \in Tasks, WorkerEnds(t) PROVE LoneParent'
  BY <1>26 DEF WorkerEnds, Decide, Go
<1>27. ASSUME NEW t \in Tasks, StartTask(t) PROVE LoneParent'
  BY <1>27 DEF StartTask
<1>28. ASSUME NEW t \in Tasks, SettleTask(t) PROVE LoneParent'
  BY <1>28 DEF SettleTask
<1>29. ASSUME NEW t \in Tasks, ReapTask(t) PROVE LoneParent'
  BY <1>29 DEF ReapTask
<1>30. ASSUME NEW o \in Operators, BeginDelete(o) PROVE LoneParent'
  BY <1>30 DEF BeginDelete, Decide, Go
<1>31. ASSUME NEW o \in Operators, DeleteLock(o) PROVE LoneParent'
  BY <1>31 DEF DeleteLock, TakeLock, LockRefused, Go
<1>32. ASSUME NEW o \in Operators, DeleteCheck(o) PROVE LoneParent'
  BY <1>32 DEF DeleteCheck, Decide, Go
<1>33. ASSUME NEW o \in Operators, DeleteEntry(o) PROVE LoneParent'
  BY <1>33 DEF DeleteEntry
<1>34. ASSUME NEW o \in Operators, DeleteDirectory(o) PROVE LoneParent'
  BY <1>34 DEF DeleteDirectory, Go
<1>35. ASSUME NEW o \in Operators, BeginForce(o) PROVE LoneParent'
  BY <1>35 DEF BeginForce, Decide, Go
<1>36. ASSUME NEW o \in Operators, ForceLock(o) PROVE LoneParent'
  BY <1>36 DEF ForceLock, TakeLock, LockRefused, Go
<1>37. ASSUME NEW o \in Operators, ForceRemove(o) PROVE LoneParent'
  BY <1>37 DEF ForceRemove, SetOwner, Go
<1>38. ASSUME NEW o \in Operators, BeginTake(o) PROVE LoneParent'
  BY <1>38 DEF BeginTake, Decide, Go
<1>39. ASSUME NEW o \in Operators, TakeOwnershipLock(o) PROVE LoneParent'
  BY <1>39 DEF TakeOwnershipLock, TakeLock, LockRefused, Go
<1>40. ASSUME NEW o \in Operators, TakeOwnership(o) PROVE LoneParent'
  BY <1>40 DEF TakeOwnership, SetOwner, Decide, Go
<1>41. ASSUME NEW o \in Operators, OperatorUnlock(o) PROVE LoneParent'
  BY <1>41 DEF OperatorUnlock, DropLock, Robs, Go
<1>42. ASSUME NEW x \in {parent} \cup Operators, Kill(x) PROVE LoneParent'
  BY <1>42 DEF Kill, Decide, Go
<1>43. CASE UNCHANGED vars
  BY <1>43 DEF vars
<1>45. QED
  BY <1>1, <1>2, <1>3, <1>4, <1>5, <1>6, <1>7, <1>8, <1>9, <1>10, <1>11, <1>12, <1>13, <1>14,
      <1>15, <1>16, <1>17, <1>18, <1>19, <1>20, <1>21, <1>22, <1>23, <1>24, <1>25, <1>26,
      <1>27, <1>28, <1>29, <1>30, <1>31, <1>32, <1>33, <1>34, <1>35, <1>36, <1>37, <1>38,
      <1>39, <1>40, <1>41, <1>42, <1>43, <1>44 DEF Next, Parent, Worker, Operator

(* A process that nobody else contends with loses no lock, and a run that   *)
(* ends leaves neither a hold nor a lock, whatever worker was killed while  *)
(* it held the lock (releaseRunHold recovers before it releases).           *)
THEOREM LoneRunReleases ==
  ASSUME WorkersStop, Operators = {}
  PROVE  Spec => [](NobodyRobbed /\ ReleasedAtEnd)
<1>1. Init => LoneParent
  <2>1. Init => pc[parent] = "created"
    BY RunLockAssumption DEF Init, Procs
  <2>2. Init => dir = "present" /\ ~robbed /\ owner = None /\ lock = None
    BY DEF Init
  <2> QED
    BY <2>1, <2>2 DEF LoneParent
<1>2. TypeInv /\ IInv /\ LoneParent /\ [Next]_vars => LoneParent'
  BY LoneStep
<1>3. LoneParent => NobodyRobbed /\ ReleasedAtEnd
  BY RunLockAssumption DEF LoneParent, NobodyRobbed, ReleasedAtEnd, Procs
<1> QED
  BY <1>1, <1>2, <1>3, AlwaysSafe, PTL DEF Spec
=============================================================================
