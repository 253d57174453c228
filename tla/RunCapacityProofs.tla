--------------------------- MODULE RunCapacityProofs ---------------------------
(****************************************************************************)
(* Theorems of RunCapacity, for every number of creators and slots and      *)
(* every limit.                                                             *)
(*                                                                          *)
(* Ownership (OwnershipInv) needs nothing but the mutation lock: a deleter  *)
(* that is about to remove a run holds its lock, or meets a directory that  *)
(* is already going, where an acquisition may still follow. Capacity (SlotInv) rests on the order of the calls: a  *)
(* creator has its slot from the link to the rename, and a deleter that     *)
(* looks at a slot has made sure that the directory is gone and for good.   *)
(* It needs two things the code does not see to: one operator deletes at a  *)
(* time, and not the slot of a creation in flight.                          *)
(****************************************************************************)
EXTENDS RunCapacity, Functions, FiniteSetTheorems, TLAPS

Early == {"scan", "list", "read", "link", "refused", "failed"}
Placing == {"publish", "undo", "undoRemove"}
Late == {"created", "acquiring", "owning", "done", "dead"}
Removed(r) == dir[r] \in {"dying", "gone"}

PointsOK ==
  /\ pc \in [Creators \cup Deleters -> CreatorPoints \cup DeleterPoints]
  /\ \A c \in Creators : pc[c] \in CreatorPoints
  /\ \A d \in Deleters : pc[d] \in DeleterPoints

RunsOK ==
  /\ dir \in [Creators -> {"none", "published", "dying", "gone"}]
  /\ owned \subseteq Creators

FilesOK ==
  /\ slot \in [Slots -> Creators \cup {None}]
  /\ lock \in [Creators -> Creators \cup Deleters \cup {None}]

CreationOK ==
  /\ limit \in [Creators -> 1 .. MaxRuns]
  /\ seen \in [Creators -> SUBSET Creators]
  /\ listed \in [Creators -> SUBSET Slots]
  /\ claims \in [Creators -> SUBSET (Slots \X Creators)]
  /\ index \in [Creators -> 0 .. MaxRuns]

DeletionOK ==
  /\ target \in [Deleters -> Creators \cup {None}]
  /\ found \in [Deleters -> Slots \cup {None}]

TargetInv ==
  \A d \in Deleters : pc[d] \notin {"idle", "dead"} => target[d] \in Creators

BirthInv ==
  \A c \in Creators : pc[c] \in Early \cup Placing => dir[c] = "none"

RemovalInv ==
  \A d \in Deleters :
    /\ pc[d] \in {"check", "remove"} => dir[target[d]] # "none"
    /\ pc[d] = "removing" => Removed(target[d])

(* Until the directory goes, whoever takes the lock keeps it.               *)
LockInv ==
  /\ \A c \in Creators : pc[c] = "acquiring" => lock[c] = c \/ Removed(c)
  /\ \A d \in Deleters :
       /\ pc[d] \in {"check", "remove"} => lock[target[d]] = d \/ Removed(target[d])
       /\ pc[d] = "remove" => target[d] \notin owned \/ Removed(target[d])

OwnershipInv == TypeOK /\ TargetInv /\ BirthInv /\ RemovalInv /\ LockInv

OneDeletion == \A d, e \in Deleters : d = e

PlaceInv ==
  \A c \in Creators :
    /\ pc[c] \in Early => ~HasSlot(c)
    /\ pc[c] \in Placing => index[c] \in Slots /\ slot[index[c]] = c

OneSlotEach == \A i, j \in Slots : slot[i] # None /\ slot[i] = slot[j] => i = j

Held == \A r \in Retained : HasSlot(r)

(* A deleter looks at a run that has been published or given up, whose      *)
(* directory is gone once it looks at the slot.                             *)
DeleterInv ==
  \A d \in Deleters :
    /\ pc[d] \notin {"idle", "dead"} => pc[target[d]] \in Late
    /\ pc[d] \in {"slotCheck", "slotRemove"} => target[d] \notin Retained
    /\ pc[d] = "slotRemove" => found[d] \in Slots /\ slot[found[d]] = target[d]

FoundInv ==
  \A d \in Deleters, i \in Slots :
    pc[d] \in {"lock", "check", "remove", "removing", "slotCheck"} /\ slot[i] = target[d] =>
      found[d] = i

SlotInv == /\ PlaceInv /\ OneSlotEach /\ Held /\ DeleterInv /\ FoundInv /\ StrandedByInterruption

-----------------------------------------------------------------------------
LEMMA InitOwnership == Init => OwnershipInv
<1> SUFFICES ASSUME Init PROVE OwnershipInv
  OBVIOUS
<1> USE RunCapacityAssumption
<1>1. TypeOK
  <2>1. PointsOK
    BY DEF Init, PointsOK, CreatorPoints, DeleterPoints
  <2>2. RunsOK /\ FilesOK /\ DeletionOK
    BY DEF Init, RunsOK, FilesOK, DeletionOK
  <2>3. CreationOK
    BY DEF Init, CreationOK
  <2> QED
    BY <2>1, <2>2, <2>3 DEF TypeOK, PointsOK, RunsOK, FilesOK, CreationOK, DeletionOK
<1>2. \A d \in Deleters : pc[d] = "idle"
  BY DEF Init
<1>3. \A c \in Creators : pc[c] = "scan" /\ dir[c] = "none"
  BY DEF Init
<1>4. owned = {}
  BY DEF Init
<1> QED
  BY <1>1, <1>2, <1>3, <1>4 DEF OwnershipInv, TargetInv, BirthInv, RemovalInv, LockInv

LEMMA InitSlots == Init => SlotInv
<1> SUFFICES ASSUME Init PROVE SlotInv
  OBVIOUS
<1> USE RunCapacityAssumption
<1>1. \A d \in Deleters : pc[d] = "idle"
  BY DEF Init
<1>2. \A c \in Creators : pc[c] = "scan" /\ dir[c] = "none"
  BY DEF Init
<1>3. \A i \in Slots : slot[i] = None
  BY DEF Init
<1> QED
  BY <1>1, <1>2, <1>3 DEF SlotInv, PlaceInv, OneSlotEach, Held, DeleterInv, FoundInv,
     StrandedByInterruption, HasSlot, Retained, Early, Placing

(* Types, by the part of the state they are about.                          *)
LEMMA PointTypes ==
  ASSUME TypeOK, [Next]_vars
  PROVE  PointsOK'
<1> USE RunCapacityAssumption DEF TypeOK, PointsOK, CreatorPoints, DeleterPoints, Finished
<1>1. ASSUME NEW c \in Creators, ReadRuns(c) PROVE PointsOK'
  BY <1>1 DEF ReadRuns, Go
<1>2. ASSUME NEW c \in Creators, ListSlots(c) PROVE PointsOK'
  BY <1>2 DEF ListSlots, Go
<1>3. ASSUME NEW c \in Creators, NEW i \in Slots, ReadSlot(c, i) PROVE PointsOK'
  BY <1>3 DEF ReadSlot
<1>4. ASSUME NEW c \in Creators, Admission(c) PROVE PointsOK'
  BY <1>4 DEF Admission, Go
<1>5. ASSUME NEW c \in Creators, LinkSlot(c) PROVE PointsOK'
  <2>1. \/ pc' = pc
        \/ pc' = [pc EXCEPT ![c] = "publish"]
        \/ pc' = [pc EXCEPT ![c] = "refused"]
    BY <1>5 DEF LinkSlot, Go
  <2> QED
    BY <2>1
<1>6. ASSUME NEW c \in Creators, Publish(c) PROVE PointsOK'
  BY <1>6 DEF Publish, Go
<1>7. ASSUME NEW c \in Creators, PublishFails(c) PROVE PointsOK'
  BY <1>7 DEF PublishFails, Go
<1>8. ASSUME NEW c \in Creators, UndoCheck(c) PROVE PointsOK'
  BY <1>8 DEF UndoCheck, Go
<1>9. ASSUME NEW c \in Creators, UndoRemove(c) PROVE PointsOK'
  BY <1>9 DEF UndoRemove, RemoveSlot, Go
<1>10. ASSUME NEW c \in Creators, OwnLock(c) PROVE PointsOK'
  BY <1>10 DEF OwnLock, Go
<1>10a. ASSUME NEW c \in Creators, OwnRefused(c) PROVE PointsOK'
  BY <1>10a DEF OwnRefused, Go
<1>11. ASSUME NEW c \in Creators, Own(c) PROVE PointsOK'
  <2>1. pc' = [pc EXCEPT ![c] = "owning"] \/ pc' = [pc EXCEPT ![c] = "done"]
    BY <1>11 DEF Own, Go
  <2> QED
    BY <2>1
<1>12. ASSUME NEW c \in Creators, Disown(c) PROVE PointsOK'
  BY <1>12 DEF Disown, Go
<1>13. ASSUME NEW d \in Deleters, NEW r \in Creators, FindSlot(d, r) PROVE PointsOK'
  BY <1>13 DEF FindSlot, Go
<1>14. ASSUME NEW d \in Deleters, LockRun(d) PROVE PointsOK'
  BY <1>14 DEF LockRun, Go
<1>15. ASSUME NEW d \in Deleters, CheckOwner(d) PROVE PointsOK'
  <2>1. pc' = [pc EXCEPT ![d] = "remove"] \/ pc' = [pc EXCEPT ![d] = "idle"]
    BY <1>15 DEF CheckOwner, Go
  <2> QED
    BY <2>1
<1>16. ASSUME NEW d \in Deleters, RemoveEntries(d) PROVE PointsOK'
  BY <1>16 DEF RemoveEntries, Go
<1>16a. ASSUME NEW d \in Deleters, RemoveEntry(d) PROVE PointsOK'
  BY <1>16a DEF RemoveEntry
<1>17. ASSUME NEW d \in Deleters, RemoveDirectory(d) PROVE PointsOK'
  BY <1>17 DEF RemoveDirectory, Go
<1>18. ASSUME NEW d \in Deleters, SlotCheck(d) PROVE PointsOK'
  BY <1>18 DEF SlotCheck, Go
<1>19. ASSUME NEW d \in Deleters, SlotRemove(d) PROVE PointsOK'
  BY <1>19 DEF SlotRemove, RemoveSlot, Go
<1>20. ASSUME NEW p \in Creators \cup Deleters, Kill(p) PROVE PointsOK'
  BY <1>20 DEF Kill
<1>21. CASE UNCHANGED vars
  BY <1>21 DEF vars
<1> QED
  BY <1>1, <1>2, <1>3, <1>4, <1>5, <1>6, <1>7, <1>8, <1>9, <1>10, <1>10a, <1>11, <1>12, <1>13, <1>14,
     <1>15, <1>16, <1>16a, <1>17, <1>18, <1>19, <1>20, <1>21 DEF Next, Create, Delete

LEMMA RunTypes ==
  ASSUME TypeOK, TargetInv, [Next]_vars
  PROVE  RunsOK'
<1> USE RunCapacityAssumption DEF TypeOK, store, creation, deletion, TargetInv, RunsOK
<1>1. ASSUME NEW c \in Creators, ReadRuns(c) PROVE RunsOK'
  BY <1>1 DEF ReadRuns, Go
<1>2. ASSUME NEW c \in Creators, ListSlots(c) PROVE RunsOK'
  BY <1>2 DEF ListSlots, Go
<1>3. ASSUME NEW c \in Creators, NEW i \in Slots, ReadSlot(c, i) PROVE RunsOK'
  BY <1>3 DEF ReadSlot
<1>4. ASSUME NEW c \in Creators, Admission(c) PROVE RunsOK'
  BY <1>4 DEF Admission, Go
<1>5. ASSUME NEW c \in Creators, LinkSlot(c) PROVE RunsOK'
  BY <1>5 DEF LinkSlot, Go
<1>6. ASSUME NEW c \in Creators, Publish(c) PROVE RunsOK'
  BY <1>6 DEF Publish, Go
<1>7. ASSUME NEW c \in Creators, PublishFails(c) PROVE RunsOK'
  BY <1>7 DEF PublishFails, Go
<1>8. ASSUME NEW c \in Creators, UndoCheck(c) PROVE RunsOK'
  BY <1>8 DEF UndoCheck, Go
<1>9. ASSUME NEW c \in Creators, UndoRemove(c) PROVE RunsOK'
  BY <1>9 DEF UndoRemove, RemoveSlot, Go
<1>10. ASSUME NEW c \in Creators, OwnLock(c) PROVE RunsOK'
  BY <1>10 DEF OwnLock, Go
<1>10a. ASSUME NEW c \in Creators, OwnRefused(c) PROVE RunsOK'
  BY <1>10a DEF OwnRefused, Go
<1>11. ASSUME NEW c \in Creators, Own(c) PROVE RunsOK'
  BY <1>11 DEF Own, Go
<1>12. ASSUME NEW c \in Creators, Disown(c) PROVE RunsOK'
  BY <1>12 DEF Disown, Go
<1>13. ASSUME NEW d \in Deleters, NEW r \in Creators, FindSlot(d, r) PROVE RunsOK'
  BY <1>13 DEF FindSlot, Go
<1>14. ASSUME NEW d \in Deleters, LockRun(d) PROVE RunsOK'
  BY <1>14 DEF LockRun, Go
<1>15. ASSUME NEW d \in Deleters, CheckOwner(d) PROVE RunsOK'
  BY <1>15 DEF CheckOwner, Go
<1>16. ASSUME NEW d \in Deleters, RemoveEntries(d) PROVE RunsOK'
  BY <1>16 DEF RemoveEntries, Go
<1>16a. ASSUME NEW d \in Deleters, RemoveEntry(d) PROVE RunsOK'
  BY <1>16a DEF RemoveEntry
<1>17. ASSUME NEW d \in Deleters, RemoveDirectory(d) PROVE RunsOK'
  BY <1>17 DEF RemoveDirectory, Go
<1>18. ASSUME NEW d \in Deleters, SlotCheck(d) PROVE RunsOK'
  BY <1>18 DEF SlotCheck, Go
<1>19. ASSUME NEW d \in Deleters, SlotRemove(d) PROVE RunsOK'
  BY <1>19 DEF SlotRemove, RemoveSlot, Go
<1>20. ASSUME NEW p \in Creators \cup Deleters, Kill(p) PROVE RunsOK'
  BY <1>20 DEF Kill
<1>21. CASE UNCHANGED vars
  BY <1>21 DEF vars
<1> QED
  BY <1>1, <1>2, <1>3, <1>4, <1>5, <1>6, <1>7, <1>8, <1>9, <1>10, <1>10a, <1>11, <1>12, <1>13, <1>14,
     <1>15, <1>16, <1>16a, <1>17, <1>18, <1>19, <1>20, <1>21 DEF Next, Create, Delete

LEMMA FileTypes ==
  ASSUME TypeOK, [Next]_vars
  PROVE  FilesOK'
<1> USE RunCapacityAssumption DEF TypeOK, store, creation, deletion, FilesOK
<1>1. ASSUME NEW c \in Creators, ReadRuns(c) PROVE FilesOK'
  BY <1>1 DEF ReadRuns, Go
<1>2. ASSUME NEW c \in Creators, ListSlots(c) PROVE FilesOK'
  BY <1>2 DEF ListSlots, Go
<1>3. ASSUME NEW c \in Creators, NEW i \in Slots, ReadSlot(c, i) PROVE FilesOK'
  BY <1>3 DEF ReadSlot
<1>4. ASSUME NEW c \in Creators, Admission(c) PROVE FilesOK'
  BY <1>4 DEF Admission, Go
<1>5. ASSUME NEW c \in Creators, LinkSlot(c) PROVE FilesOK'
  BY <1>5 DEF LinkSlot, Go
<1>6. ASSUME NEW c \in Creators, Publish(c) PROVE FilesOK'
  BY <1>6 DEF Publish, Go
<1>7. ASSUME NEW c \in Creators, PublishFails(c) PROVE FilesOK'
  BY <1>7 DEF PublishFails, Go
<1>8. ASSUME NEW c \in Creators, UndoCheck(c) PROVE FilesOK'
  BY <1>8 DEF UndoCheck, Go
<1>9. ASSUME NEW c \in Creators, UndoRemove(c) PROVE FilesOK'
  BY <1>9 DEF UndoRemove, RemoveSlot, Go
<1>10. ASSUME NEW c \in Creators, OwnLock(c) PROVE FilesOK'
  BY <1>10 DEF OwnLock, Go
<1>10a. ASSUME NEW c \in Creators, OwnRefused(c) PROVE FilesOK'
  BY <1>10a DEF OwnRefused, Go
<1>11. ASSUME NEW c \in Creators, Own(c) PROVE FilesOK'
  BY <1>11 DEF Own, Go
<1>12. ASSUME NEW c \in Creators, Disown(c) PROVE FilesOK'
  BY <1>12 DEF Disown, Go
<1>13. ASSUME NEW d \in Deleters, NEW r \in Creators, FindSlot(d, r) PROVE FilesOK'
  BY <1>13 DEF FindSlot, Go
<1>14. ASSUME NEW d \in Deleters, LockRun(d) PROVE FilesOK'
  BY <1>14 DEF LockRun, Go
<1>15. ASSUME NEW d \in Deleters, CheckOwner(d) PROVE FilesOK'
  BY <1>15 DEF CheckOwner, Go
<1>16. ASSUME NEW d \in Deleters, RemoveEntries(d) PROVE FilesOK'
  BY <1>16 DEF RemoveEntries, Go
<1>16a. ASSUME NEW d \in Deleters, RemoveEntry(d) PROVE FilesOK'
  BY <1>16a DEF RemoveEntry
<1>17. ASSUME NEW d \in Deleters, RemoveDirectory(d) PROVE FilesOK'
  BY <1>17 DEF RemoveDirectory, Go
<1>18. ASSUME NEW d \in Deleters, SlotCheck(d) PROVE FilesOK'
  BY <1>18 DEF SlotCheck, Go
<1>19. ASSUME NEW d \in Deleters, SlotRemove(d) PROVE FilesOK'
  BY <1>19 DEF SlotRemove, RemoveSlot, Go
<1>20. ASSUME NEW p \in Creators \cup Deleters, Kill(p) PROVE FilesOK'
  BY <1>20 DEF Kill
<1>21. CASE UNCHANGED vars
  BY <1>21 DEF vars
<1> QED
  BY <1>1, <1>2, <1>3, <1>4, <1>5, <1>6, <1>7, <1>8, <1>9, <1>10, <1>10a, <1>11, <1>12, <1>13, <1>14,
     <1>15, <1>16, <1>16a, <1>17, <1>18, <1>19, <1>20, <1>21 DEF Next, Create, Delete

LEMMA CreationTypes ==
  ASSUME TypeOK, [Next]_vars
  PROVE  CreationOK'
<1> USE RunCapacityAssumption DEF TypeOK, store, creation, deletion, CreationOK
<1>1. ASSUME NEW c \in Creators, ReadRuns(c) PROVE CreationOK'
  BY <1>1 DEF ReadRuns, Retained, Go
<1>2. ASSUME NEW c \in Creators, ListSlots(c) PROVE CreationOK'
  BY <1>2 DEF ListSlots, Go
<1>3. ASSUME NEW c \in Creators, NEW i \in Slots, ReadSlot(c, i) PROVE CreationOK'
  BY <1>3 DEF ReadSlot
<1>4. ASSUME NEW c \in Creators, Admission(c) PROVE CreationOK'
  BY <1>4 DEF Admission, Go
<1>5. ASSUME NEW c \in Creators, LinkSlot(c) PROVE CreationOK'
  BY <1>5 DEF LinkSlot, Go
<1>6. ASSUME NEW c \in Creators, Publish(c) PROVE CreationOK'
  BY <1>6 DEF Publish, Go
<1>7. ASSUME NEW c \in Creators, PublishFails(c) PROVE CreationOK'
  BY <1>7 DEF PublishFails, Go
<1>8. ASSUME NEW c \in Creators, UndoCheck(c) PROVE CreationOK'
  BY <1>8 DEF UndoCheck, Go
<1>9. ASSUME NEW c \in Creators, UndoRemove(c) PROVE CreationOK'
  BY <1>9 DEF UndoRemove, RemoveSlot, Go
<1>10. ASSUME NEW c \in Creators, OwnLock(c) PROVE CreationOK'
  BY <1>10 DEF OwnLock, Go
<1>10a. ASSUME NEW c \in Creators, OwnRefused(c) PROVE CreationOK'
  BY <1>10a DEF OwnRefused, Go
<1>11. ASSUME NEW c \in Creators, Own(c) PROVE CreationOK'
  BY <1>11 DEF Own, Go
<1>12. ASSUME NEW c \in Creators, Disown(c) PROVE CreationOK'
  BY <1>12 DEF Disown, Go
<1>13. ASSUME NEW d \in Deleters, NEW r \in Creators, FindSlot(d, r) PROVE CreationOK'
  BY <1>13 DEF FindSlot, Go
<1>14. ASSUME NEW d \in Deleters, LockRun(d) PROVE CreationOK'
  BY <1>14 DEF LockRun, Go
<1>15. ASSUME NEW d \in Deleters, CheckOwner(d) PROVE CreationOK'
  BY <1>15 DEF CheckOwner, Go
<1>16. ASSUME NEW d \in Deleters, RemoveEntries(d) PROVE CreationOK'
  BY <1>16 DEF RemoveEntries, Go
<1>16a. ASSUME NEW d \in Deleters, RemoveEntry(d) PROVE CreationOK'
  BY <1>16a DEF RemoveEntry
<1>17. ASSUME NEW d \in Deleters, RemoveDirectory(d) PROVE CreationOK'
  BY <1>17 DEF RemoveDirectory, Go
<1>18. ASSUME NEW d \in Deleters, SlotCheck(d) PROVE CreationOK'
  BY <1>18 DEF SlotCheck, Go
<1>19. ASSUME NEW d \in Deleters, SlotRemove(d) PROVE CreationOK'
  BY <1>19 DEF SlotRemove, RemoveSlot, Go
<1>20. ASSUME NEW p \in Creators \cup Deleters, Kill(p) PROVE CreationOK'
  BY <1>20 DEF Kill
<1>21. CASE UNCHANGED vars
  BY <1>21 DEF vars
<1> QED
  BY <1>1, <1>2, <1>3, <1>4, <1>5, <1>6, <1>7, <1>8, <1>9, <1>10, <1>10a, <1>11, <1>12, <1>13, <1>14,
     <1>15, <1>16, <1>16a, <1>17, <1>18, <1>19, <1>20, <1>21 DEF Next, Create, Delete

LEMMA DeletionTypes ==
  ASSUME TypeOK, [Next]_vars
  PROVE  DeletionOK'
<1> USE RunCapacityAssumption DEF TypeOK, store, creation, deletion, DeletionOK
<1>1. ASSUME NEW c \in Creators, ReadRuns(c) PROVE DeletionOK'
  BY <1>1 DEF ReadRuns, Go
<1>2. ASSUME NEW c \in Creators, ListSlots(c) PROVE DeletionOK'
  BY <1>2 DEF ListSlots, Go
<1>3. ASSUME NEW c \in Creators, NEW i \in Slots, ReadSlot(c, i) PROVE DeletionOK'
  BY <1>3 DEF ReadSlot
<1>4. ASSUME NEW c \in Creators, Admission(c) PROVE DeletionOK'
  BY <1>4 DEF Admission, Go
<1>5. ASSUME NEW c \in Creators, LinkSlot(c) PROVE DeletionOK'
  BY <1>5 DEF LinkSlot, Go
<1>6. ASSUME NEW c \in Creators, Publish(c) PROVE DeletionOK'
  BY <1>6 DEF Publish, Go
<1>7. ASSUME NEW c \in Creators, PublishFails(c) PROVE DeletionOK'
  BY <1>7 DEF PublishFails, Go
<1>8. ASSUME NEW c \in Creators, UndoCheck(c) PROVE DeletionOK'
  BY <1>8 DEF UndoCheck, Go
<1>9. ASSUME NEW c \in Creators, UndoRemove(c) PROVE DeletionOK'
  BY <1>9 DEF UndoRemove, RemoveSlot, Go
<1>10. ASSUME NEW c \in Creators, OwnLock(c) PROVE DeletionOK'
  BY <1>10 DEF OwnLock, Go
<1>10a. ASSUME NEW c \in Creators, OwnRefused(c) PROVE DeletionOK'
  BY <1>10a DEF OwnRefused, Go
<1>11. ASSUME NEW c \in Creators, Own(c) PROVE DeletionOK'
  BY <1>11 DEF Own, Go
<1>12. ASSUME NEW c \in Creators, Disown(c) PROVE DeletionOK'
  BY <1>12 DEF Disown, Go
<1>13. ASSUME NEW d \in Deleters, NEW r \in Creators, FindSlot(d, r) PROVE DeletionOK'
  BY <1>13 DEF FindSlot, HasSlot, Go
<1>14. ASSUME NEW d \in Deleters, LockRun(d) PROVE DeletionOK'
  BY <1>14 DEF LockRun, Go
<1>15. ASSUME NEW d \in Deleters, CheckOwner(d) PROVE DeletionOK'
  BY <1>15 DEF CheckOwner, Go
<1>16. ASSUME NEW d \in Deleters, RemoveEntries(d) PROVE DeletionOK'
  BY <1>16 DEF RemoveEntries, Go
<1>16a. ASSUME NEW d \in Deleters, RemoveEntry(d) PROVE DeletionOK'
  BY <1>16a DEF RemoveEntry
<1>17. ASSUME NEW d \in Deleters, RemoveDirectory(d) PROVE DeletionOK'
  BY <1>17 DEF RemoveDirectory, Go
<1>18. ASSUME NEW d \in Deleters, SlotCheck(d) PROVE DeletionOK'
  BY <1>18 DEF SlotCheck, Go
<1>19. ASSUME NEW d \in Deleters, SlotRemove(d) PROVE DeletionOK'
  BY <1>19 DEF SlotRemove, RemoveSlot, Go
<1>20. ASSUME NEW p \in Creators \cup Deleters, Kill(p) PROVE DeletionOK'
  BY <1>20 DEF Kill
<1>21. CASE UNCHANGED vars
  BY <1>21 DEF vars
<1> QED
  BY <1>1, <1>2, <1>3, <1>4, <1>5, <1>6, <1>7, <1>8, <1>9, <1>10, <1>10a, <1>11, <1>12, <1>13, <1>14,
     <1>15, <1>16, <1>16a, <1>17, <1>18, <1>19, <1>20, <1>21 DEF Next, Create, Delete

LEMMA StepTypeOK ==
  ASSUME TypeOK, TargetInv, [Next]_vars
  PROVE  TypeOK'
BY PointTypes, RunTypes, FileTypes, CreationTypes, DeletionTypes
   DEF TypeOK, PointsOK, RunsOK, FilesOK, CreationOK, DeletionOK

-----------------------------------------------------------------------------
LEMMA StepTarget ==
  ASSUME OwnershipInv, [Next]_vars
  PROVE  TargetInv'
<1> USE RunCapacityAssumption DEF OwnershipInv, TypeOK, store, creation, deletion, TargetInv
<1>1. ASSUME NEW c \in Creators, ReadRuns(c) PROVE TargetInv'
  BY <1>1 DEF ReadRuns, Go
<1>2. ASSUME NEW c \in Creators, ListSlots(c) PROVE TargetInv'
  BY <1>2 DEF ListSlots, Go
<1>3. ASSUME NEW c \in Creators, NEW i \in Slots, ReadSlot(c, i) PROVE TargetInv'
  BY <1>3 DEF ReadSlot
<1>4. ASSUME NEW c \in Creators, Admission(c) PROVE TargetInv'
  BY <1>4 DEF Admission, Go
<1>5. ASSUME NEW c \in Creators, LinkSlot(c) PROVE TargetInv'
  BY <1>5 DEF LinkSlot, Go
<1>6. ASSUME NEW c \in Creators, Publish(c) PROVE TargetInv'
  BY <1>6 DEF Publish, Go
<1>7. ASSUME NEW c \in Creators, PublishFails(c) PROVE TargetInv'
  BY <1>7 DEF PublishFails, Go
<1>8. ASSUME NEW c \in Creators, UndoCheck(c) PROVE TargetInv'
  BY <1>8 DEF UndoCheck, Go
<1>9. ASSUME NEW c \in Creators, UndoRemove(c) PROVE TargetInv'
  BY <1>9 DEF UndoRemove, RemoveSlot, Go
<1>10. ASSUME NEW c \in Creators, OwnLock(c) PROVE TargetInv'
  BY <1>10 DEF OwnLock, Go
<1>10a. ASSUME NEW c \in Creators, OwnRefused(c) PROVE TargetInv'
  BY <1>10a DEF OwnRefused, Go
<1>11. ASSUME NEW c \in Creators, Own(c) PROVE TargetInv'
  BY <1>11 DEF Own, Go
<1>12. ASSUME NEW c \in Creators, Disown(c) PROVE TargetInv'
  BY <1>12 DEF Disown, Go
<1>13. ASSUME NEW d \in Deleters, NEW r \in Creators, FindSlot(d, r) PROVE TargetInv'
  BY <1>13 DEF FindSlot, Go
<1>14. ASSUME NEW d \in Deleters, LockRun(d) PROVE TargetInv'
  BY <1>14 DEF LockRun, Go
<1>15. ASSUME NEW d \in Deleters, CheckOwner(d) PROVE TargetInv'
  BY <1>15 DEF CheckOwner, Go
<1>16. ASSUME NEW d \in Deleters, RemoveEntries(d) PROVE TargetInv'
  BY <1>16 DEF RemoveEntries, Go
<1>16a. ASSUME NEW d \in Deleters, RemoveEntry(d) PROVE TargetInv'
  BY <1>16a DEF RemoveEntry
<1>17. ASSUME NEW d \in Deleters, RemoveDirectory(d) PROVE TargetInv'
  BY <1>17 DEF RemoveDirectory, Go
<1>18. ASSUME NEW d \in Deleters, SlotCheck(d) PROVE TargetInv'
  BY <1>18 DEF SlotCheck, Go
<1>19. ASSUME NEW d \in Deleters, SlotRemove(d) PROVE TargetInv'
  BY <1>19 DEF SlotRemove, RemoveSlot, Go
<1>20. ASSUME NEW p \in Creators \cup Deleters, Kill(p) PROVE TargetInv'
  BY <1>20 DEF Kill
<1>21. CASE UNCHANGED vars
  BY <1>21 DEF vars
<1> QED
  BY <1>1, <1>2, <1>3, <1>4, <1>5, <1>6, <1>7, <1>8, <1>9, <1>10, <1>10a, <1>11, <1>12, <1>13, <1>14,
     <1>15, <1>16, <1>16a, <1>17, <1>18, <1>19, <1>20, <1>21 DEF Next, Create, Delete

LEMMA StepBirth ==
  ASSUME OwnershipInv, [Next]_vars
  PROVE  BirthInv'
<1> USE RunCapacityAssumption DEF OwnershipInv, TypeOK, store, creation, deletion, TargetInv, BirthInv, RemovalInv, Removed, Early, Placing
<1>1. ASSUME NEW c \in Creators, ReadRuns(c) PROVE BirthInv'
  BY <1>1 DEF ReadRuns, Go
<1>2. ASSUME NEW c \in Creators, ListSlots(c) PROVE BirthInv'
  BY <1>2 DEF ListSlots, Go
<1>3. ASSUME NEW c \in Creators, NEW i \in Slots, ReadSlot(c, i) PROVE BirthInv'
  BY <1>3 DEF ReadSlot
<1>4. ASSUME NEW c \in Creators, Admission(c) PROVE BirthInv'
  BY <1>4 DEF Admission, Go
<1>5. ASSUME NEW c \in Creators, LinkSlot(c) PROVE BirthInv'
  BY <1>5 DEF LinkSlot, Go
<1>6. ASSUME NEW c \in Creators, Publish(c) PROVE BirthInv'
  BY <1>6 DEF Publish, Go
<1>7. ASSUME NEW c \in Creators, PublishFails(c) PROVE BirthInv'
  BY <1>7 DEF PublishFails, Go
<1>8. ASSUME NEW c \in Creators, UndoCheck(c) PROVE BirthInv'
  BY <1>8 DEF UndoCheck, Go
<1>9. ASSUME NEW c \in Creators, UndoRemove(c) PROVE BirthInv'
  BY <1>9 DEF UndoRemove, RemoveSlot, Go
<1>10. ASSUME NEW c \in Creators, OwnLock(c) PROVE BirthInv'
  BY <1>10 DEF OwnLock, Go
<1>10a. ASSUME NEW c \in Creators, OwnRefused(c) PROVE BirthInv'
  BY <1>10a DEF OwnRefused, Go
<1>11. ASSUME NEW c \in Creators, Own(c) PROVE BirthInv'
  BY <1>11 DEF Own, Go
<1>12. ASSUME NEW c \in Creators, Disown(c) PROVE BirthInv'
  BY <1>12 DEF Disown, Go
<1>13. ASSUME NEW d \in Deleters, NEW r \in Creators, FindSlot(d, r) PROVE BirthInv'
  BY <1>13 DEF FindSlot, Go
<1>14. ASSUME NEW d \in Deleters, LockRun(d) PROVE BirthInv'
  BY <1>14 DEF LockRun, Go
<1>15. ASSUME NEW d \in Deleters, CheckOwner(d) PROVE BirthInv'
  BY <1>15 DEF CheckOwner, Go
<1>16. ASSUME NEW d \in Deleters, RemoveEntries(d) PROVE BirthInv'
  BY <1>16 DEF RemoveEntries, Go
<1>16a. ASSUME NEW d \in Deleters, RemoveEntry(d) PROVE BirthInv'
  BY <1>16a DEF RemoveEntry
<1>17. ASSUME NEW d \in Deleters, RemoveDirectory(d) PROVE BirthInv'
  BY <1>17 DEF RemoveDirectory, Go
<1>18. ASSUME NEW d \in Deleters, SlotCheck(d) PROVE BirthInv'
  BY <1>18 DEF SlotCheck, Go
<1>19. ASSUME NEW d \in Deleters, SlotRemove(d) PROVE BirthInv'
  BY <1>19 DEF SlotRemove, RemoveSlot, Go
<1>20. ASSUME NEW p \in Creators \cup Deleters, Kill(p) PROVE BirthInv'
  BY <1>20 DEF Kill
<1>21. CASE UNCHANGED vars
  BY <1>21 DEF vars
<1> QED
  BY <1>1, <1>2, <1>3, <1>4, <1>5, <1>6, <1>7, <1>8, <1>9, <1>10, <1>10a, <1>11, <1>12, <1>13, <1>14,
     <1>15, <1>16, <1>16a, <1>17, <1>18, <1>19, <1>20, <1>21 DEF Next, Create, Delete

LEMMA StepRemoval ==
  ASSUME OwnershipInv, [Next]_vars
  PROVE  RemovalInv'
<1> USE RunCapacityAssumption DEF OwnershipInv, TypeOK, store, creation, deletion, TargetInv, BirthInv, RemovalInv, Removed, Retained, Placing
<1>1. ASSUME NEW c \in Creators, ReadRuns(c) PROVE RemovalInv'
  BY <1>1 DEF ReadRuns, Go
<1>2. ASSUME NEW c \in Creators, ListSlots(c) PROVE RemovalInv'
  BY <1>2 DEF ListSlots, Go
<1>3. ASSUME NEW c \in Creators, NEW i \in Slots, ReadSlot(c, i) PROVE RemovalInv'
  BY <1>3 DEF ReadSlot
<1>4. ASSUME NEW c \in Creators, Admission(c) PROVE RemovalInv'
  BY <1>4 DEF Admission, Go
<1>5. ASSUME NEW c \in Creators, LinkSlot(c) PROVE RemovalInv'
  BY <1>5 DEF LinkSlot, Go
<1>6. ASSUME NEW c \in Creators, Publish(c) PROVE RemovalInv'
  BY <1>6 DEF Publish, Go
<1>7. ASSUME NEW c \in Creators, PublishFails(c) PROVE RemovalInv'
  BY <1>7 DEF PublishFails, Go
<1>8. ASSUME NEW c \in Creators, UndoCheck(c) PROVE RemovalInv'
  BY <1>8 DEF UndoCheck, Go
<1>9. ASSUME NEW c \in Creators, UndoRemove(c) PROVE RemovalInv'
  BY <1>9 DEF UndoRemove, RemoveSlot, Go
<1>10. ASSUME NEW c \in Creators, OwnLock(c) PROVE RemovalInv'
  BY <1>10 DEF OwnLock, Go
<1>10a. ASSUME NEW c \in Creators, OwnRefused(c) PROVE RemovalInv'
  BY <1>10a DEF OwnRefused, Go
<1>11. ASSUME NEW c \in Creators, Own(c) PROVE RemovalInv'
  BY <1>11 DEF Own, Go
<1>12. ASSUME NEW c \in Creators, Disown(c) PROVE RemovalInv'
  BY <1>12 DEF Disown, Go
<1>13. ASSUME NEW d \in Deleters, NEW r \in Creators, FindSlot(d, r) PROVE RemovalInv'
  BY <1>13 DEF FindSlot, Go
<1>14. ASSUME NEW d \in Deleters, LockRun(d) PROVE RemovalInv'
  BY <1>14 DEF LockRun, Go
<1>15. ASSUME NEW d \in Deleters, CheckOwner(d) PROVE RemovalInv'
  BY <1>15 DEF CheckOwner, Go
<1>16. ASSUME NEW d \in Deleters, RemoveEntries(d) PROVE RemovalInv'
  BY <1>16 DEF RemoveEntries, Go
<1>16a. ASSUME NEW d \in Deleters, RemoveEntry(d) PROVE RemovalInv'
  BY <1>16a DEF RemoveEntry
<1>17. ASSUME NEW d \in Deleters, RemoveDirectory(d) PROVE RemovalInv'
  BY <1>17 DEF RemoveDirectory, Go
<1>18. ASSUME NEW d \in Deleters, SlotCheck(d) PROVE RemovalInv'
  BY <1>18 DEF SlotCheck, Go
<1>19. ASSUME NEW d \in Deleters, SlotRemove(d) PROVE RemovalInv'
  BY <1>19 DEF SlotRemove, RemoveSlot, Go
<1>20. ASSUME NEW p \in Creators \cup Deleters, Kill(p) PROVE RemovalInv'
  BY <1>20 DEF Kill
<1>21. CASE UNCHANGED vars
  BY <1>21 DEF vars
<1> QED
  BY <1>1, <1>2, <1>3, <1>4, <1>5, <1>6, <1>7, <1>8, <1>9, <1>10, <1>10a, <1>11, <1>12, <1>13, <1>14,
     <1>15, <1>16, <1>16a, <1>17, <1>18, <1>19, <1>20, <1>21 DEF Next, Create, Delete

LEMMA StepLock ==
  ASSUME OwnershipInv, [Next]_vars
  PROVE  LockInv'
<1> USE RunCapacityAssumption DEF OwnershipInv, TypeOK, store, creation, deletion, TargetInv, BirthInv, RemovalInv, LockInv, Removed, Retained, Placing
<1>1. ASSUME NEW c \in Creators, ReadRuns(c) PROVE LockInv'
  BY <1>1 DEF ReadRuns, Go
<1>2. ASSUME NEW c \in Creators, ListSlots(c) PROVE LockInv'
  BY <1>2 DEF ListSlots, Go
<1>3. ASSUME NEW c \in Creators, NEW i \in Slots, ReadSlot(c, i) PROVE LockInv'
  BY <1>3 DEF ReadSlot
<1>4. ASSUME NEW c \in Creators, Admission(c) PROVE LockInv'
  BY <1>4 DEF Admission, Go
<1>5. ASSUME NEW c \in Creators, LinkSlot(c) PROVE LockInv'
  BY <1>5 DEF LinkSlot, Go
<1>6. ASSUME NEW c \in Creators, Publish(c) PROVE LockInv'
  BY <1>6 DEF Publish, Go
<1>7. ASSUME NEW c \in Creators, PublishFails(c) PROVE LockInv'
  BY <1>7 DEF PublishFails, Go
<1>8. ASSUME NEW c \in Creators, UndoCheck(c) PROVE LockInv'
  BY <1>8 DEF UndoCheck, Go
<1>9. ASSUME NEW c \in Creators, UndoRemove(c) PROVE LockInv'
  BY <1>9 DEF UndoRemove, RemoveSlot, Go
<1>10. ASSUME NEW c \in Creators, OwnLock(c) PROVE LockInv'
  BY <1>10 DEF OwnLock, Go
<1>10a. ASSUME NEW c \in Creators, OwnRefused(c) PROVE LockInv'
  BY <1>10a DEF OwnRefused, Go
<1>11. ASSUME NEW c \in Creators, Own(c) PROVE LockInv'
  BY <1>11 DEF Own, Go
<1>12. ASSUME NEW c \in Creators, Disown(c) PROVE LockInv'
  BY <1>12 DEF Disown, Go
<1>13. ASSUME NEW d \in Deleters, NEW r \in Creators, FindSlot(d, r) PROVE LockInv'
  BY <1>13 DEF FindSlot, Go
<1>14. ASSUME NEW d \in Deleters, LockRun(d) PROVE LockInv'
  BY <1>14 DEF LockRun, Go
<1>15. ASSUME NEW d \in Deleters, CheckOwner(d) PROVE LockInv'
  BY <1>15 DEF CheckOwner, Go
<1>16. ASSUME NEW d \in Deleters, RemoveEntries(d) PROVE LockInv'
  BY <1>16 DEF RemoveEntries, Go
<1>16a. ASSUME NEW d \in Deleters, RemoveEntry(d) PROVE LockInv'
  BY <1>16a DEF RemoveEntry
<1>17. ASSUME NEW d \in Deleters, RemoveDirectory(d) PROVE LockInv'
  BY <1>17 DEF RemoveDirectory, Go
<1>18. ASSUME NEW d \in Deleters, SlotCheck(d) PROVE LockInv'
  BY <1>18 DEF SlotCheck, Go
<1>19. ASSUME NEW d \in Deleters, SlotRemove(d) PROVE LockInv'
  BY <1>19 DEF SlotRemove, RemoveSlot, Go
<1>20. ASSUME NEW p \in Creators \cup Deleters, Kill(p) PROVE LockInv'
  BY <1>20 DEF Kill
<1>21. CASE UNCHANGED vars
  BY <1>21 DEF vars
<1> QED
  BY <1>1, <1>2, <1>3, <1>4, <1>5, <1>6, <1>7, <1>8, <1>9, <1>10, <1>10a, <1>11, <1>12, <1>13, <1>14,
     <1>15, <1>16, <1>16a, <1>17, <1>18, <1>19, <1>20, <1>21 DEF Next, Create, Delete

LEMMA StepOwnership ==
  ASSUME OwnershipInv, [Next]_vars
  PROVE  OwnershipInv'
<1>1. TypeOK'
  BY StepTypeOK DEF OwnershipInv
<1> QED
  BY <1>1, StepTarget, StepBirth, StepRemoval, StepLock DEF OwnershipInv

-----------------------------------------------------------------------------
LEMMA StepPlace ==
  ASSUME CreatorsGone, OneDeletion, OwnershipInv, SlotInv, [Next]_vars
  PROVE  PlaceInv'
<1> USE RunCapacityAssumption DEF OneDeletion, OwnershipInv, TypeOK, TargetInv, SlotInv, store, creation, deletion, BirthInv, PlaceInv, OneSlotEach, DeleterInv, HasSlot, Early, Placing, Late
<1>1. ASSUME NEW c \in Creators, ReadRuns(c) PROVE PlaceInv'
  BY <1>1 DEF ReadRuns, Go
<1>2. ASSUME NEW c \in Creators, ListSlots(c) PROVE PlaceInv'
  BY <1>2 DEF ListSlots, Go
<1>3. ASSUME NEW c \in Creators, NEW i \in Slots, ReadSlot(c, i) PROVE PlaceInv'
  BY <1>3 DEF ReadSlot
<1>4. ASSUME NEW c \in Creators, Admission(c) PROVE PlaceInv'
  BY <1>4 DEF Admission, Go
<1>5. ASSUME NEW c \in Creators, LinkSlot(c) PROVE PlaceInv'
  <2>1. CASE index[c] < limit[c] /\ slot[index[c]] = None
    <3>1. index[c] \in Slots
      BY <2>1 DEF Slots
    <3>2. slot' = [slot EXCEPT ![index[c]] = c] /\ index' = index
      BY <1>5, <2>1 DEF LinkSlot
    <3>3. pc' = [pc EXCEPT ![c] = "publish"] /\ pc[c] = "link"
      BY <1>5, <2>1 DEF LinkSlot, Go
    <3> QED
      BY <2>1, <3>1, <3>2, <3>3
  <2>2. CASE ~(index[c] < limit[c] /\ slot[index[c]] = None)
    <3>1. slot' = slot
      BY <1>5, <2>2 DEF LinkSlot
    <3>2. pc' = pc \/ pc' = [pc EXCEPT ![c] = "refused"]
      BY <1>5, <2>2 DEF LinkSlot, Go
    <3>3. pc[c] = "link" /\ \A x \in Creators : x # c => index'[x] = index[x]
      BY <1>5, <2>2 DEF LinkSlot, Go
    <3> QED
      BY <3>1, <3>2, <3>3
  <2> QED
    BY <2>1, <2>2
<1>6. ASSUME NEW c \in Creators, Publish(c) PROVE PlaceInv'
  BY <1>6 DEF Publish, Go
<1>7. ASSUME NEW c \in Creators, PublishFails(c) PROVE PlaceInv'
  BY <1>7 DEF PublishFails, Go
<1>8. ASSUME NEW c \in Creators, UndoCheck(c) PROVE PlaceInv'
  BY <1>8 DEF UndoCheck, Go
<1>9. ASSUME NEW c \in Creators, UndoRemove(c) PROVE PlaceInv'
  BY <1>9 DEF UndoRemove, RemoveSlot, Go
<1>10. ASSUME NEW c \in Creators, OwnLock(c) PROVE PlaceInv'
  BY <1>10 DEF OwnLock, Go
<1>10a. ASSUME NEW c \in Creators, OwnRefused(c) PROVE PlaceInv'
  BY <1>10a DEF OwnRefused, Go
<1>11. ASSUME NEW c \in Creators, Own(c) PROVE PlaceInv'
  BY <1>11 DEF Own, Go
<1>12. ASSUME NEW c \in Creators, Disown(c) PROVE PlaceInv'
  BY <1>12 DEF Disown, Go
<1>13. ASSUME NEW d \in Deleters, NEW r \in Creators, FindSlot(d, r) PROVE PlaceInv'
  BY <1>13 DEF FindSlot, Go
<1>14. ASSUME NEW d \in Deleters, LockRun(d) PROVE PlaceInv'
  BY <1>14 DEF LockRun, Go
<1>15. ASSUME NEW d \in Deleters, CheckOwner(d) PROVE PlaceInv'
  BY <1>15 DEF CheckOwner, Go
<1>16. ASSUME NEW d \in Deleters, RemoveEntries(d) PROVE PlaceInv'
  BY <1>16 DEF RemoveEntries, Go
<1>16a. ASSUME NEW d \in Deleters, RemoveEntry(d) PROVE PlaceInv'
  BY <1>16a DEF RemoveEntry
<1>17. ASSUME NEW d \in Deleters, RemoveDirectory(d) PROVE PlaceInv'
  BY <1>17 DEF RemoveDirectory, Go
<1>18. ASSUME NEW d \in Deleters, SlotCheck(d) PROVE PlaceInv'
  BY <1>18 DEF SlotCheck, Go
<1>19. ASSUME NEW d \in Deleters, SlotRemove(d) PROVE PlaceInv'
  <2>1. /\ pc[d] = "slotRemove" /\ pc' = [pc EXCEPT ![d] = "idle"]
        /\ slot' = [slot EXCEPT ![found[d]] = None]
        /\ UNCHANGED <<dir, owned, lock, creation, deletion>>
    BY <1>19 DEF SlotRemove, RemoveSlot, Go
  <2>2. /\ target[d] \notin Retained /\ pc[target[d]] \in Late
        /\ found[d] \in Slots /\ slot[found[d]] = target[d]
    BY <2>1
  <2>3. \A c \in Creators : pc'[c] = pc[c] /\ index'[c] = index[c]
    BY <2>1
  <2>4. \A i \in Slots : i # found[d] => slot'[i] = slot[i]
    BY <2>1
  <2> QED
    BY <2>1, <2>2, <2>3, <2>4
<1>20. ASSUME NEW p \in Creators \cup Deleters, Kill(p) PROVE PlaceInv'
  BY <1>20 DEF Kill
<1>21. CASE UNCHANGED vars
  BY <1>21 DEF vars
<1> QED
  BY <1>1, <1>2, <1>3, <1>4, <1>5, <1>6, <1>7, <1>8, <1>9, <1>10, <1>10a, <1>11, <1>12, <1>13, <1>14,
     <1>15, <1>16, <1>16a, <1>17, <1>18, <1>19, <1>20, <1>21 DEF Next, Create, Delete

LEMMA StepOneSlot ==
  ASSUME CreatorsGone, OneDeletion, OwnershipInv, SlotInv, [Next]_vars
  PROVE  OneSlotEach'
<1> USE RunCapacityAssumption DEF OneDeletion, OwnershipInv, TypeOK, TargetInv, SlotInv, store, creation, deletion, PlaceInv, OneSlotEach, HasSlot, Early
<1>1. ASSUME NEW c \in Creators, ReadRuns(c) PROVE OneSlotEach'
  BY <1>1 DEF ReadRuns, Go
<1>2. ASSUME NEW c \in Creators, ListSlots(c) PROVE OneSlotEach'
  BY <1>2 DEF ListSlots, Go
<1>3. ASSUME NEW c \in Creators, NEW i \in Slots, ReadSlot(c, i) PROVE OneSlotEach'
  BY <1>3 DEF ReadSlot
<1>4. ASSUME NEW c \in Creators, Admission(c) PROVE OneSlotEach'
  BY <1>4 DEF Admission, Go
<1>5. ASSUME NEW c \in Creators, LinkSlot(c) PROVE OneSlotEach'
  BY <1>5 DEF LinkSlot, Go
<1>6. ASSUME NEW c \in Creators, Publish(c) PROVE OneSlotEach'
  BY <1>6 DEF Publish, Go
<1>7. ASSUME NEW c \in Creators, PublishFails(c) PROVE OneSlotEach'
  BY <1>7 DEF PublishFails, Go
<1>8. ASSUME NEW c \in Creators, UndoCheck(c) PROVE OneSlotEach'
  BY <1>8 DEF UndoCheck, Go
<1>9. ASSUME NEW c \in Creators, UndoRemove(c) PROVE OneSlotEach'
  BY <1>9 DEF UndoRemove, RemoveSlot, Go
<1>10. ASSUME NEW c \in Creators, OwnLock(c) PROVE OneSlotEach'
  BY <1>10 DEF OwnLock, Go
<1>10a. ASSUME NEW c \in Creators, OwnRefused(c) PROVE OneSlotEach'
  BY <1>10a DEF OwnRefused, Go
<1>11. ASSUME NEW c \in Creators, Own(c) PROVE OneSlotEach'
  BY <1>11 DEF Own, Go
<1>12. ASSUME NEW c \in Creators, Disown(c) PROVE OneSlotEach'
  BY <1>12 DEF Disown, Go
<1>13. ASSUME NEW d \in Deleters, NEW r \in Creators, FindSlot(d, r) PROVE OneSlotEach'
  BY <1>13 DEF FindSlot, Go
<1>14. ASSUME NEW d \in Deleters, LockRun(d) PROVE OneSlotEach'
  BY <1>14 DEF LockRun, Go
<1>15. ASSUME NEW d \in Deleters, CheckOwner(d) PROVE OneSlotEach'
  BY <1>15 DEF CheckOwner, Go
<1>16. ASSUME NEW d \in Deleters, RemoveEntries(d) PROVE OneSlotEach'
  BY <1>16 DEF RemoveEntries, Go
<1>16a. ASSUME NEW d \in Deleters, RemoveEntry(d) PROVE OneSlotEach'
  BY <1>16a DEF RemoveEntry
<1>17. ASSUME NEW d \in Deleters, RemoveDirectory(d) PROVE OneSlotEach'
  BY <1>17 DEF RemoveDirectory, Go
<1>18. ASSUME NEW d \in Deleters, SlotCheck(d) PROVE OneSlotEach'
  BY <1>18 DEF SlotCheck, Go
<1>19. ASSUME NEW d \in Deleters, SlotRemove(d) PROVE OneSlotEach'
  BY <1>19 DEF SlotRemove, RemoveSlot, Go
<1>20. ASSUME NEW p \in Creators \cup Deleters, Kill(p) PROVE OneSlotEach'
  BY <1>20 DEF Kill
<1>21. CASE UNCHANGED vars
  BY <1>21 DEF vars
<1> QED
  BY <1>1, <1>2, <1>3, <1>4, <1>5, <1>6, <1>7, <1>8, <1>9, <1>10, <1>10a, <1>11, <1>12, <1>13, <1>14,
     <1>15, <1>16, <1>16a, <1>17, <1>18, <1>19, <1>20, <1>21 DEF Next, Create, Delete

LEMMA StepHeld ==
  ASSUME CreatorsGone, OneDeletion, OwnershipInv, SlotInv, [Next]_vars
  PROVE  Held'
<1> USE RunCapacityAssumption DEF OneDeletion, OwnershipInv, TypeOK, TargetInv, SlotInv, store, creation, deletion, BirthInv, RemovalInv, PlaceInv, OneSlotEach, Held, DeleterInv, HasSlot, Retained, Removed, Placing
<1>1. ASSUME NEW c \in Creators, ReadRuns(c) PROVE Held'
  BY <1>1 DEF ReadRuns, Go
<1>2. ASSUME NEW c \in Creators, ListSlots(c) PROVE Held'
  BY <1>2 DEF ListSlots, Go
<1>3. ASSUME NEW c \in Creators, NEW i \in Slots, ReadSlot(c, i) PROVE Held'
  BY <1>3 DEF ReadSlot
<1>4. ASSUME NEW c \in Creators, Admission(c) PROVE Held'
  BY <1>4 DEF Admission, Go
<1>5. ASSUME NEW c \in Creators, LinkSlot(c) PROVE Held'
  BY <1>5 DEF LinkSlot, Go
<1>6. ASSUME NEW c \in Creators, Publish(c) PROVE Held'
  BY <1>6 DEF Publish, Go
<1>7. ASSUME NEW c \in Creators, PublishFails(c) PROVE Held'
  BY <1>7 DEF PublishFails, Go
<1>8. ASSUME NEW c \in Creators, UndoCheck(c) PROVE Held'
  BY <1>8 DEF UndoCheck, Go
<1>9. ASSUME NEW c \in Creators, UndoRemove(c) PROVE Held'
  BY <1>9 DEF UndoRemove, RemoveSlot, Go
<1>10. ASSUME NEW c \in Creators, OwnLock(c) PROVE Held'
  BY <1>10 DEF OwnLock, Go
<1>10a. ASSUME NEW c \in Creators, OwnRefused(c) PROVE Held'
  BY <1>10a DEF OwnRefused, Go
<1>11. ASSUME NEW c \in Creators, Own(c) PROVE Held'
  BY <1>11 DEF Own, Go
<1>12. ASSUME NEW c \in Creators, Disown(c) PROVE Held'
  BY <1>12 DEF Disown, Go
<1>13. ASSUME NEW d \in Deleters, NEW r \in Creators, FindSlot(d, r) PROVE Held'
  BY <1>13 DEF FindSlot, Go
<1>14. ASSUME NEW d \in Deleters, LockRun(d) PROVE Held'
  BY <1>14 DEF LockRun, Go
<1>15. ASSUME NEW d \in Deleters, CheckOwner(d) PROVE Held'
  BY <1>15 DEF CheckOwner, Go
<1>16. ASSUME NEW d \in Deleters, RemoveEntries(d) PROVE Held'
  BY <1>16 DEF RemoveEntries, Go
<1>16a. ASSUME NEW d \in Deleters, RemoveEntry(d) PROVE Held'
  BY <1>16a DEF RemoveEntry
<1>17. ASSUME NEW d \in Deleters, RemoveDirectory(d) PROVE Held'
  BY <1>17 DEF RemoveDirectory, Go
<1>18. ASSUME NEW d \in Deleters, SlotCheck(d) PROVE Held'
  BY <1>18 DEF SlotCheck, Go
<1>19. ASSUME NEW d \in Deleters, SlotRemove(d) PROVE Held'
  BY <1>19 DEF SlotRemove, RemoveSlot, Go
<1>20. ASSUME NEW p \in Creators \cup Deleters, Kill(p) PROVE Held'
  BY <1>20 DEF Kill
<1>21. CASE UNCHANGED vars
  BY <1>21 DEF vars
<1> QED
  BY <1>1, <1>2, <1>3, <1>4, <1>5, <1>6, <1>7, <1>8, <1>9, <1>10, <1>10a, <1>11, <1>12, <1>13, <1>14,
     <1>15, <1>16, <1>16a, <1>17, <1>18, <1>19, <1>20, <1>21 DEF Next, Create, Delete

LEMMA StepDeleter ==
  ASSUME CreatorsGone, OneDeletion, OwnershipInv, SlotInv, [Next]_vars
  PROVE  DeleterInv'
<1> USE RunCapacityAssumption DEF OneDeletion, OwnershipInv, TypeOK, TargetInv, SlotInv, store, creation, deletion, BirthInv, RemovalInv, PlaceInv, DeleterInv, HasSlot, Retained, Removed, Early, Placing, Late
<1>1. ASSUME NEW c \in Creators, ReadRuns(c) PROVE DeleterInv'
  BY <1>1 DEF ReadRuns, Go
<1>2. ASSUME NEW c \in Creators, ListSlots(c) PROVE DeleterInv'
  BY <1>2 DEF ListSlots, Go
<1>3. ASSUME NEW c \in Creators, NEW i \in Slots, ReadSlot(c, i) PROVE DeleterInv'
  BY <1>3 DEF ReadSlot
<1>4. ASSUME NEW c \in Creators, Admission(c) PROVE DeleterInv'
  BY <1>4 DEF Admission, Go
<1>5. ASSUME NEW c \in Creators, LinkSlot(c) PROVE DeleterInv'
  BY <1>5 DEF LinkSlot, Go
<1>6. ASSUME NEW c \in Creators, Publish(c) PROVE DeleterInv'
  BY <1>6 DEF Publish, Go
<1>7. ASSUME NEW c \in Creators, PublishFails(c) PROVE DeleterInv'
  BY <1>7 DEF PublishFails, Go
<1>8. ASSUME NEW c \in Creators, UndoCheck(c) PROVE DeleterInv'
  BY <1>8 DEF UndoCheck, Go
<1>9. ASSUME NEW c \in Creators, UndoRemove(c) PROVE DeleterInv'
  BY <1>9 DEF UndoRemove, RemoveSlot, Go
<1>10. ASSUME NEW c \in Creators, OwnLock(c) PROVE DeleterInv'
  BY <1>10 DEF OwnLock, Go
<1>10a. ASSUME NEW c \in Creators, OwnRefused(c) PROVE DeleterInv'
  BY <1>10a DEF OwnRefused, Go
<1>11. ASSUME NEW c \in Creators, Own(c) PROVE DeleterInv'
  BY <1>11 DEF Own, Go
<1>12. ASSUME NEW c \in Creators, Disown(c) PROVE DeleterInv'
  BY <1>12 DEF Disown, Go
<1>13. ASSUME NEW d \in Deleters, NEW r \in Creators, FindSlot(d, r) PROVE DeleterInv'
  BY <1>13 DEF FindSlot, Deletable, CreatorPoints, Finished, Go
<1>14. ASSUME NEW d \in Deleters, LockRun(d) PROVE DeleterInv'
  BY <1>14 DEF LockRun, Go
<1>15. ASSUME NEW d \in Deleters, CheckOwner(d) PROVE DeleterInv'
  <2>1. /\ pc[d] = "check"
        /\ pc' = [pc EXCEPT ![d] = "remove"] \/ pc' = [pc EXCEPT ![d] = "idle"]
        /\ UNCHANGED <<dir, slot, owned, creation, deletion>>
    BY <1>15 DEF CheckOwner, Go
  <2>2. \A x \in Creators \cup Deleters : x # d => pc'[x] = pc[x]
    BY <2>1
  <2>3. pc'[d] \in {"remove", "idle"}
    BY <2>1
  <2>4. dir' = dir /\ slot' = slot /\ target' = target /\ found' = found
    BY <2>1
  <2> QED
    BY <2>1, <2>2, <2>3, <2>4
<1>16. ASSUME NEW d \in Deleters, RemoveEntries(d) PROVE DeleterInv'
  BY <1>16 DEF RemoveEntries, Go
<1>16a. ASSUME NEW d \in Deleters, RemoveEntry(d) PROVE DeleterInv'
  BY <1>16a DEF RemoveEntry
<1>17. ASSUME NEW d \in Deleters, RemoveDirectory(d) PROVE DeleterInv'
  BY <1>17 DEF RemoveDirectory, Go
<1>18. ASSUME NEW d \in Deleters, SlotCheck(d) PROVE DeleterInv'
  BY <1>18 DEF SlotCheck, Go
<1>19. ASSUME NEW d \in Deleters, SlotRemove(d) PROVE DeleterInv'
  BY <1>19 DEF SlotRemove, RemoveSlot, Go
<1>20. ASSUME NEW p \in Creators \cup Deleters, Kill(p) PROVE DeleterInv'
  BY <1>20 DEF Kill
<1>21. CASE UNCHANGED vars
  BY <1>21 DEF vars
<1> QED
  BY <1>1, <1>2, <1>3, <1>4, <1>5, <1>6, <1>7, <1>8, <1>9, <1>10, <1>10a, <1>11, <1>12, <1>13, <1>14,
     <1>15, <1>16, <1>16a, <1>17, <1>18, <1>19, <1>20, <1>21 DEF Next, Create, Delete

LEMMA StepFound ==
  ASSUME CreatorsGone, OneDeletion, OwnershipInv, SlotInv, [Next]_vars
  PROVE  FoundInv'
<1> USE RunCapacityAssumption DEF OneDeletion, OwnershipInv, TypeOK, TargetInv, SlotInv, store, creation, deletion, OneSlotEach, DeleterInv, FoundInv, HasSlot, Early, Late
<1>1. ASSUME NEW c \in Creators, ReadRuns(c) PROVE FoundInv'
  BY <1>1 DEF ReadRuns, Go
<1>2. ASSUME NEW c \in Creators, ListSlots(c) PROVE FoundInv'
  BY <1>2 DEF ListSlots, Go
<1>3. ASSUME NEW c \in Creators, NEW i \in Slots, ReadSlot(c, i) PROVE FoundInv'
  BY <1>3 DEF ReadSlot
<1>4. ASSUME NEW c \in Creators, Admission(c) PROVE FoundInv'
  BY <1>4 DEF Admission, Go
<1>5. ASSUME NEW c \in Creators, LinkSlot(c) PROVE FoundInv'
  BY <1>5 DEF LinkSlot, Go
<1>6. ASSUME NEW c \in Creators, Publish(c) PROVE FoundInv'
  BY <1>6 DEF Publish, Go
<1>7. ASSUME NEW c \in Creators, PublishFails(c) PROVE FoundInv'
  BY <1>7 DEF PublishFails, Go
<1>8. ASSUME NEW c \in Creators, UndoCheck(c) PROVE FoundInv'
  BY <1>8 DEF UndoCheck, Go
<1>9. ASSUME NEW c \in Creators, UndoRemove(c) PROVE FoundInv'
  BY <1>9 DEF UndoRemove, RemoveSlot, Go
<1>10. ASSUME NEW c \in Creators, OwnLock(c) PROVE FoundInv'
  BY <1>10 DEF OwnLock, Go
<1>10a. ASSUME NEW c \in Creators, OwnRefused(c) PROVE FoundInv'
  BY <1>10a DEF OwnRefused, Go
<1>11. ASSUME NEW c \in Creators, Own(c) PROVE FoundInv'
  BY <1>11 DEF Own, Go
<1>12. ASSUME NEW c \in Creators, Disown(c) PROVE FoundInv'
  BY <1>12 DEF Disown, Go
<1>13. ASSUME NEW d \in Deleters, NEW r \in Creators, FindSlot(d, r) PROVE FoundInv'
  BY <1>13 DEF FindSlot, Go
<1>14. ASSUME NEW d \in Deleters, LockRun(d) PROVE FoundInv'
  BY <1>14 DEF LockRun, Go
<1>15. ASSUME NEW d \in Deleters, CheckOwner(d) PROVE FoundInv'
  BY <1>15 DEF CheckOwner, Go
<1>16. ASSUME NEW d \in Deleters, RemoveEntries(d) PROVE FoundInv'
  BY <1>16 DEF RemoveEntries, Go
<1>16a. ASSUME NEW d \in Deleters, RemoveEntry(d) PROVE FoundInv'
  BY <1>16a DEF RemoveEntry
<1>17. ASSUME NEW d \in Deleters, RemoveDirectory(d) PROVE FoundInv'
  BY <1>17 DEF RemoveDirectory, Go
<1>18. ASSUME NEW d \in Deleters, SlotCheck(d) PROVE FoundInv'
  BY <1>18 DEF SlotCheck, Go
<1>19. ASSUME NEW d \in Deleters, SlotRemove(d) PROVE FoundInv'
  BY <1>19 DEF SlotRemove, RemoveSlot, Go
<1>20. ASSUME NEW p \in Creators \cup Deleters, Kill(p) PROVE FoundInv'
  BY <1>20 DEF Kill
<1>21. CASE UNCHANGED vars
  BY <1>21 DEF vars
<1> QED
  BY <1>1, <1>2, <1>3, <1>4, <1>5, <1>6, <1>7, <1>8, <1>9, <1>10, <1>10a, <1>11, <1>12, <1>13, <1>14,
     <1>15, <1>16, <1>16a, <1>17, <1>18, <1>19, <1>20, <1>21 DEF Next, Create, Delete

LEMMA StepStranded ==
  ASSUME CreatorsGone, OneDeletion, OwnershipInv, SlotInv, [Next]_vars
  PROVE  StrandedByInterruption'
<1> USE RunCapacityAssumption DEF OneDeletion, OwnershipInv, TypeOK, TargetInv, SlotInv, store, creation, deletion, BirthInv, RemovalInv, PlaceInv, OneSlotEach, DeleterInv, FoundInv, StrandedByInterruption, Retained, Removed, Placing
<1>1. ASSUME NEW c \in Creators, ReadRuns(c) PROVE StrandedByInterruption'
  BY <1>1 DEF ReadRuns, Go
<1>2. ASSUME NEW c \in Creators, ListSlots(c) PROVE StrandedByInterruption'
  BY <1>2 DEF ListSlots, Go
<1>3. ASSUME NEW c \in Creators, NEW i \in Slots, ReadSlot(c, i) PROVE
   StrandedByInterruption'
  BY <1>3 DEF ReadSlot
<1>4. ASSUME NEW c \in Creators, Admission(c) PROVE StrandedByInterruption'
  BY <1>4 DEF Admission, Go
<1>5. ASSUME NEW c \in Creators, LinkSlot(c) PROVE StrandedByInterruption'
  <2>1. CASE pc' = [pc EXCEPT ![c] = "publish"] /\ slot' = [slot EXCEPT ![index[c]] = c]
    BY <1>5, <2>1 DEF LinkSlot, Go
  <2>2. CASE (pc' = pc \/ pc' = [pc EXCEPT ![c] = "refused"]) /\ slot' = slot
    BY <1>5, <2>2 DEF LinkSlot, Go
  <2>3. \/ pc' = [pc EXCEPT ![c] = "publish"] /\ slot' = [slot EXCEPT ![index[c]] = c]
        \/ (pc' = pc \/ pc' = [pc EXCEPT ![c] = "refused"]) /\ slot' = slot
    BY <1>5 DEF LinkSlot, Go
  <2> QED
    BY <2>1, <2>2, <2>3
<1>6. ASSUME NEW c \in Creators, Publish(c) PROVE StrandedByInterruption'
  BY <1>6 DEF Publish, Go
<1>7. ASSUME NEW c \in Creators, PublishFails(c) PROVE StrandedByInterruption'
  BY <1>7 DEF PublishFails, Go
<1>8. ASSUME NEW c \in Creators, UndoCheck(c) PROVE StrandedByInterruption'
  BY <1>8 DEF UndoCheck, Go
<1>9. ASSUME NEW c \in Creators, UndoRemove(c) PROVE StrandedByInterruption'
  BY <1>9 DEF UndoRemove, RemoveSlot, Go
<1>10. ASSUME NEW c \in Creators, OwnLock(c) PROVE StrandedByInterruption'
  BY <1>10 DEF OwnLock, Go
<1>10a. ASSUME NEW c \in Creators, OwnRefused(c) PROVE StrandedByInterruption'
  BY <1>10a DEF OwnRefused, Go
<1>11. ASSUME NEW c \in Creators, Own(c) PROVE StrandedByInterruption'
  BY <1>11 DEF Own, Go
<1>12. ASSUME NEW c \in Creators, Disown(c) PROVE StrandedByInterruption'
  BY <1>12 DEF Disown, Go
<1>13. ASSUME NEW d \in Deleters, NEW r \in Creators, FindSlot(d, r) PROVE
   StrandedByInterruption'
  BY <1>13 DEF FindSlot, Go
<1>14. ASSUME NEW d \in Deleters, LockRun(d) PROVE StrandedByInterruption'
  BY <1>14 DEF LockRun, Go
<1>15. ASSUME NEW d \in Deleters, CheckOwner(d) PROVE StrandedByInterruption'
  <2>1. /\ pc[d] = "check"
        /\ pc' = [pc EXCEPT ![d] = "remove"] \/ pc' = [pc EXCEPT ![d] = "idle"]
        /\ UNCHANGED <<dir, slot, owned, creation, deletion>>
    BY <1>15 DEF CheckOwner, Go
  <2>2. \A x \in Creators \cup Deleters : x # d => pc'[x] = pc[x]
    BY <2>1
  <2>3. pc'[d] \in {"remove", "idle"}
    BY <2>1
  <2>4. dir' = dir /\ slot' = slot /\ target' = target /\ found' = found
    BY <2>1
  <2> QED
    BY <2>1, <2>2, <2>3, <2>4
<1>16. ASSUME NEW d \in Deleters, RemoveEntries(d) PROVE StrandedByInterruption'
  BY <1>16 DEF RemoveEntries, Go
<1>16a. ASSUME NEW d \in Deleters, RemoveEntry(d) PROVE StrandedByInterruption'
  BY <1>16a DEF RemoveEntry
<1>17. ASSUME NEW d \in Deleters, RemoveDirectory(d) PROVE StrandedByInterruption'
  BY <1>17 DEF RemoveDirectory, Go
<1>18. ASSUME NEW d \in Deleters, SlotCheck(d) PROVE StrandedByInterruption'
  BY <1>18 DEF SlotCheck, Go
<1>19. ASSUME NEW d \in Deleters, SlotRemove(d) PROVE StrandedByInterruption'
  BY <1>19 DEF SlotRemove, RemoveSlot, Go
<1>20. ASSUME NEW p \in Creators \cup Deleters, Kill(p) PROVE StrandedByInterruption'
  BY <1>20 DEF Kill
<1>21. CASE UNCHANGED vars
  BY <1>21 DEF vars
<1> QED
  BY <1>1, <1>2, <1>3, <1>4, <1>5, <1>6, <1>7, <1>8, <1>9, <1>10, <1>10a, <1>11, <1>12, <1>13, <1>14,
     <1>15, <1>16, <1>16a, <1>17, <1>18, <1>19, <1>20, <1>21 DEF Next, Create, Delete

LEMMA StepSlots ==
  ASSUME CreatorsGone, OneDeletion, OwnershipInv, SlotInv, [Next]_vars
  PROVE  SlotInv'
BY StepPlace, StepOneSlot, StepHeld, StepDeleter, StepFound, StepStranded DEF SlotInv

-----------------------------------------------------------------------------
(* Only a deletion takes a published directory away.                        *)
LEMMA UnremovedDirectory ==
  ASSUME TypeOK, BirthInv, [Next]_vars, \A d \in Deleters : ~RemoveEntries(d) /\ ~RemoveDirectory(d),
         NEW r \in Creators, dir[r] = "published"
  PROVE  dir'[r] = "published"
<1> USE DEF TypeOK, store
<1>1. CASE \E c \in Creators : Publish(c)
  BY <1>1 DEF Publish
<1>2. CASE UNCHANGED dir
  BY <1>2
<1>3. CASE UNCHANGED vars
  BY <1>3 DEF vars
<1>4. ASSUME NEW c \in Creators, Create(c) PROVE UNCHANGED dir \/ Publish(c)
  BY <1>4 DEF Create, ReadRuns, ListSlots, ReadSlot, Admission, LinkSlot, PublishFails, UndoCheck,
     UndoRemove, OwnLock, OwnRefused, Own, Disown
<1>5. ASSUME NEW d \in Deleters, Delete(d) PROVE UNCHANGED dir
  BY <1>5 DEF Delete, FindSlot, LockRun, CheckOwner, RemoveEntry, SlotCheck, SlotRemove
<1> QED
  BY <1>1, <1>2, <1>3, <1>4, <1>5 DEF Next, Kill

(* Whoever creates, deletes or is killed.                                   *)
THEOREM OwnershipInvariant == Spec => []OwnershipInv
BY InitOwnership, StepOwnership, PTL DEF Spec

(* Every file and every process' point keeps its type, for any number of    *)
(* creators, slots and operators.                                           *)
THEOREM TypeCorrect == Spec => []TypeOK
<1>1. OwnershipInv => TypeOK
  BY DEF OwnershipInv
<1> QED
  BY <1>1, OwnershipInvariant, PTL

(* deleteRun never begins to remove a run somebody owns, however many       *)
(* operators delete and whatever they find: its check and its first unlink  *)
(* are under the lock that an acquisition needs.                            *)
THEOREM OwnedRunsStay == Spec => RemovalStartsUnowned
<1>1. ASSUME OwnershipInv, [Next]_vars, NEW r \in Creators, dir[r] = "published",
             dir'[r] # "published"
      PROVE  r \notin owned
  <2> USE DEF OwnershipInv, TypeOK
  <2>1. PICK d \in Deleters : RemoveEntries(d) \/ RemoveDirectory(d)
    BY <1>1, UnremovedDirectory
  <2>2. target[d] = r /\ pc[d] \in {"remove", "removing"}
    BY <1>1, <2>1 DEF RemoveEntries, RemoveDirectory, Go
  <2> QED
    BY <1>1, <2>1, <2>2 DEF LockInv, RemovalInv, Removed, RemoveEntries, RemoveDirectory, Go
<1>2. OwnershipInv /\ [Next]_vars
        => [\A r \in Creators : dir[r] = "published" /\ dir'[r] # "published"
              => r \notin owned]_vars
  BY <1>1
<1> QED
  BY <1>2, OwnershipInvariant, PTL DEF Spec, RemovalStartsUnowned

(* The premises name what the code leaves to its operators.                 *)
THEOREM SlotsInvariant ==
  ASSUME CreatorsGone, OneDeletion
  PROVE  Spec => [](OwnershipInv /\ SlotInv)
<1>1. OwnershipInv /\ SlotInv /\ [Next]_vars => SlotInv'
  BY StepSlots
<1> QED
  BY <1>1, InitSlots, OwnershipInvariant, PTL DEF Spec

(* A retained run has exactly one slot, for any number of creators in any   *)
(* order (createRun links before it renames, deleteRun removes the slot     *)
(* last).                                                                   *)
THEOREM RetainedRunsHoldASlot ==
  ASSUME CreatorsGone, OneDeletion
  PROVE  Spec => []RetainedHoldsSlot
<1>1. OwnershipInv /\ SlotInv => RetainedHoldsSlot
  <2> SUFFICES ASSUME OwnershipInv, SlotInv, NEW r \in Retained
               PROVE  Cardinality({i \in Slots : slot[i] = r}) = 1
    BY DEF RetainedHoldsSlot
  <2>1. PICK i \in Slots : slot[i] = r
    BY DEF SlotInv, Held, HasSlot
  <2>2. r # None
    BY RunCapacityAssumption DEF Retained
  <2>3. {j \in Slots : slot[j] = r} = {i}
    BY <2>1, <2>2 DEF SlotInv, OneSlotEach
  <2> QED
    BY <2>3, FS_Singleton
<1> QED
  BY <1>1, SlotsInvariant, PTL

(* No more runs are retained than there are slots, for every capacity and   *)
(* whatever maximumRuns each creator brings.                                *)
THEOREM CapacityIsBounded ==
  ASSUME CreatorsGone, OneDeletion
  PROVE  Spec => []CapacityBound
<1>1. OwnershipInv /\ SlotInv => CapacityBound
  <2> SUFFICES ASSUME SlotInv PROVE CapacityBound
    OBVIOUS
  <2> DEFINE f == [r \in Retained |-> CHOOSE i \in Slots : slot[i] = r]
  <2>1. \A r \in Retained : f[r] \in Slots /\ slot[f[r]] = r
    BY DEF SlotInv, Held, HasSlot
  <2>2. f \in Injection(Retained, Slots)
    BY <2>1 DEF Injection, IsInjective
  <2>3. IsFiniteSet(Slots) /\ Cardinality(Slots) = MaxRuns
    BY RunCapacityAssumption, FS_Interval DEF Slots
  <2> QED
    BY <2>2, <2>3, FS_Injection DEF CapacityBound
<1> QED
  BY <1>1, SlotsInvariant, PTL

(* A slot without a run has an interrupted creation or deletion behind it.  *)
THEOREM StrandingNeedsInterruption ==
  ASSUME CreatorsGone, OneDeletion
  PROVE  Spec => []StrandedByInterruption
<1>1. SlotInv => StrandedByInterruption
  BY DEF SlotInv
<1> QED
  BY <1>1, SlotsInvariant, PTL
=============================================================================
