----------------------------- MODULE RunCapacity -----------------------------
(****************************************************************************)
(* The capacity of a state root (store.ts): createRun, which publishes a    *)
(* run by renaming a directory after claiming a numbered slot file for it,  *)
(* and deleteRun, which removes the directory first and the slot second.    *)
(* Creators and deleters are processes of their own and may be killed       *)
(* anywhere. A step is one filesystem call, or the few that read one file.  *)
(*                                                                          *)
(* A creator creates one run, named after it. What happens inside a run's   *)
(* directory is RunLock's subject: here a run is owned for a while once it  *)
(* is published, and a deleter takes its mutation lock.                     *)
(****************************************************************************)
EXTENDS Naturals, FiniteSets

CONSTANTS
  Creators,       \* processes in createRun; also the ids of their runs
  Deleters,       \* processes in deleteRun
  None,           \* no run, no process
  MaxRuns,        \* RUN_STORE_MAX_RUNS: no limit is larger
  CreatorsGone    \* an unpublished run is deleted only if its creator died

Slots == 0 .. MaxRuns - 1

ASSUME RunCapacityAssumption ==
  /\ Creators \cap Deleters = {}
  /\ None \notin Creators \cup Deleters
  /\ MaxRuns \in Nat \ {0}
  /\ CreatorsGone \in BOOLEAN

VARIABLES
  dir,      \* each run's directory: "none", "published", "dying" or "gone"
  slot,     \* each slot file: the run its record names, or None
  owned,    \* runs with an owner record
  lock,     \* each run's mutation lock: the process holding it, or None
  pc,       \* where each process is
  limit,    \* each creator: its maximumRuns
  seen,     \* each creator: the run ids it read
  listed,   \* each creator: the slot files it still has to read
  claims,   \* each creator: the owners it read, as pairs <<index, run>>
  index,    \* each creator: the slot it tries to link
  target,   \* each deleter: the run it removes
  found     \* each deleter: the slot it found for it, or None

store == <<dir, slot, owned, lock>>
creation == <<limit, seen, listed, claims, index>>
deletion == <<target, found>>
vars == <<store, pc, creation, deletion>>

Retained == {r \in Creators : dir[r] \in {"published", "dying"}}
HasSlot(r) == \E i \in Slots : slot[i] = r

Init ==
  /\ dir = [r \in Creators |-> "none"]
  /\ slot = [i \in Slots |-> None]
  /\ owned = {}
  /\ lock = [r \in Creators |-> None]
  /\ pc = [p \in Creators \cup Deleters |-> IF p \in Creators THEN "scan" ELSE "idle"]
  /\ limit \in [Creators -> 1 .. MaxRuns]
  /\ seen = [c \in Creators |-> {}]
  /\ listed = [c \in Creators |-> {}]
  /\ claims = [c \in Creators |-> {}]
  /\ index = [c \in Creators |-> 0]
  /\ target = [d \in Deleters |-> None]
  /\ found = [d \in Deleters |-> None]

Go(p, from, to) == pc[p] = from /\ pc' = [pc EXCEPT ![p] = to]

-----------------------------------------------------------------------------
(* createRun: claimRunSlot reads the runs, then the slots.                  *)

ReadRuns(c) ==
  /\ Go(c, "scan", "list")
  /\ seen' = [seen EXCEPT ![c] = Retained]
  /\ UNCHANGED <<store, limit, listed, claims, index, deletion>>

ListSlots(c) ==
  /\ Go(c, "list", "read")
  /\ listed' = [listed EXCEPT ![c] = {i \in Slots : slot[i] # None}]
  /\ UNCHANGED <<store, limit, seen, claims, index, deletion>>

(* A slot file that is gone when it is read names no owner.                 *)
ReadSlot(c, i) ==
  /\ pc[c] = "read"
  /\ i \in listed[c]
  /\ listed' = [listed EXCEPT ![c] = @ \ {i}]
  /\ claims' = [claims EXCEPT ![c] = IF slot[i] = None THEN @ ELSE @ \cup {<<i, slot[i]>>}]
  /\ UNCHANGED <<store, pc, limit, seen, index, deletion>>

Owners(c) == {claim[2] : claim \in claims[c]}
Bounded(c) == {claim[2] : claim \in {x \in claims[c] : x[1] < limit[c]}}

(* No published run is beyond the limit, none is without a slot, and fewer  *)
(* than the limit are published. What was read is not looked at again.      *)
Admits(c) ==
  /\ seen[c] \cap Owners(c) \subseteq Bounded(c)
  /\ seen[c] \subseteq Owners(c)
  /\ Cardinality(seen[c]) < limit[c]

Admission(c) ==
  /\ listed[c] = {}
  /\ \/ Admits(c) /\ Go(c, "read", "link")
     \/ ~Admits(c) /\ Go(c, "read", "refused")
  /\ seen' = [seen EXCEPT ![c] = {}]
  /\ claims' = [claims EXCEPT ![c] = {}]
  /\ UNCHANGED <<store, limit, listed, index, deletion>>

(* Deviation: a rename, which replaces a slot another creator linked.       *)
ReplaceSlot(c) ==
  /\ Go(c, "link", "publish")
  /\ slot' = [slot EXCEPT ![index[c]] = c]
  /\ UNCHANGED <<dir, owned, lock, creation, deletion>>

(* linkFirstFreeSlot: the exclusive link of one index after another.        *)
LinkSlot(c) ==
  \/ /\ index[c] < limit[c] /\ slot[index[c]] = None
     /\ Go(c, "link", "publish")
     /\ slot' = [slot EXCEPT ![index[c]] = c]
     /\ UNCHANGED <<dir, owned, lock, creation, deletion>>
  \/ /\ pc[c] = "link"
     /\ index[c] < limit[c] /\ slot[index[c]] # None
     /\ index' = [index EXCEPT ![c] = @ + 1]
     /\ UNCHANGED <<store, pc, limit, seen, listed, claims, deletion>>
  \/ /\ index[c] = limit[c]
     /\ Go(c, "link", "refused")
     /\ UNCHANGED <<store, creation, deletion>>

Publish(c) ==
  /\ Go(c, "publish", "created")
  /\ dir' = [dir EXCEPT ![c] = "published"]
  /\ UNCHANGED <<slot, owned, lock, creation, deletion>>

(* Deviation: a failed rename leaves the slot behind.                       *)
PublishLeaks(c) ==
  /\ Go(c, "publish", "failed")
  /\ UNCHANGED <<store, creation, deletion>>

(* The rename fails: the `finally` block gives the slot back.               *)
PublishFails(c) ==
  /\ Go(c, "publish", "undo")
  /\ UNCHANGED <<store, creation, deletion>>

UndoCheck(c) ==
  /\ pc[c] = "undo"
  /\ Go(c, "undo", IF slot[index[c]] = c THEN "undoRemove" ELSE "failed")
  /\ UNCHANGED <<store, creation, deletion>>

RemoveSlot(i) == slot' = [slot EXCEPT ![i] = None]

UndoRemove(c) ==
  /\ Go(c, "undoRemove", "failed")
  /\ RemoveSlot(index[c])
  /\ UNCHANGED <<dir, owned, lock, creation, deletion>>

(* acquireRunOwnership, and the run is owned while its graph runs. The lock *)
(* may be linked, and the owner recorded, in a directory under removal.     *)
OwnLock(c) ==
  /\ Go(c, "created", "acquiring")
  /\ c \in Retained /\ lock[c] = None
  /\ lock' = [lock EXCEPT ![c] = c]
  /\ UNCHANGED <<dir, slot, owned, creation, deletion>>

(* `locked`, or its manifest or its directory is gone.                      *)
OwnRefused(c) ==
  /\ Go(c, "created", "done")
  /\ lock[c] # None \/ dir[c] # "published"
  /\ UNCHANGED <<store, creation, deletion>>

Own(c) ==
  /\ \/ c \in Retained /\ Go(c, "acquiring", "owning") /\ owned' = owned \cup {c}
     \/ c \notin Retained /\ Go(c, "acquiring", "done") /\ UNCHANGED owned
  /\ lock' = [lock EXCEPT ![c] = None]
  /\ UNCHANGED <<dir, slot, creation, deletion>>

Disown(c) ==
  /\ Go(c, "owning", "done")
  /\ lock[c] = None
  /\ owned' = owned \ {c}
  /\ UNCHANGED <<dir, slot, lock, creation, deletion>>

-----------------------------------------------------------------------------
(* deleteRun. The caller names a run it could have been shown: published,   *)
(* or holding a slot without a directory (listRetainedRuns).                *)

Deletable(r) ==
  \/ r \in Retained
  \/ HasSlot(r) /\ (CreatorsGone => pc[r] \in {"dead", "done", "created", "acquiring", "owning"})

(* findRunSlot: a run's slot never moves, so reading the files one by one   *)
(* amounts to looking for it at one moment.                                 *)
FindSlot(d, r) ==
  /\ Deletable(r)
  /\ Go(d, "idle", "lock")
  /\ target' = [target EXCEPT ![d] = r]
  /\ found' = [found EXCEPT ![d] =
       IF HasSlot(r) THEN CHOOSE i \in Slots : slot[i] = r ELSE None]
  /\ UNCHANGED <<store, creation>>

(* acquireRunMutationLock: `locked`, or `not_found` without a directory,    *)
(* which leaves only a stranded slot to release.                            *)
LockRun(d) ==
  LET r == target[d]
  IN  \/ /\ r \in Retained /\ lock[r] = None
         /\ Go(d, "lock", "check")
         /\ lock' = [lock EXCEPT ![r] = d]
         /\ UNCHANGED <<dir, slot, owned, creation, deletion>>
      \/ /\ r \in Retained /\ lock[r] # None
         /\ Go(d, "lock", "idle")
         /\ UNCHANGED <<store, creation, deletion>>
      \/ /\ r \notin Retained
         /\ Go(d, "lock", "slotCheck")
         /\ UNCHANGED <<store, creation, deletion>>

(* runHasOwner: a refusal releases the lock.                                *)
CheckOwner(d) ==
  \/ /\ target[d] \notin owned
     /\ Go(d, "check", "remove")
     /\ UNCHANGED <<store, creation, deletion>>
  \/ /\ target[d] \in owned
     /\ Go(d, "check", "idle")
     /\ lock' = [lock EXCEPT ![target[d]] = None]
     /\ UNCHANGED <<dir, slot, owned, creation, deletion>>

(* Deviation: the slot goes before the directory.                           *)
RemoveSlotFirst(d) ==
  /\ Go(d, "remove", "removing")
  /\ IF found[d] = None THEN UNCHANGED slot ELSE RemoveSlot(found[d])
  /\ UNCHANGED <<dir, owned, lock, creation, deletion>>

(* rm -r: entries go first, the lock and an owner record among them, one by *)
(* one and again when new ones appear, and at last the directory itself.    *)
(* Another deleter may be in the same directory.                            *)
RemoveEntries(d) ==
  /\ Go(d, "remove", "removing")
  /\ dir' = [dir EXCEPT ![target[d]] = IF @ = "gone" THEN "gone" ELSE "dying"]
  /\ UNCHANGED <<slot, owned, lock, creation, deletion>>

RemoveEntry(d) ==
  /\ pc[d] = "removing"
  /\ \/ lock' = [lock EXCEPT ![target[d]] = None] /\ UNCHANGED owned
     \/ owned' = owned \ {target[d]} /\ UNCHANGED lock
  /\ UNCHANGED <<dir, slot, pc, creation, deletion>>

RemoveDirectory(d) ==
  /\ Go(d, "removing", "slotCheck")
  /\ lock[target[d]] = None /\ target[d] \notin owned
  /\ dir' = [dir EXCEPT ![target[d]] = "gone"]
  /\ UNCHANGED <<slot, owned, lock, creation, deletion>>

(* releaseRunSlot: read the slot's owner, then remove the file.             *)
SlotCheck(d) ==
  /\ Go(d, "slotCheck",
        IF \E i \in Slots : i = found[d] /\ slot[i] = target[d] THEN "slotRemove" ELSE "idle")
  /\ UNCHANGED <<store, creation, deletion>>

SlotRemove(d) ==
  /\ Go(d, "slotRemove", "idle")
  /\ RemoveSlot(found[d])
  /\ UNCHANGED <<dir, owned, lock, creation, deletion>>

-----------------------------------------------------------------------------
Finished == {"refused", "failed", "done", "dead"}

(* SIGKILL. An owner record survives its process; so does a slot.           *)
Kill(p) ==
  /\ pc[p] \notin Finished
  /\ pc' = [pc EXCEPT ![p] = "dead"]
  /\ UNCHANGED <<store, creation, deletion>>

Create(c) ==
  \/ ReadRuns(c) \/ ListSlots(c) \/ \E i \in Slots : ReadSlot(c, i)
  \/ Admission(c) \/ LinkSlot(c)
  \/ Publish(c) \/ PublishFails(c) \/ UndoCheck(c) \/ UndoRemove(c)
  \/ OwnLock(c) \/ OwnRefused(c) \/ Own(c) \/ Disown(c)

Delete(d) ==
  \/ \E r \in Creators : FindSlot(d, r)
  \/ LockRun(d) \/ CheckOwner(d)
  \/ RemoveEntries(d) \/ RemoveEntry(d) \/ RemoveDirectory(d)
  \/ SlotCheck(d) \/ SlotRemove(d)

Next ==
  \/ \E c \in Creators : Create(c) \/ Kill(c)
  \/ \E d \in Deleters : Delete(d) \/ Kill(d)

Spec == Init /\ [][Next]_vars

-----------------------------------------------------------------------------
CreatorPoints == {"scan", "list", "read", "link", "publish", "undo", "undoRemove", "created",
                  "acquiring", "owning"} \cup Finished
DeleterPoints == {"idle", "lock", "check", "remove", "removing", "slotCheck", "slotRemove",
                  "dead"}

TypeOK ==
  /\ dir \in [Creators -> {"none", "published", "dying", "gone"}]
  /\ slot \in [Slots -> Creators \cup {None}]
  /\ owned \subseteq Creators
  /\ lock \in [Creators -> Creators \cup Deleters \cup {None}]
  /\ pc \in [Creators \cup Deleters -> CreatorPoints \cup DeleterPoints]
  /\ \A c \in Creators : pc[c] \in CreatorPoints
  /\ \A d \in Deleters : pc[d] \in DeleterPoints
  /\ limit \in [Creators -> 1 .. MaxRuns]
  /\ seen \in [Creators -> SUBSET Creators]
  /\ listed \in [Creators -> SUBSET Slots]
  /\ claims \in [Creators -> SUBSET (Slots \X Creators)]
  /\ index \in [Creators -> 0 .. MaxRuns]
  /\ target \in [Deleters -> Creators \cup {None}]
  /\ found \in [Deleters -> Slots \cup {None}]

(* The capacity of the store is structural: however creations, deletions    *)
(* and kills interleave, no more runs are retained than there are slots.    *)
CapacityBound == Cardinality(Retained) <= MaxRuns

(* A retained run has a slot of its own. Without it the store admits no     *)
(* new work at all (claimRunSlot), which is why a creator links before it   *)
(* renames and a deleter removes the directory before the slot.             *)
RetainedHoldsSlot == \A r \in Retained : Cardinality({i \in Slots : slot[i] = r}) = 1

(* No operator begins to remove a run that somebody owns: the check of      *)
(* deleteRun and the first unlink are separate calls, and an acquisition    *)
(* never falls between them. (A later one may find the directory under      *)
(* removal, and its record goes with it: RunLock!DeletionExcludesAcquisition *)
(* is refuted by that.)                                                     *)
RemovalStartsUnowned ==
  [][\A r \in Creators : dir[r] = "published" /\ dir'[r] # "published" => r \notin owned]_vars

(* Capacity is stranded only by an interruption: a slot whose run has no    *)
(* directory belongs to a creation or a deletion that still goes on or was  *)
(* killed.                                                                  *)
StrandedByInterruption ==
  \A i \in Slots : slot[i] # None /\ slot[i] \notin Retained =>
    \/ pc[slot[i]] \in {"publish", "undo", "undoRemove", "dead"}
    \/ \E d \in Deleters :
         target[d] = slot[i] /\ pc[d] \in {"lock", "slotCheck", "slotRemove", "dead"}
=============================================================================
