---------------------------- MODULE StoredJournal ----------------------------
(****************************************************************************)
(* A record and the journal it goes to. RecordContents decides whether what *)
(* a worker or an executor drafts is ever stored; Journal, which tells      *)
(* records apart by topic and size only, is followed from the first one     *)
(* that is (Followed).                                                      *)
(****************************************************************************)
EXTENDS Journal, RecordContents

CONSTANT Followed   \* one of Drafts

ASSUME FollowedAssumption == Followed \in Drafts

StoredInit == ContentsInit /\ Init

InJournal == layer = "read" /\ draft = Followed /\ UNCHANGED contents

StoredNext ==
  \/ Record /\ UNCHANGED vars
  \/ InJournal /\ Next

StoredSpec == StoredInit /\ [][StoredNext]_<<vars, contents>>

(* As in Journal: a worker that polls keeps polling.                        *)
StoredFairSpec ==
  /\ StoredSpec
  /\ \A r \in Readers : WF_<<vars, contents>>(InJournal /\ (ListEntries(r) \/ ReadPage(r)))
=============================================================================
