------------------------------- MODULE Journal -------------------------------
(****************************************************************************)
(* The coordination journal of one run (store.ts): workers publish events   *)
(* and messages as files named by a run-global sequence, other workers read *)
(* them page by page behind a cursor.                                       *)
(*                                                                          *)
(* A publication lists the directory, takes the number after the greatest   *)
(* and creates that file exclusively; if it exists meanwhile, it starts     *)
(* over. The mutation lock makes publications of one run exclude each       *)
(* other, as RunLock shows. The comments of the code count with a writer    *)
(* that ignores it (Stray): the journal must stay a log even so.            *)
(*                                                                          *)
(* A read lists the directory and then opens the files, which never change; *)
(* what is published in between is not in the list. A listing is one step:  *)
(* the journal's 256 names fit one read of a directory.                     *)
(****************************************************************************)
EXTENDS Naturals, Sequences, FiniteSets, FiniteSetsExt

CONSTANTS
  Publishers,   \* the workers
  Readers,      \* one per worker and query, each polling with its own cursor
  Topics,       \* what tells records apart for a query: kind, recipient, path
  Wants,        \* Wants[r]: the topics the query of r selects
  MaxRecords,   \* RUN_COORDINATION_MAX_RECORDS
  MaxAttempts,  \* COORDINATION_PUBLISH_ATTEMPTS
  MaxRead,      \* RUN_COORDINATION_MAX_READ
  Sizes,        \* the sizes a record may have
  RecordBytes,  \* RUN_COORDINATION_MAX_RECORD_BYTES
  PageBytes,    \* RUN_COORDINATION_MAX_PAGE_BYTES
  Nobody        \* holds the lock when it is free

ASSUME JournalAssumption ==
  /\ Nobody \notin Publishers
  /\ Wants \in [Readers -> SUBSET Topics]
  /\ {MaxRecords, MaxAttempts, MaxRead, RecordBytes} \subseteq Nat \ {0}
  /\ Sizes \subseteq 1 .. RecordBytes
  /\ PageBytes \in Nat /\ RecordBytes + 2 <= PageBytes

VARIABLES
  journal,    \* the record files: a function from their sequence numbers
  lock,       \* the publisher holding mutation.lock, or Nobody
  pc,         \* where each publisher stands
  sequence,   \* the number each is about to create
  attempt,    \* its attempts so far
  result,     \* how the publication under way ended
  strayed,    \* history: a record was published outside the lock
  cursor,     \* the position each reader polls from, 0 before the first page
  found,      \* the entries its listing returned
  reading,    \* readers between their listing and their page
  delivered   \* delivered[r][n]: how often r was given record n

publisherVars == <<lock, pc, sequence, attempt, result, strayed>>
readerVars == <<cursor, found, reading, delivered>>
vars == <<journal, publisherVars, readerVars>>

Numbers == 1 .. MaxRecords
Entries == [topic : Topics, size : Sizes]

Init ==
  /\ journal = <<>>
  /\ lock = Nobody
  /\ pc = [p \in Publishers |-> "idle"]
  /\ sequence = [p \in Publishers |-> 0]
  /\ attempt = [p \in Publishers |-> 1]
  /\ result = [p \in Publishers |-> "none"]
  /\ strayed = FALSE
  /\ cursor = [r \in Readers |-> 0]
  /\ found = [r \in Readers |-> {}]
  /\ reading = {}
  /\ delivered = [r \in Readers |-> [n \in Numbers |-> 0]]

-----------------------------------------------------------------------------
Go(p, point) == pc' = [pc EXCEPT ![p] = point]

(* withActiveRunPublication, up to its owner check.                         *)
Begin(p) ==
  /\ pc[p] = "idle"
  /\ lock = Nobody /\ lock' = p
  /\ Go(p, "list")
  /\ UNCHANGED <<journal, sequence, attempt, result, strayed, readerVars>>

Published == DOMAIN journal
NextNumber == IF Published = {} THEN 1 ELSE Max(Published) + 1

(* coordinationFiles, then the retained limit or the next number.           *)
List(p) ==
  /\ pc[p] = "list"
  /\ IF Cardinality(Published) >= MaxRecords
     THEN /\ result' = [result EXCEPT ![p] = "full"]
          /\ Go(p, "unlock")
          /\ UNCHANGED sequence
     ELSE /\ sequence' = [sequence EXCEPT ![p] = NextNumber]
          /\ Go(p, "link")
          /\ UNCHANGED result
  /\ UNCHANGED <<journal, lock, attempt, strayed, readerVars>>

Create(n) ==
  \E e \in Entries : journal' = [m \in Published \cup {n} |-> IF m = n THEN e ELSE journal[m]]

(* Deviation: the file is renamed into place, replacing one that exists.    *)
RenameIntoPlace(p) ==
  /\ pc[p] = "link"
  /\ Create(sequence[p])
  /\ result' = [result EXCEPT ![p] = "published"]
  /\ Go(p, "unlock")
  /\ UNCHANGED <<lock, sequence, attempt, strayed, readerVars>>

(* publishRecord links the file under its number, or finds it taken.        *)
Link(p) ==
  /\ pc[p] = "link"
  /\ IF sequence[p] \notin Published
     THEN /\ Create(sequence[p])
          /\ result' = [result EXCEPT ![p] = "published"]
          /\ Go(p, "unlock")
          /\ UNCHANGED attempt
     ELSE IF attempt[p] < MaxAttempts
     THEN /\ attempt' = [attempt EXCEPT ![p] = @ + 1]
          /\ Go(p, "list")
          /\ UNCHANGED <<journal, result>>
     ELSE /\ result' = [result EXCEPT ![p] = "exists"]
          /\ Go(p, "unlock")
          /\ UNCHANGED <<journal, attempt>>
  /\ UNCHANGED <<lock, sequence, strayed, readerVars>>

(* A record over the bound, or a failing write: nothing is left behind.     *)
Refuse(p) ==
  /\ pc[p] = "link"
  /\ result' = [result EXCEPT ![p] = "refused"]
  /\ Go(p, "unlock")
  /\ UNCHANGED <<journal, lock, sequence, attempt, strayed, readerVars>>

(* The call ends, and what it remembers with it.                            *)
EndCall(p, point) ==
  /\ Go(p, point)
  /\ sequence' = [sequence EXCEPT ![p] = 0]
  /\ attempt' = [attempt EXCEPT ![p] = 1]
  /\ result' = [result EXCEPT ![p] = "none"]
  /\ UNCHANGED <<journal, strayed, readerVars>>

Unlock(p) ==
  /\ pc[p] = "unlock"
  /\ lock' = Nobody
  /\ EndCall(p, "idle")

(* The worker is killed; the parent's guard recovers its lock afterwards.   *)
Kill(p) ==
  /\ pc[p] # "dead"
  /\ EndCall(p, "dead")
  /\ UNCHANGED lock

RecoverLock(p) ==
  /\ pc[p] = "dead" /\ lock = p
  /\ lock' = Nobody
  /\ UNCHANGED <<journal, pc, sequence, attempt, result, strayed, readerVars>>

(* A writer outside the lock publishes a record of its own.                 *)
Stray ==
  /\ Cardinality(Published) < MaxRecords
  /\ Create(NextNumber)
  /\ strayed' = TRUE
  /\ UNCHANGED <<lock, pc, sequence, attempt, result, readerVars>>

-----------------------------------------------------------------------------
(* coordinationEntries: the names after the cursor.                         *)
ListEntries(r) ==
  /\ r \notin reading
  /\ reading' = reading \cup {r}
  /\ found' = [found EXCEPT ![r] = {n \in Published : n > cursor[r]}]
  /\ UNCHANGED <<journal, publisherVars, cursor, delivered>>

Selected(r) == {n \in found[r] : journal[n].topic \in Wants[r]}

(* The serialized page: the records, their separators and the brackets.     *)
SizeOf(n) == journal[n].size
Bytes(S) == MapThenSumSet(SizeOf, S) + Cardinality(S) + 1

(* Deviation: a page that fills the bound exactly is held back.             *)
FitsBelow(S, limit) == Cardinality(S) <= limit /\ Bytes(S) < PageBytes

Fits(S, limit) == Cardinality(S) <= limit /\ Bytes(S) <= PageBytes

UpTo(S, n) == {m \in S : m <= n}

(* The records of a page: from the first on, as long as they fit.           *)
Page(r, limit) ==
  {n \in Selected(r) : \A m \in UpTo(Selected(r), n) : Fits(UpTo(Selected(r), m), limit)}

(* Something is left behind the page: a selected record, or any entry once  *)
(* the page has its number of records.                                      *)
HeldBack(r, page, limit) ==
  \/ Selected(r) \ page # {}
  \/ Cardinality(page) >= limit /\ \E n \in found[r] : \A m \in page : n > m

NoCursor == 0

(* Deviation: the cursor runs to the last entry examined, held back or not. *)
CursorOverHeldBack(r, page, limit) == IF found[r] = {} THEN NoCursor ELSE Max(found[r])

NextCursor(r, page, limit) ==
  IF HeldBack(r, page, limit)
  THEN IF page = {} THEN NoCursor ELSE Max(page)
  ELSE IF found[r] = {} \/ Max(found[r]) \in page THEN NoCursor
  ELSE Max(found[r])

(* The caller polls on from the cursor it is given, or from the last record *)
(* it was given when there is none.                                         *)
Position(r, page, next) ==
  IF next # NoCursor THEN next ELSE IF page # {} THEN Max(page) ELSE cursor[r]

ReadPage(r) ==
  /\ r \in reading
  /\ \E limit \in 1 .. MaxRead :
       LET page == Page(r, limit)
       IN  /\ cursor' = [cursor EXCEPT ![r] = Position(r, page, NextCursor(r, page, limit))]
           /\ delivered' =
                [delivered EXCEPT ![r] = [n \in Numbers |->
                   IF n \in page THEN delivered[r][n] + 1 ELSE delivered[r][n]]]
  /\ reading' = reading \ {r}
  /\ found' = [found EXCEPT ![r] = {}]
  /\ UNCHANGED <<journal, publisherVars>>

Next ==
  \/ \E p \in Publishers :
       Begin(p) \/ List(p) \/ Link(p) \/ Refuse(p) \/ Unlock(p) \/ Kill(p) \/ RecoverLock(p)
  \/ Stray
  \/ \E r \in Readers : ListEntries(r) \/ ReadPage(r)

Spec == Init /\ [][Next]_vars

(* A worker that polls keeps polling, and each of its calls returns.        *)
FairSpec == Spec /\ \A r \in Readers : WF_vars(ListEntries(r) \/ ReadPage(r))

-----------------------------------------------------------------------------
TypeOK ==
  /\ DOMAIN journal \subseteq Numbers
  /\ \A n \in DOMAIN journal : journal[n] \in Entries
  /\ lock \in Publishers \cup {Nobody}
  /\ pc \in [Publishers -> {"idle", "list", "link", "unlock", "dead"}]
  /\ sequence \in [Publishers -> 0 .. MaxRecords]
  /\ attempt \in [Publishers -> 1 .. MaxAttempts]
  /\ result \in [Publishers -> {"none", "published", "full", "exists", "refused"}]
  /\ strayed \in BOOLEAN
  /\ cursor \in [Readers -> 0 .. MaxRecords]
  /\ found \in [Readers -> SUBSET Numbers]
  /\ reading \subseteq Readers
  /\ delivered \in [Readers -> [Numbers -> Nat]]

(* The journal is a log: its numbers have no gap, a record once published   *)
(* never changes, and only the retained limit ends it. No lock is needed    *)
(* for that, because a number is taken and its record published at once.    *)
Log == INSTANCE EventLog WITH log <- journal
JournalIsLog == Log!Spec

(* A reader is given every record it selects up to its cursor exactly once, *)
(* and none beyond it, wherever pages end and whatever is published while   *)
(* it reads. A cursor never passes a record that is yet to come.            *)
ReadsExactly ==
  \A r \in Readers, n \in Numbers :
    delivered[r][n] =
      IF n \in DOMAIN journal /\ n <= cursor[r] /\ journal[n].topic \in Wants[r] THEN 1 ELSE 0

(* A publication that meets a taken number to the end of its attempts met   *)
(* a writer outside the lock; one that is told the journal is full was told *)
(* so by a full journal.                                                    *)
RefusedForCause ==
  \A p \in Publishers :
    /\ result[p] = "exists" => strayed
    /\ result[p] = "full" => Cardinality(DOMAIN journal) = MaxRecords

(* Whoever keeps polling is given every record it selects: no page is stuck *)
(* before a record that fits no page.                                       *)
EveryRecordDelivered ==
  \A r \in Readers, n \in Numbers :
    (n \in DOMAIN journal /\ journal[n].topic \in Wants[r]) ~> (delivered[r][n] = 1)

-----------------------------------------------------------------------------
(* The inductive invariant behind the theorems of JournalProofs.            *)

Numbered == \E k \in 0 .. MaxRecords : journal \in [1 .. k -> Entries]

(* Who is in the middle of a publication holds the lock, so only a stray    *)
(* can take the number it listed.                                           *)
Exclusive ==
  /\ \A p \in Publishers : pc[p] \in {"list", "link", "unlock"} => lock = p
  /\ \A p \in Publishers :
       pc[p] = "link" =>
         sequence[p] \in 1 .. NextNumber /\ (sequence[p] = NextNumber \/ strayed)

(* A listing is the journal from the cursor on, up to some record.          *)
ListingIsSegment ==
  /\ \A r \in Readers : cursor[r] \in 0 .. NextNumber - 1
  /\ \A r \in reading : \E k \in cursor[r] .. NextNumber - 1 : found[r] = cursor[r] + 1 .. k
  /\ \A r \in Readers \ reading : found[r] = {}

IInv == TypeOK /\ Numbered /\ Exclusive /\ RefusedForCause /\ ListingIsSegment /\ ReadsExactly
=============================================================================
