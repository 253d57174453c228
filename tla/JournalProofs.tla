---------------------------- MODULE JournalProofs ----------------------------
(****************************************************************************)
(* Theorems about the coordination journal, for any number of workers,      *)
(* readers, queries and records, and any bounds; and about what its records *)
(* and a run's outputs contain, which ContentsInv follows layer by layer.   *)
(****************************************************************************)
EXTENDS StoredJournal, FiniteSetTheorems, SequenceTheorems, WellFoundedInduction, TLAPS

(* A bounded set of numbers has a greatest one.                             *)
LEMMA MaxIsGreatest ==
  ASSUME NEW S, NEW N \in Nat, S \subseteq 0 .. N, S # {}
  PROVE  Max(S) \in S /\ \A y \in S : y <= Max(S)
<1> DEFINE T == {N - x : x \in S}
<1>0. \A x \in S : x \in Int /\ 0 <= x /\ x <= N
  OBVIOUS
<1>1. T \subseteq Nat /\ T # {}
  <2>1. \A x \in S : N - x \in Nat
    BY <1>0
  <2> QED
    BY <2>1
<1>2. \E m \in T : \A y \in T : ~(<<y, m>> \in OpToRel(<, Nat))
  BY <1>1, NatLessThanWellFounded, WFMin
<1>3. PICK m \in T : \A y \in T : ~(<<y, m>> \in OpToRel(<, Nat))
  BY <1>2
<1>4. \A y \in T : ~(y < m)
  BY <1>1, <1>3 DEF OpToRel
<1>5. PICK x \in S : m = N - x
  OBVIOUS
<1>6. \A y \in S : x >= y
  <2> SUFFICES ASSUME NEW y \in S PROVE x >= y
    OBVIOUS
  <2>1. N - y \in T
    OBVIOUS
  <2> QED
    BY <2>1, <1>4, <1>5, <1>0
<1> HIDE DEF T
<1>7. Max(S) \in S /\ \A y \in S : Max(S) >= y
  BY <1>5, <1>6 DEF Max
<1> QED
  BY <1>7

(* The greatest number of a segment is its end.                             *)
LEMMA MaxOfSegment ==
  ASSUME NEW a \in Nat, NEW b \in Nat, a <= b
  PROVE  Max(a .. b) = b
<1>1. a .. b \subseteq 0 .. b /\ a .. b # {} /\ b \in a .. b
  OBVIOUS
<1>2. Max(a .. b) \in a .. b /\ \A y \in a .. b : y <= Max(a .. b)
  BY <1>1, MaxIsGreatest
<1> HIDE DEF Max
<1>3. b <= Max(a .. b)
  BY <1>1, <1>2
<1> QED
  BY <1>2, <1>3

LEMMA Bounds ==
  /\ MaxRecords \in Nat \ {0} /\ MaxAttempts \in Nat \ {0} /\ MaxRead \in Nat \ {0}
  /\ Nobody \notin Publishers
BY JournalAssumption DEF JournalAssumption

(* A journal without gaps is a sequence, and the next number is its length  *)
(* plus one.                                                                *)
LEMMA NumberedIsSequence ==
  ASSUME NEW k \in Nat, NEW j \in [1 .. k -> Entries]
  PROVE  /\ DOMAIN j = 1 .. k /\ Cardinality(DOMAIN j) = k
         /\ (IF DOMAIN j = {} THEN 1 ELSE Max(DOMAIN j) + 1) = k + 1
         /\ j \in Seq(Entries) /\ Len(j) = k
<1>1. DOMAIN j = 1 .. k
  OBVIOUS
<1>2. Cardinality(1 .. k) = k
  BY FS_Interval
<1>3. (IF 1 .. k = {} THEN 1 ELSE Max(1 .. k) + 1) = k + 1
  <2>1. CASE k = 0
    BY <2>1
  <2>2. CASE k # 0
    <3>1. Max(1 .. k) = k
      BY <2>2, MaxOfSegment
    <3> QED
      BY <2>2, <3>1
  <2> QED
    BY <2>1, <2>2
<1>4. j \in Seq(Entries) /\ Len(j) = k
  OBVIOUS
<1> QED
  BY <1>1, <1>2, <1>3, <1>4

LEMMA NextOfNumbered ==
  ASSUME NEW k \in 0 .. MaxRecords, journal \in [1 .. k -> Entries]
  PROVE  Published = 1 .. k /\ NextNumber = k + 1 /\ Cardinality(Published) = k
BY NumberedIsSequence, Bounds DEF Published, NextNumber

LEMMA NextOfNumberedAfter ==
  ASSUME NEW k \in 0 .. MaxRecords, journal' \in [1 .. k -> Entries]
  PROVE  Published' = 1 .. k /\ NextNumber' = k + 1 /\ Cardinality(Published') = k
BY NumberedIsSequence, Bounds DEF Published, NextNumber

(* Creating the next record appends it.                                     *)
LEMMA CreateAppends ==
  ASSUME NEW k \in 0 .. MaxRecords, journal \in [1 .. k -> Entries], k < MaxRecords,
         Create(k + 1)
  PROVE  /\ \E e \in Entries : journal' = Append(journal, e)
         /\ journal' \in [1 .. k + 1 -> Entries]
         /\ \A n \in 1 .. k : journal'[n] = journal[n]
<1>1. Published = 1 .. k
  BY NextOfNumbered
<1>2. PICK e \in Entries :
        journal' = [m \in (1 .. k) \cup {k + 1} |-> IF m = k + 1 THEN e ELSE journal[m]]
  BY <1>1 DEF Create
<1>3. (1 .. k) \cup {k + 1} = 1 .. k + 1
  BY Bounds
<1>4. journal' = [m \in 1 .. k + 1 |-> IF m = k + 1 THEN e ELSE journal[m]]
  BY <1>2, <1>3
<1>5. journal' \in [1 .. k + 1 -> Entries] /\ \A n \in 1 .. k : journal'[n] = journal[n]
  BY <1>4, Bounds
<1>6. journal' = Append(journal, e)
  <2>1. journal \in Seq(Entries) /\ Len(journal) = k
    BY NumberedIsSequence, Bounds
  <2>2. /\ Append(journal, e) \in Seq(Entries) /\ Len(Append(journal, e)) = k + 1
        /\ \A i \in 1 .. k : Append(journal, e)[i] = journal[i]
        /\ Append(journal, e)[k + 1] = e
    BY <2>1, AppendProperties
  <2>3. journal' \in Seq(Entries) /\ Len(journal') = k + 1
    BY <1>5, NumberedIsSequence, Bounds
  <2>4. \A i \in 1 .. k + 1 : journal'[i] = Append(journal, e)[i]
    BY <1>4, <2>2, Bounds
  <2> QED
    BY <2>2, <2>3, <2>4, SeqEqual
<1> QED
  BY <1>5, <1>6

-----------------------------------------------------------------------------
LEMMA InitInv == Init => IInv
<1> SUFFICES ASSUME Init PROVE IInv
  OBVIOUS
<1>1. journal \in [1 .. 0 -> Entries] /\ 0 \in 0 .. MaxRecords
  BY Bounds DEF Init
<1>2. NextNumber = 1 /\ Published = {}
  BY <1>1, NextOfNumbered
<1>3. TypeOK
  <2>1. DOMAIN journal = {}
    BY <1>1
  <2>2. /\ cursor \in [Readers -> 0 .. MaxRecords] /\ found \in [Readers -> SUBSET Numbers]
        /\ reading \subseteq Readers /\ delivered \in [Readers -> [Numbers -> Nat]]
    BY Bounds DEF Init
  <2>3. /\ sequence \in [Publishers -> 0 .. MaxRecords]
        /\ attempt \in [Publishers -> 1 .. MaxAttempts]
    BY Bounds DEF Init
  <2> QED
    BY <2>1, <2>2, <2>3 DEF Init, TypeOK
<1>4. Numbered
  BY <1>1 DEF Numbered
<1>5. Exclusive /\ RefusedForCause
  BY DEF Init, Exclusive, RefusedForCause
<1>6. ListingIsSegment
  BY <1>2 DEF Init, ListingIsSegment
<1>7. ReadsExactly
  BY DEF Init, ReadsExactly, Numbers
<1> QED
  BY <1>3, <1>4, <1>5, <1>6, <1>7 DEF IInv

(* What a publisher's step must keep for the readers' part of the           *)
(* invariant: the journal, or the journal extended by one record.           *)
LEMMA JournalKept ==
  ASSUME IInv, UNCHANGED <<journal, readerVars>>
  PROVE  Numbered' /\ ListingIsSegment' /\ ReadsExactly'
BY DEF IInv, Numbered, ListingIsSegment, ReadsExactly, NextNumber, Published, Numbers, readerVars

LEMMA JournalExtended ==
  ASSUME IInv, NEW k \in 0 .. MaxRecords, journal \in [1 .. k -> Entries], k < MaxRecords,
         Create(k + 1), UNCHANGED readerVars
  PROVE  /\ Numbered' /\ ListingIsSegment' /\ ReadsExactly'
         /\ DOMAIN journal' \subseteq Numbers /\ \A n \in DOMAIN journal' : journal'[n] \in Entries
<1>1. /\ journal' \in [1 .. k + 1 -> Entries] /\ k + 1 \in 0 .. MaxRecords
      /\ \A n \in 1 .. k : journal'[n] = journal[n]
  BY CreateAppends, Bounds
<1>2. NextNumber = k + 1 /\ NextNumber' = k + 2 /\ DOMAIN journal = 1 .. k
  BY <1>1, NextOfNumbered, NextOfNumberedAfter, Bounds DEF Published
<1>3. \A r \in Readers : cursor[r] \in 0 .. k
  BY <1>2 DEF IInv, ListingIsSegment
<1>4. Numbered'
  BY <1>1 DEF Numbered
<1>5. ListingIsSegment'
  <2>1. \A r \in reading : \E m \in cursor[r] .. k : found[r] = cursor[r] + 1 .. m
    BY <1>2 DEF IInv, ListingIsSegment
  <2>2. \A r \in Readers : cursor[r] .. k \subseteq cursor[r] .. k + 1
    BY <1>3, Bounds
  <2>3. reading \subseteq Readers
    BY DEF IInv, TypeOK
  <2>4. \A r \in reading : \E m \in cursor[r] .. k + 1 : found[r] = cursor[r] + 1 .. m
    BY <2>1, <2>2, <2>3
  <2>5. \A r \in Readers : cursor[r] \in 0 .. k + 1
    BY <1>3, Bounds
  <2>6. \A r \in Readers \ reading : found[r] = {}
    BY DEF IInv, ListingIsSegment
  <2>7. NextNumber' - 1 = k + 1
    BY <1>2, Bounds
  <2> QED
    BY <2>4, <2>5, <2>6, <2>7 DEF ListingIsSegment, readerVars
<1>6. ReadsExactly'
  <2> SUFFICES ASSUME NEW r \in Readers, NEW n \in Numbers
               PROVE  delivered[r][n] =
                        IF n \in 1 .. k + 1 /\ n <= cursor[r] /\ journal'[n].topic \in Wants[r]
                        THEN 1 ELSE 0
    BY <1>1 DEF ReadsExactly, readerVars, Numbers
  <2>1. delivered[r][n] =
          IF n \in 1 .. k /\ n <= cursor[r] /\ journal[n].topic \in Wants[r] THEN 1 ELSE 0
    BY <1>2 DEF IInv, ReadsExactly
  <2>2. cursor[r] \in 0 .. k
    BY <1>3
  <2>3. CASE n = k + 1
    BY <2>1, <2>2, <2>3, Bounds
  <2>4. CASE n # k + 1
    BY <1>1, <2>1, <2>4, Bounds DEF Numbers
  <2> QED
    BY <2>3, <2>4
<1>7. DOMAIN journal' \subseteq Numbers /\ \A n \in DOMAIN journal' : journal'[n] \in Entries
  BY <1>1, Bounds DEF Numbers
<1> QED
  BY <1>4, <1>5, <1>6, <1>7

-----------------------------------------------------------------------------
(* The steps of a publisher that leave the journal alone.                   *)
LEMMA BeginInv ==
  ASSUME IInv, NEW p \in Publishers, Begin(p)
  PROVE  IInv'
<1>1. UNCHANGED <<journal, readerVars>>
  BY DEF Begin
<1>2. Numbered' /\ ListingIsSegment' /\ ReadsExactly'
  BY <1>1, JournalKept
<1>3. TypeOK'
  BY DEF IInv, TypeOK, Begin, Go, readerVars
<1>4. Exclusive'
  BY Bounds DEF IInv, TypeOK, Exclusive, Begin, Go, NextNumber, Published
<1>5. RefusedForCause'
  BY DEF IInv, RefusedForCause, Begin
<1> QED
  BY <1>2, <1>3, <1>4, <1>5 DEF IInv

LEMMA ListInv ==
  ASSUME IInv, NEW p \in Publishers, List(p)
  PROVE  IInv'
<1>1. UNCHANGED <<journal, readerVars>>
  BY DEF List
<1>2. Numbered' /\ ListingIsSegment' /\ ReadsExactly'
  BY <1>1, JournalKept
<1>3. PICK k \in 0 .. MaxRecords : journal \in [1 .. k -> Entries]
  BY DEF IInv, Numbered
<1>4. NextNumber = k + 1 /\ Cardinality(Published) = k /\ Published = 1 .. k
  BY <1>3, NextOfNumbered
<1>5. CASE k >= MaxRecords
  <2>1. /\ result' = [result EXCEPT ![p] = "full"] /\ pc' = [pc EXCEPT ![p] = "unlock"]
        /\ UNCHANGED <<journal, lock, sequence, attempt, strayed, readerVars>>
    BY <1>4, <1>5, Bounds DEF List, Go
  <2>2. TypeOK'
    BY <2>1 DEF IInv, TypeOK, readerVars
  <2>3. Exclusive'
    BY <2>1 DEF IInv, TypeOK, Exclusive, List, NextNumber, Published
  <2>4. RefusedForCause'
    <3>1. Cardinality(DOMAIN journal) = MaxRecords
      BY <1>4, <1>5, Bounds DEF Published
    <3> QED
      BY <2>1, <3>1 DEF IInv, TypeOK, RefusedForCause
  <2> QED
    BY <1>2, <2>2, <2>3, <2>4 DEF IInv
<1>6. CASE k < MaxRecords
  <2>1. /\ sequence' = [sequence EXCEPT ![p] = k + 1] /\ pc' = [pc EXCEPT ![p] = "link"]
        /\ UNCHANGED <<journal, lock, result, attempt, strayed, readerVars>>
    BY <1>4, <1>6, Bounds DEF List, Go
  <2>2. TypeOK'
    <3>1. k + 1 \in 0 .. MaxRecords
      BY <1>6, Bounds
    <3> QED
      BY <2>1, <3>1 DEF IInv, TypeOK, readerVars
  <2>3. Exclusive'
    <3>1. NextNumber' = k + 1 /\ k + 1 \in 1 .. k + 1
      BY <1>4, <2>1, Bounds DEF NextNumber, Published
    <3>2. \A q \in Publishers : pc'[q] \in {"list", "link", "unlock"} => lock' = q
      BY <2>1 DEF IInv, TypeOK, Exclusive, List
    <3>3. \A q \in Publishers : pc'[q] = "link" =>
            sequence'[q] \in 1 .. NextNumber' /\ (sequence'[q] = NextNumber' \/ strayed')
      BY <1>4, <2>1, <3>1 DEF IInv, TypeOK, Exclusive
    <3> QED
      BY <3>2, <3>3 DEF Exclusive
  <2>4. RefusedForCause'
    BY <2>1 DEF IInv, RefusedForCause
  <2> QED
    BY <1>2, <2>2, <2>3, <2>4 DEF IInv
<1> QED
  BY <1>5, <1>6, Bounds

LEMMA RefuseInv ==
  ASSUME IInv, NEW p \in Publishers, Refuse(p)
  PROVE  IInv'
<1>1. UNCHANGED <<journal, readerVars>>
  BY DEF Refuse
<1>2. Numbered' /\ ListingIsSegment' /\ ReadsExactly'
  BY <1>1, JournalKept
<1>3. TypeOK'
  BY DEF IInv, TypeOK, Refuse, Go, readerVars
<1>4. Exclusive'
  BY DEF IInv, TypeOK, Exclusive, Refuse, Go, NextNumber, Published
<1>5. RefusedForCause'
  BY DEF IInv, TypeOK, RefusedForCause, Refuse
<1> QED
  BY <1>2, <1>3, <1>4, <1>5 DEF IInv

(* A call that ends, by its return or by a kill.                            *)
LEMMA EndInv ==
  ASSUME IInv, NEW p \in Publishers, Unlock(p) \/ Kill(p)
  PROVE  IInv'
<1>1. /\ UNCHANGED <<journal, readerVars, strayed>>
      /\ pc' \in {[pc EXCEPT ![p] = "idle"], [pc EXCEPT ![p] = "dead"]}
      /\ sequence' = [sequence EXCEPT ![p] = 0] /\ attempt' = [attempt EXCEPT ![p] = 1]
      /\ result' = [result EXCEPT ![p] = "none"]
      /\ UNCHANGED lock \/ (pc[p] = "unlock" /\ lock' = Nobody)
  BY DEF Unlock, Kill, EndCall, Go
<1>2. Numbered' /\ ListingIsSegment' /\ ReadsExactly'
  BY <1>1, JournalKept
<1>3. TypeOK'
  BY <1>1, Bounds DEF IInv, TypeOK, readerVars
<1>4. Exclusive'
  <2>1. pc[p] = "unlock" => lock = p
    BY DEF IInv, Exclusive
  <2> QED
    BY <1>1, <2>1 DEF IInv, TypeOK, Exclusive, NextNumber, Published
<1>5. RefusedForCause'
  BY <1>1 DEF IInv, TypeOK, RefusedForCause
<1> QED
  BY <1>2, <1>3, <1>4, <1>5 DEF IInv

LEMMA RecoverLockInv ==
  ASSUME IInv, NEW p \in Publishers, RecoverLock(p)
  PROVE  IInv'
<1>1. UNCHANGED <<journal, readerVars>>
  BY DEF RecoverLock
<1>2. Numbered' /\ ListingIsSegment' /\ ReadsExactly'
  BY <1>1, JournalKept
<1>3. TypeOK'
  BY DEF IInv, TypeOK, RecoverLock, readerVars
<1>4. Exclusive'
  BY DEF IInv, TypeOK, Exclusive, RecoverLock, NextNumber, Published
<1>5. RefusedForCause'
  BY DEF IInv, RefusedForCause, RecoverLock
<1> QED
  BY <1>2, <1>3, <1>4, <1>5 DEF IInv

-----------------------------------------------------------------------------
(* The steps that publish.                                                  *)
LEMMA LinkInv ==
  ASSUME IInv, NEW p \in Publishers, Link(p)
  PROVE  IInv' /\ (UNCHANGED journal
                     \/ \E k \in 0 .. MaxRecords :
                          /\ k < MaxRecords /\ journal \in [1 .. k -> Entries]
                          /\ Create(k + 1))
<1>1. PICK k \in 0 .. MaxRecords : journal \in [1 .. k -> Entries]
  BY DEF IInv, Numbered
<1>2. NextNumber = k + 1 /\ Published = 1 .. k
  BY <1>1, NextOfNumbered
<1>3. /\ pc[p] = "link" /\ lock = p
      /\ sequence[p] \in 1 .. k + 1 /\ (sequence[p] = k + 1 \/ strayed)
      /\ sequence[p] <= MaxRecords
  BY <1>2, Bounds DEF IInv, TypeOK, Exclusive, Link
<1>4. UNCHANGED <<lock, sequence, strayed, readerVars>>
  BY DEF Link
<1>5. CASE sequence[p] \notin Published
  <2>1. sequence[p] = k + 1 /\ k < MaxRecords
    BY <1>2, <1>3, <1>5, Bounds
  <2>2. /\ Create(k + 1) /\ result' = [result EXCEPT ![p] = "published"]
        /\ pc' = [pc EXCEPT ![p] = "unlock"] /\ UNCHANGED attempt
    BY <1>5, <2>1 DEF Link, Go
  <2>3. /\ Numbered' /\ ListingIsSegment' /\ ReadsExactly'
        /\ DOMAIN journal' \subseteq Numbers /\ \A n \in DOMAIN journal' : journal'[n] \in Entries
    BY <1>1, <1>4, <2>1, <2>2, JournalExtended
  <2>4. TypeOK'
    BY <1>4, <2>2, <2>3 DEF IInv, TypeOK, readerVars
  <2>5. Exclusive'
    <3>1. \A q \in Publishers \ {p} : pc[q] \notin {"list", "link", "unlock"}
      BY <1>3 DEF IInv, Exclusive
    <3> QED
      BY <1>3, <1>4, <2>2, <3>1 DEF IInv, TypeOK, Exclusive
  <2>6. RefusedForCause'
    <3>1. Cardinality(DOMAIN journal) = k
      BY <1>1, NextOfNumbered DEF Published
    <3>2. \A q \in Publishers : result[q] # "full"
      BY <2>1, <3>1, Bounds DEF IInv, RefusedForCause
    <3> QED
      BY <1>4, <2>2, <3>2 DEF IInv, TypeOK, RefusedForCause
  <2> QED
    BY <1>1, <2>1, <2>2, <2>3, <2>4, <2>5, <2>6 DEF IInv
<1>6. CASE sequence[p] \in Published
  <2>1. UNCHANGED journal /\ strayed
    BY <1>2, <1>3, <1>6, Bounds DEF Link
  <2>2. Numbered' /\ ListingIsSegment' /\ ReadsExactly'
    BY <1>4, <2>1, JournalKept
  <2>3. \/ /\ attempt[p] < MaxAttempts
           /\ attempt' = [attempt EXCEPT ![p] = @ + 1] /\ pc' = [pc EXCEPT ![p] = "list"]
           /\ UNCHANGED result
        \/ /\ result' = [result EXCEPT ![p] = "exists"] /\ pc' = [pc EXCEPT ![p] = "unlock"]
           /\ UNCHANGED attempt
    BY <1>6 DEF Link, Go
  <2>4. TypeOK'
    <3>1. attempt' \in [Publishers -> 1 .. MaxAttempts]
      BY <2>3, Bounds DEF IInv, TypeOK
    <3> QED
      BY <1>4, <2>1, <2>3, <3>1 DEF IInv, TypeOK, readerVars
  <2>5. Exclusive'
    BY <1>3, <1>4, <2>1, <2>3 DEF IInv, TypeOK, Exclusive, NextNumber, Published
  <2>6. RefusedForCause'
    BY <1>4, <2>1, <2>3 DEF IInv, TypeOK, RefusedForCause
  <2> QED
    BY <2>1, <2>2, <2>4, <2>5, <2>6 DEF IInv
<1> QED
  BY <1>5, <1>6

LEMMA StrayInv ==
  ASSUME IInv, Stray
  PROVE  IInv' /\ \E k \in 0 .. MaxRecords :
                    /\ k < MaxRecords /\ journal \in [1 .. k -> Entries]
                    /\ Create(k + 1)
<1>1. PICK k \in 0 .. MaxRecords : journal \in [1 .. k -> Entries]
  BY DEF IInv, Numbered
<1>2. NextNumber = k + 1 /\ Cardinality(Published) = k
  BY <1>1, NextOfNumbered
<1>3. k < MaxRecords /\ Create(k + 1)
  BY <1>2 DEF Stray
<1>4. strayed' = TRUE /\ UNCHANGED <<lock, pc, sequence, attempt, result, readerVars>>
  BY DEF Stray
<1>5. /\ Numbered' /\ ListingIsSegment' /\ ReadsExactly'
      /\ DOMAIN journal' \subseteq Numbers /\ \A n \in DOMAIN journal' : journal'[n] \in Entries
  BY <1>1, <1>3, <1>4, JournalExtended
<1>6. TypeOK'
  BY <1>4, <1>5 DEF IInv, TypeOK, readerVars
<1>7. Exclusive'
  <2>1. NextNumber' = k + 2
    BY <1>1, <1>3, CreateAppends, NextOfNumberedAfter, Bounds
  <2>2. \A q \in Publishers : pc[q] = "link" => sequence[q] \in 1 .. k + 2
    BY <1>2, Bounds DEF IInv, Exclusive
  <2> QED
    BY <1>4, <2>1, <2>2 DEF IInv, Exclusive
<1>8. RefusedForCause'
  <2>1. \A q \in Publishers : result[q] # "full"
    BY <1>2, <1>3, Bounds DEF IInv, RefusedForCause, Published
  <2> QED
    BY <1>4, <2>1 DEF RefusedForCause
<1> QED
  BY <1>1, <1>3, <1>5, <1>6, <1>7, <1>8 DEF IInv

-----------------------------------------------------------------------------
(* The steps of a reader.                                                   *)
LEMMA ListEntriesInv ==
  ASSUME IInv, NEW r \in Readers, ListEntries(r)
  PROVE  IInv'
<1>1. PICK k \in 0 .. MaxRecords : journal \in [1 .. k -> Entries]
  BY DEF IInv, Numbered
<1>2. NextNumber = k + 1 /\ Published = 1 .. k
  BY <1>1, NextOfNumbered
<1>3. cursor[r] \in 0 .. k
  BY <1>2, Bounds DEF IInv, ListingIsSegment
<1>4. {n \in Published : n > cursor[r]} = cursor[r] + 1 .. k
  BY <1>2, <1>3, Bounds
<1>5. /\ reading' = reading \cup {r} /\ found' = [found EXCEPT ![r] = cursor[r] + 1 .. k]
      /\ UNCHANGED <<journal, publisherVars, cursor, delivered>>
  BY <1>4 DEF ListEntries
<1>6. TypeOK'
  <2>1. cursor[r] + 1 .. k \in SUBSET Numbers
    BY <1>3, Bounds DEF Numbers
  <2> QED
    BY <1>5, <2>1 DEF IInv, TypeOK, publisherVars
<1>7. ListingIsSegment'
  <2>1. NextNumber' = k + 1
    BY <1>2, <1>5 DEF NextNumber, Published
  <2>2. k \in cursor[r] .. k
    BY <1>3, Bounds
  <2> QED
    BY <1>2, <1>5, <2>1, <2>2, Bounds DEF IInv, TypeOK, ListingIsSegment
<1>8. Numbered' /\ Exclusive' /\ RefusedForCause' /\ ReadsExactly'
  BY <1>5 DEF IInv, Numbered, Exclusive, RefusedForCause, ReadsExactly, NextNumber, Published,
              publisherVars
<1> QED
  BY <1>6, <1>7, <1>8 DEF IInv

(* Wherever a page ends: the next position lies within the listing, and the *)
(* page is what the query selects of the listing up to that position.       *)
LEMMA PageIsUpToPosition ==
  ASSUME NEW r, NEW limit, NEW c \in Nat, NEW m \in Nat, c <= m,
         cursor[r] = c, found[r] = c + 1 .. m,
         NEW pos, pos = Position(r, Page(r, limit), NextCursor(r, Page(r, limit), limit))
  PROVE  /\ pos \in c .. m
         /\ Page(r, limit) = {n \in Selected(r) : n <= pos}
<1> DEFINE page == Page(r, limit)
           chosen == Selected(r)
<1>1. page \subseteq chosen /\ chosen \subseteq c + 1 .. m
  BY DEF Page, Selected
<1>2. \A n \in page, x \in chosen : x <= n => x \in page
  <2> SUFFICES ASSUME NEW n \in page, NEW x \in chosen, x <= n PROVE x \in page
    OBVIOUS
  <2>1. UpTo(chosen, x) \subseteq UpTo(chosen, n)
    BY <1>1 DEF UpTo
  <2>2. \A y \in UpTo(chosen, n) : Fits(UpTo(chosen, y), limit)
    BY DEF Page
  <2> QED
    BY <2>1, <2>2 DEF Page
<1>3. found[r] # {} => Max(found[r]) = m /\ m \in found[r] /\ m > 0
  BY MaxOfSegment
<1>4. ~HeldBack(r, page, limit) => chosen \subseteq page
  BY DEF HeldBack
<1>5. CASE page = {}
  <2>1. CASE HeldBack(r, page, limit) \/ found[r] = {}
    <3>1. pos = c
      BY <1>5, <2>1 DEF Position, NextCursor, NoCursor
    <3> QED
      BY <1>1, <1>5, <3>1
  <2>2. CASE ~HeldBack(r, page, limit) /\ found[r] # {}
    <3>1. pos = m /\ chosen = {}
      BY <1>3, <1>4, <1>5, <2>2 DEF Position, NextCursor, NoCursor
    <3> QED
      BY <1>1, <3>1
  <2> QED
    BY <2>1, <2>2
<1>6. CASE page # {}
  <2>1. page \subseteq 0 .. m
    BY <1>1
  <2>2. Max(page) \in page /\ \A y \in page : y <= Max(page)
    BY <1>6, <2>1, MaxIsGreatest
  <2>3. Max(page) \in c + 1 .. m /\ Max(page) # 0
    BY <1>1, <2>2
  <2>4. CASE HeldBack(r, page, limit)
    <3>1. pos = Max(page)
      BY <1>6, <2>3, <2>4 DEF Position, NextCursor, NoCursor
    <3>2. \A n \in chosen : n \in page <=> n <= pos
      BY <1>2, <2>2, <3>1
    <3> QED
      BY <1>1, <2>3, <3>1, <3>2
  <2>5. CASE ~HeldBack(r, page, limit)
    <3>1. page = chosen
      BY <1>1, <1>4, <2>5
    <3>2. found[r] # {}
      BY <1>1, <1>6
    <3>3. CASE m \in page
      <4>1. Max(page) = m
        BY <2>2, <2>3, <3>3
      <4>2. pos = Max(page)
        BY <1>3, <1>6, <2>5, <3>2, <3>3 DEF Position, NextCursor, NoCursor
      <4> QED
        BY <1>1, <3>1, <4>1, <4>2
    <3>4. CASE m \notin page
      <4>1. pos = m
        BY <1>3, <2>5, <3>2, <3>4 DEF Position, NextCursor, NoCursor
      <4> QED
        BY <1>1, <3>1, <4>1
    <3> QED
      BY <3>3, <3>4
  <2> QED
    BY <2>4, <2>5
<1> QED
  BY <1>5, <1>6

LEMMA ReadPageInv ==
  ASSUME IInv, NEW r \in Readers, ReadPage(r)
  PROVE  IInv'
<1>1. PICK k \in 0 .. MaxRecords : journal \in [1 .. k -> Entries]
  BY DEF IInv, Numbered
<1>2. NextNumber = k + 1 /\ DOMAIN journal = 1 .. k
  BY <1>1, NextOfNumbered DEF Published
<1>3. r \in reading /\ cursor[r] \in 0 .. k
  BY <1>2, Bounds DEF IInv, ListingIsSegment, ReadPage
<1>4. PICK m \in cursor[r] .. k : found[r] = cursor[r] + 1 .. m
  BY <1>2, <1>3, Bounds DEF IInv, ListingIsSegment
<1>5. PICK limit \in 1 .. MaxRead :
        /\ cursor' = [cursor EXCEPT ![r] =
                        Position(r, Page(r, limit), NextCursor(r, Page(r, limit), limit))]
        /\ delivered' =
             [delivered EXCEPT ![r] = [n \in Numbers |->
                IF n \in Page(r, limit) THEN delivered[r][n] + 1 ELSE delivered[r][n]]]
  BY DEF ReadPage
<1> DEFINE pos == Position(r, Page(r, limit), NextCursor(r, Page(r, limit), limit))
           page == Page(r, limit)
<1>6. pos \in cursor[r] .. m /\ page = {n \in Selected(r) : n <= pos}
  BY <1>3, <1>4, Bounds, PageIsUpToPosition
<1> HIDE DEF pos, page
<1>7. /\ cursor' = [cursor EXCEPT ![r] = pos]
      /\ delivered' = [delivered EXCEPT ![r] = [n \in Numbers |->
                         IF n \in page THEN delivered[r][n] + 1 ELSE delivered[r][n]]]
      /\ reading' = reading \ {r} /\ found' = [found EXCEPT ![r] = {}]
      /\ UNCHANGED <<journal, publisherVars>>
  BY <1>5 DEF pos, page, ReadPage
<1>8. pos \in 0 .. k /\ k <= MaxRecords
  BY <1>3, <1>4, <1>6, Bounds
<1>9. TypeOK'
  <2>1. cursor' \in [Readers -> 0 .. MaxRecords]
    BY <1>7, <1>8, Bounds DEF IInv, TypeOK
  <2>2. delivered' \in [Readers -> [Numbers -> Nat]]
    BY <1>7 DEF IInv, TypeOK
  <2>3. found' \in [Readers -> SUBSET Numbers] /\ reading' \subseteq Readers
    BY <1>7 DEF IInv, TypeOK
  <2> QED
    BY <1>7, <2>1, <2>2, <2>3 DEF IInv, TypeOK, publisherVars
<1>10. ListingIsSegment'
  <2>1. NextNumber' = NextNumber
    BY <1>7 DEF NextNumber, Published
  <2>2. \A s \in Readers : cursor'[s] \in 0 .. NextNumber' - 1
    BY <1>2, <1>7, <1>8, <2>1, Bounds DEF IInv, TypeOK, ListingIsSegment
  <2>3. \A s \in reading' : \E x \in cursor'[s] .. NextNumber' - 1 : found'[s] = cursor'[s] + 1 .. x
    BY <1>7, <2>1 DEF IInv, TypeOK, ListingIsSegment
  <2>4. \A s \in Readers \ reading' : found'[s] = {}
    BY <1>7 DEF IInv, TypeOK, ListingIsSegment
  <2> QED
    BY <2>2, <2>3, <2>4 DEF ListingIsSegment
<1>11. ReadsExactly'
  <2> SUFFICES ASSUME NEW s \in Readers, NEW n \in Numbers
               PROVE  delivered'[s][n] =
                        IF n \in 1 .. k /\ n <= cursor'[s] /\ journal[n].topic \in Wants[s]
                        THEN 1 ELSE 0
    BY <1>2, <1>7 DEF ReadsExactly
  <2>1. delivered[s][n] =
          IF n \in 1 .. k /\ n <= cursor[s] /\ journal[n].topic \in Wants[s] THEN 1 ELSE 0
    BY <1>2 DEF IInv, ReadsExactly
  <2>2. CASE s # r
    BY <1>7, <2>1, <2>2 DEF IInv, TypeOK
  <2>3. CASE s = r
    <3>1. cursor'[r] = pos
      BY <1>7 DEF IInv, TypeOK
    <3>2. delivered'[r][n] = IF n \in page THEN delivered[r][n] + 1 ELSE delivered[r][n]
      BY <1>7 DEF IInv, TypeOK
    <3>3. n \in page <=> (n \in cursor[r] + 1 .. m /\ journal[n].topic \in Wants[r] /\ n <= pos)
      BY <1>4, <1>6 DEF Selected
    <3>4. n \in Nat
      BY Bounds DEF Numbers
    <3>5. CASE n <= cursor[r]
      <4>1. n \notin page /\ n <= pos
        BY <1>3, <1>4, <1>6, <3>3, <3>4, <3>5, Bounds
      <4> QED
        BY <2>1, <2>3, <3>1, <3>2, <3>5, <4>1
    <3>6. CASE ~(n <= cursor[r])
      <4>1. delivered[r][n] = 0
        BY <2>1, <2>3, <3>6
      <4>2. n <= pos => n \in cursor[r] + 1 .. m /\ n \in 1 .. k
        BY <1>3, <1>4, <1>6, <3>4, <3>6, Bounds
      <4> QED
        BY <2>3, <3>1, <3>2, <3>3, <4>1, <4>2
    <3> QED
      BY <3>5, <3>6
  <2> QED
    BY <2>2, <2>3
<1>12. Numbered' /\ Exclusive' /\ RefusedForCause'
  BY <1>7 DEF IInv, Numbered, Exclusive, RefusedForCause, NextNumber, Published, publisherVars
<1> QED
  BY <1>9, <1>10, <1>11, <1>12 DEF IInv

-----------------------------------------------------------------------------
LEMMA NextInv == IInv /\ [Next]_vars => IInv'
<1> SUFFICES ASSUME IInv, [Next]_vars PROVE IInv'
  OBVIOUS
<1>1. ASSUME NEW p \in Publishers, Begin(p) PROVE IInv'
  BY <1>1, BeginInv
<1>2. ASSUME NEW p \in Publishers, List(p) PROVE IInv'
  BY <1>2, ListInv
<1>3. ASSUME NEW p \in Publishers, Link(p) PROVE IInv'
  BY <1>3, LinkInv
<1>4. ASSUME NEW p \in Publishers, Refuse(p) PROVE IInv'
  BY <1>4, RefuseInv
<1>5. ASSUME NEW p \in Publishers, Unlock(p) \/ Kill(p) PROVE IInv'
  BY <1>5, EndInv
<1>6. ASSUME NEW p \in Publishers, RecoverLock(p) PROVE IInv'
  BY <1>6, RecoverLockInv
<1>7. CASE Stray
  BY <1>7, StrayInv
<1>8. ASSUME NEW r \in Readers, ListEntries(r) PROVE IInv'
  BY <1>8, ListEntriesInv
<1>9. ASSUME NEW r \in Readers, ReadPage(r) PROVE IInv'
  BY <1>9, ReadPageInv
<1>10. CASE UNCHANGED vars
  BY <1>10 DEF IInv, TypeOK, Numbered, Exclusive, RefusedForCause, ListingIsSegment, ReadsExactly,
               NextNumber, Published, vars, publisherVars, readerVars
<1> QED
  BY <1>1, <1>2, <1>3, <1>4, <1>5, <1>6, <1>7, <1>8, <1>9, <1>10 DEF Next

LEMMA Invariant == Spec => []IInv
BY InitInv, NextInv, PTL DEF Spec

(* The types, for any number of workers and readers.                        *)
THEOREM TypeCorrect == Spec => []TypeOK
<1>1. IInv => TypeOK
  BY DEF IInv
<1> QED
  BY <1>1, Invariant, PTL

(* Whatever is published while a reader pages through the journal, and      *)
(* wherever its pages end, it is given each record of its query once        *)
(* (readCoordinationPage). What bounds a page does not matter.              *)
THEOREM ReadersMissNothing == Spec => []ReadsExactly
<1>1. IInv => ReadsExactly
  BY DEF IInv
<1> QED
  BY <1>1, Invariant, PTL

(* Under the lock, a publication never runs out of attempts, unless someone *)
(* outside it publishes, and is refused for retention only by a full        *)
(* journal (publishCoordinationRecord).                                     *)
THEOREM RefusesForCause == Spec => []RefusedForCause
<1>1. IInv => RefusedForCause
  BY DEF IInv
<1> QED
  BY <1>1, Invariant, PTL

(* The journal implements the log: nothing is overwritten, skipped or       *)
(* published beyond the retained limit, with or without the lock.           *)
THEOREM ImplementsLog == Spec => JournalIsLog
<1>1. Init => Log!Init
  BY DEF Init, Log!Init
<1>2. ASSUME NEW k \in 0 .. MaxRecords, k < MaxRecords, journal \in [1 .. k -> Entries],
             Create(k + 1)
      PROVE  Log!Publish
  <2>1. Len(journal) = k
    BY <1>2, NumberedIsSequence, Bounds
  <2>2. \E e \in Entries : journal' = Append(journal, e)
    BY <1>2, CreateAppends
  <2> QED
    BY <1>2, <2>1, <2>2 DEF Log!Publish
<1>3. IInv /\ [Next]_vars => [Log!Publish]_journal
  <2> SUFFICES ASSUME IInv, [Next]_vars PROVE Log!Publish \/ UNCHANGED journal
    OBVIOUS
  <2>1. ASSUME NEW p \in Publishers, Link(p) PROVE Log!Publish \/ UNCHANGED journal
    BY <1>2, <2>1, LinkInv
  <2>2. CASE Stray
    BY <1>2, <2>2, StrayInv
  <2>3. ASSUME NEW p \in Publishers,
               Begin(p) \/ List(p) \/ Refuse(p) \/ Unlock(p) \/ Kill(p) \/ RecoverLock(p)
        PROVE  UNCHANGED journal
    BY <2>3 DEF Begin, List, Refuse, Unlock, Kill, EndCall, RecoverLock
  <2>4. ASSUME NEW r \in Readers, ListEntries(r) \/ ReadPage(r) PROVE UNCHANGED journal
    BY <2>4 DEF ListEntries, ReadPage
  <2>5. CASE UNCHANGED vars
    BY <2>5 DEF vars
  <2> QED
    BY <2>1, <2>2, <2>3, <2>4, <2>5 DEF Next
<1> QED
  BY <1>1, <1>3, Invariant, PTL DEF Spec, JournalIsLog, Log!Spec
-----------------------------------------------------------------------------
(* What a text takes as JSON is a number, and so is what a list of them     *)
(* takes: the library's sum is a choice of a recursive function, which      *)
(* exists and has only numbers as its values.                               *)
LEMMA LeastOf ==
  ASSUME NEW T, T \subseteq Nat, T # {}
  PROVE  \E n \in T : \A m \in T : n <= m
<1>1. \E n \in T : \A m \in T : ~(<<m, n>> \in OpToRel(<, Nat))
  BY NatLessThanWellFounded, WFMin
<1>2. PICK n \in T : \A m \in T : ~(<<m, n>> \in OpToRel(<, Nat))
  BY <1>1
<1>3. \A m \in T : ~(m < n)
  BY <1>2 DEF OpToRel
<1>4. \A m \in T : n <= m
  BY <1>3
<1> QED
  BY <1>4

AnyOf(s) == CHOOSE x \in s : TRUE

(* g is the function a sum of f over S recurs through.                      *)
Sums(f, S, g) ==
  g = [s \in SUBSET S |-> IF s = {} THEN 0 ELSE f[AnyOf(s)] + g[s \ {AnyOf(s)}]]

LEMMA RemoveAny ==
  ASSUME NEW S, IsFiniteSet(S), NEW s \in SUBSET S, s # {}
  PROVE  /\ AnyOf(s) \in S /\ s \ {AnyOf(s)} \in SUBSET S
         /\ Cardinality(s) \in Nat \ {0}
         /\ Cardinality(s \ {AnyOf(s)}) = Cardinality(s) - 1
<1>1. IsFiniteSet(s) /\ AnyOf(s) \in s
  BY FS_Subset DEF AnyOf
<1> QED
  BY <1>1, FS_RemoveElement, FS_CardinalityType, FS_EmptySet

(* There is such a function up to a size of set, and then up to the next.   *)
LEMMA SumsExist ==
  ASSUME NEW S, IsFiniteSet(S), NEW f
  PROVE  \E g : Sums(f, S, g)
<1> DEFINE Small(n) == {s \in SUBSET S : Cardinality(s) <= n}
           Value(g, s) == IF s = {} THEN 0 ELSE f[AnyOf(s)] + g[s \ {AnyOf(s)}]
           Upto(n, g) == \A s \in Small(n) : g[s] = Value(g, s)
           Missing == {n \in Nat : ~\E g : Upto(n, g)}
<1>0. /\ Cardinality(S) \in Nat
      /\ \A s \in SUBSET S : Cardinality(s) \in Nat /\ Cardinality(s) <= Cardinality(S)
      /\ \A s \in SUBSET S : Cardinality(s) = 0 <=> s = {}
  BY FS_Subset, FS_CardinalityType, FS_EmptySet
<1>1. 0 \notin Missing
  <2> DEFINE g == [s \in SUBSET S |-> 0]
  <2>1. Upto(0, g)
    BY <1>0
  <2> HIDE DEF g, Upto
  <2> QED
    BY <2>1
<1>2. ASSUME NEW n \in Nat, n \notin Missing
      PROVE  n + 1 \notin Missing
  <2>1. PICK g : Upto(n, g)
    BY <1>2
  <2> DEFINE h == [s \in SUBSET S |-> IF s \in Small(n) THEN g[s] ELSE Value(g, s)]
  <2>2. ASSUME NEW s \in Small(n + 1)
        PROVE  h[s] = Value(h, s)
    <3>1. h[s] = Value(g, s)
      BY <2>1
    <3>2. CASE s = {}
      BY <3>1, <3>2
    <3>3. CASE s # {}
      <4> DEFINE r == s \ {AnyOf(s)}
      <4>1. r \in Small(n)
        BY <3>3, RemoveAny
      <4>2. h[r] = g[r]
        BY <4>1
      <4> QED
        BY <3>1, <3>3, <4>2
    <3> QED
      BY <3>2, <3>3
  <2>3. Upto(n + 1, h)
    BY <2>2
  <2> HIDE DEF h, Upto
  <2> QED
    BY <2>3
<1>3. Missing = {}
  <2> HIDE DEF Missing
  <2>1. Missing \subseteq Nat
    BY DEF Missing
  <2> SUFFICES ASSUME Missing # {} PROVE FALSE
    OBVIOUS
  <2>2. PICK n \in Missing : \A m \in Missing : n <= m
    BY <2>1, LeastOf
  <2>3. n # 0 /\ n - 1 \in Nat /\ n - 1 \notin Missing
    BY <1>1, <2>1, <2>2
  <2>4. (n - 1) + 1 \notin Missing
    BY <2>3, <1>2
  <2>5. (n - 1) + 1 = n
    BY <2>1, <2>2
  <2> QED
    BY <2>2, <2>4, <2>5
<1>4. PICK g : Upto(Cardinality(S), g)
  BY <1>0, <1>3
<1> DEFINE h == [s \in SUBSET S |-> g[s]]
<1>5. Sums(f, S, h)
  <2>1. \A s \in SUBSET S : s \ {AnyOf(s)} \in SUBSET S
    OBVIOUS
  <2>2. \A s \in SUBSET S : h[s] = Value(h, s)
    BY <1>0, <1>4, <2>1
  <2> HIDE DEF Small, Upto
  <2> QED
    BY <2>2 DEF Sums
<1> QED
  BY <1>5

LEMMA TotalType ==
  ASSUME NEW S, IsFiniteSet(S), NEW f \in [S -> Int]
  PROVE  SumFunction(f) \in Int
<1> DEFINE g == CHOOSE k : Sums(f, S, k)
<1>1. Sums(f, S, g)
  BY SumsExist
<1>2. SumFunction(f) = g[S]
  BY DEF SumFunction, SumFunctionOnSet, FoldFunctionOnSet, MapThenFoldSet, Sums, AnyOf
<1> HIDE DEF g
<1> DEFINE Wrong == {s \in SUBSET S : g[s] \notin Int}
           T == {Cardinality(s) : s \in Wrong}
<1>3. Wrong = {}
  <2> SUFFICES ASSUME Wrong # {} PROVE FALSE
    OBVIOUS
  <2>1. T \subseteq Nat /\ T # {}
    BY FS_Subset, FS_CardinalityType
  <2>2. PICK n \in T : \A m \in T : n <= m
    BY <2>1, LeastOf
  <2>3. PICK s \in Wrong : n = Cardinality(s)
    BY <2>2
  <2> DEFINE r == s \ {AnyOf(s)}
  <2>4. s # {} /\ g[s] = f[AnyOf(s)] + g[r]
    <3>1. g[s] = IF s = {} THEN 0 ELSE f[AnyOf(s)] + g[r]
      BY <1>1, <2>3 DEF Sums
    <3> QED
      BY <3>1, <2>3
  <2>5. r \in SUBSET S /\ AnyOf(s) \in S /\ n \in Nat /\ Cardinality(r) = n - 1
    BY <2>3, <2>4, RemoveAny
  <2>6. g[r] \in Int
    <3> SUFFICES ASSUME r \in Wrong PROVE FALSE
      BY <2>5
    <3>1. Cardinality(r) \in T
      OBVIOUS
    <3> QED
      BY <3>1, <2>2, <2>5
  <2> QED
    BY <2>3, <2>4, <2>5, <2>6
<1> QED
  BY <1>2, <1>3

LEMMA JsonType ==
  ASSUME NEW texts \in Seq(AnyText)
  PROVE  Total(texts, Json) \in Int
<1> DEFINE f == [i \in DOMAIN texts |-> Json(texts[i])]
<1>1. IsFiniteSet(DOMAIN texts)
  BY FS_Interval
<1>2. f \in [DOMAIN texts -> Int]
  BY DEF AnyText, Json
<1> HIDE DEF f
<1>3. SumFunction(f) \in Int
  BY <1>1, <1>2, TotalType
<1> QED
  BY <1>3 DEF Total, f
-----------------------------------------------------------------------------
(* What a draft has become at each layer, with what the layers so far have  *)
(* made sure of.                                                            *)
Coordination(d) ==
  /\ d.kind \in {"event", "message"}
  /\ d = [kind |-> d.kind, author |-> d.author, to |-> d.to, message |-> d.message,
          items |-> d.items]
  /\ d.message \in AnyText /\ d.items \in Seq(AnyText)

Stored(d) ==
  /\ MessageParses(d) /\ (d.kind = "event" => EventParses(d))
  /\ {d.author} \cup d.to \subseteq Members /\ FitsJournal(d)

Settled(d) ==
  /\ d.kind = "output" /\ d.status \in {"succeeded", "failed", "aborted"}
  /\ d.report # Absent => d.report.texts \in Seq(AnyText)
  /\ {d.artifact, d.diagnostics} \subseteq AnyText \cup {Absent}
  /\ Publishable(d) /\ FitsRecord(d)

ContentsInv ==
  \/ layer = "drafted" /\ draft \in Drafts
  \/ layer \in {"called", "refused"} /\ Coordination(draft) /\ draft.author = Worker
  \/ /\ layer \in {"stored", "read"}
     /\ Coordination(draft) /\ draft.author = Worker /\ Stored(draft)
  \/ layer \in {"settled", "stored", "read", "handed on", "overflow"} /\ Settled(draft)

(* A record the journal took is within its bound, which leaves room for the *)
(* brackets of a page.                                                      *)
LEMMA TakenFitsPage ==
  ASSUME NEW d, Coordination(d), FitsJournal(d)
  PROVE  FitsPage(d)
<1> DEFINE items == Total(d.items, Json)
           message == Json(d.message)
<1>1. items \in Int
  BY JsonType DEF Coordination
<1>2. message \in Int
  BY DEF Coordination, AnyText, Json
<1>3. RecordSize(d) = Envelope + message + items
  BY DEF RecordSize
<1> HIDE DEF items, message
<1>4. Envelope \in Int
  BY BoundsAssumption DEF BoundsAssumption
<1>5. RecordSize(d) \in Int
  BY <1>1, <1>2, <1>3, <1>4
<1>6. MaxCoordination \in Int /\ MaxPage \in Int /\ MaxCoordination < MaxPage
  BY BoundsAssumption DEF BoundsAssumption
<1> QED
  BY <1>5, <1>6 DEF FitsPage, FitsJournal

(* A failure the runner reports of itself can always be published.          *)
LEMMA FailureSettles ==
  ASSUME NEW status \in {"failed", "aborted"}, NEW usage, UsageParses(usage)
  PROVE  Settled(Output(status, Absent, Absent, usage, Diagnosed))
<1> DEFINE d == Output(status, Absent, Absent, usage, Diagnosed)
<1>1. /\ d.kind = "output" /\ d.status = status /\ d.report = Absent /\ d.artifact = Absent
      /\ d.usage = usage /\ d.diagnostics = Diagnosed
  BY DEF Output
<1>2. Diagnosed \in AnyText /\ Diagnosed.bytes = 1 /\ Diagnosed.json = 1
  BY DEF Diagnosed, AnyText
<1>3. /\ MaxDiagnostics \in Nat /\ 1 <= MaxDiagnostics
      /\ Envelope \in Nat /\ MaxRecord \in Nat /\ Envelope + 1 <= MaxRecord
  BY BoundsAssumption DEF BoundsAssumption
<1> HIDE DEF d
<1>4. Publishable(d)
  BY <1>1, <1>2, <1>3 DEF Publishable, ResultParses, ArtifactParses, DiagnosticsParse
<1>5. JsonOf(Absent) = 0 /\ JsonOf(Diagnosed) \in {0, 1}
  BY <1>2 DEF JsonOf, Json
<1>6. FitsRecord(d)
  BY <1>1, <1>3, <1>5 DEF FitsRecord, OutputSize
<1>7. Settled(d)
  BY <1>1, <1>2, <1>4, <1>6 DEF Settled
<1> QED
  BY <1>7 DEF d

(* What an executor returns is settled whole, or as a failure.              *)
LEMMA ResultSettles ==
  ASSUME NEW d \in Drafts, d.kind = "result"
  PROVE  Settled(Validated(d)) /\ UsageParses(Validated(d).usage)
<1>1. CASE ~ValidResult(d)
  <2>1. Validated(d) = Output("failed", Absent, Absent, Absent, Diagnosed)
    BY <1>1 DEF Validated, InvalidResult
  <2>2. UsageParses(Absent)
    BY DEF UsageParses
  <2> QED
    BY <2>1, <2>2, FailureSettles DEF Output
<1>2. CASE ValidResult(d)
  <2> DEFINE v == Validated(d)
  <2>1. /\ v.kind = "output" /\ v.status = (IF d.report.blockers THEN "failed" ELSE "succeeded")
        /\ v.report = d.report /\ v.artifact = d.artifact /\ v.usage = d.usage
        /\ v.diagnostics = d.diagnostics
    BY <1>2 DEF Validated, Output
  <2> HIDE DEF v
  <2>2. /\ d.report # Absent /\ d.report.texts \in Seq(AnyText) /\ d.report.blockers \in BOOLEAN
        /\ {d.artifact, d.diagnostics} \subseteq AnyText \cup {Absent}
    BY <1>2, DraftsAssumption DEF DraftsAssumption, ValidResult
  <2>3. ResultParses(d) /\ ResultFits(d)
    BY <1>2 DEF ValidResult
  <2>4. Publishable(v)
    BY <2>1, <2>2, <2>3 DEF Publishable, ResultParses
  <2>5. /\ {Envelope, MaxRecord, MaxArtifact, MaxResult} \subseteq Int
        /\ Envelope + MaxResult <= MaxRecord /\ Envelope + 6 * MaxArtifact <= MaxRecord
        /\ 0 <= MaxArtifact
    BY BoundsAssumption DEF BoundsAssumption
  <2>6. ReportSize(d.report) \in Int
    BY <2>2, <2>5, JsonType DEF ReportSize
  <2>7. JsonOf(d.diagnostics) \in Int
    BY <2>2 DEF JsonOf, Json, AnyText
  <2>8. OutputSize(v) <= MaxRecord
    BY <2>1, <2>2, <2>3, <2>5, <2>6, <2>7 DEF OutputSize, ResultFits
  <2>9. JsonOf(d.artifact) \in Int /\ JsonOf(d.artifact) <= 6 * MaxArtifact
    <3>1. CASE d.artifact = Absent
      BY <3>1, <2>5 DEF JsonOf
    <3>2. CASE d.artifact # Absent
      <4>1. /\ d.artifact.json \in Nat /\ d.artifact.bytes \in Nat
            /\ d.artifact.json <= 6 * d.artifact.bytes
        BY <3>2, <2>2 DEF AnyText
      <4>2. d.artifact.bytes <= MaxArtifact
        BY <3>2, <2>3 DEF ResultParses, ArtifactParses, Bounded
      <4> QED
        BY <3>2, <4>1, <4>2, <2>5 DEF JsonOf, Json
    <3> QED
      BY <3>1, <3>2
  <2>10. FitsRecord(v)
    BY <2>1, <2>5, <2>8, <2>9 DEF FitsRecord
  <2>11. Settled(v)
    BY <2>1, <2>2, <2>4, <2>10 DEF Settled
  <2>12. UsageParses(v.usage)
    BY <2>1, <2>3 DEF ResultParses
  <2> QED
    BY <2>11, <2>12 DEF v
<1> QED
  BY <1>1, <1>2

(* The readers' checks of an output follow from the store's.                *)
LEMMA SettledIsReadable ==
  ASSUME NEW d, Settled(d)
  PROVE  FitsRecord(d) /\ ReadableOutput(d) /\ ArtifactParses(d.artifact)
<1>1. Publishable(d) /\ FitsRecord(d) /\ ResultParses(d)
  BY DEF Settled, Publishable
<1>2. ArtifactParses(d.artifact) /\ UsageParses(d.usage) /\ DiagnosticsParse(d.diagnostics)
  BY <1>1 DEF ResultParses
<1>3. ASSUME d.artifact # Absent PROVE d.artifact.bytes \in 1 .. MaxArtifact
  <2>1. /\ d.artifact.bytes \in Nat /\ (~d.artifact.blank => d.artifact.bytes > 0)
        /\ MaxArtifact \in Nat
    BY <1>3, BoundsAssumption DEF Settled, AnyText, BoundsAssumption
  <2>2. ~d.artifact.blank /\ d.artifact.bytes <= MaxArtifact
    BY <1>2, <1>3 DEF ArtifactParses, Bounded
  <2> QED
    BY <2>1, <2>2
<1>4. CASE d.report = Absent
  BY <1>1, <1>2, <1>3, <1>4 DEF ReadableOutput, Publishable
<1>5. CASE d.report # Absent
  <2>1. ReportParses(d.report)
    BY <1>1, <1>5 DEF ResultParses
  <2>2. d.status = "failed" \/ (d.status = "succeeded" /\ ~d.report.blockers)
    BY <1>1, <1>5 DEF Settled, Publishable
  <2> QED
    BY <1>1, <1>2, <1>3, <1>5, <2>1, <2>2 DEF ReadableOutput
<1> QED
  BY <1>1, <1>2, <1>4, <1>5

LEMMA ContentsStart == ContentsInit => ContentsInv
BY DEF ContentsInit, ContentsInv

LEMMA RecordingKeeps ==
  ASSUME ContentsInv, [Record]_contents
  PROVE  ContentsInv'
<1> USE DEF ContentsInv
<1>1. CASE UNCHANGED contents
  BY <1>1 DEF contents
<1>2. CASE CallTool
  <2>1. /\ draft \in Drafts /\ draft.kind \in {"event", "message"} /\ layer' = "called"
        /\ draft' = [draft EXCEPT !.author = Worker]
    BY <1>2 DEF CallTool, Pass
  <2>2. Coordination(draft)
    BY <2>1, DraftsAssumption DEF DraftsAssumption, Coordination
  <2>3. Coordination(draft') /\ draft'.author = Worker
    BY <2>1, <2>2 DEF Coordination
  <2> QED
    BY <2>1, <2>3
<1>3. CASE PublishEvent \/ SendMessage
  <2>1. layer = "called" /\ Coordination(draft) /\ draft.author = Worker /\ draft' = draft
    BY <1>3 DEF PublishEvent, SendMessage, Pass
  <2>2. layer' = "refused" \/ (layer' = "stored" /\ Stored(draft))
    BY <1>3 DEF PublishEvent, SendMessage, Pass, Stored, EventParses, MessageParses
  <2> QED
    BY <2>1, <2>2
<1>4. CASE ReadEvent \/ ReadMessage
  <2>1. /\ layer = "stored" /\ draft' = draft /\ draft.kind \in {"event", "message"}
        /\ Coordination(draft) /\ draft.author = Worker /\ Stored(draft)
    BY <1>4 DEF ReadEvent, ReadMessage, Pass, Settled
  <2>2. FitsPage(draft)
    BY <2>1, TakenFitsPage DEF Stored
  <2>3. layer' = "read"
    BY <1>4, <2>1, <2>2 DEF ReadEvent, ReadMessage, Pass, Stored, EventParses, MessageParses,
       ReadableEvent, ReadableMessage, Bounded
  <2> QED
    BY <2>1, <2>3
<1>5. CASE ValidateResult \/ DiscardResult
  <2>1. draft \in Drafts /\ draft.kind = "result" /\ layer' = "settled"
    BY <1>5 DEF ValidateResult, DiscardResult, Pass, Coordination, Settled
  <2>2. Settled(draft')
    <3>1. CASE ValidateResult
      BY <3>1, <2>1, ResultSettles DEF ValidateResult
    <3>2. CASE DiscardResult
      <4>1. PICK status \in {"failed", "aborted"}, usage \in {Absent, Validated(draft).usage} :
              draft' = Output(status, Absent, Absent, usage, Diagnosed)
        BY <3>2 DEF DiscardResult
      <4>2. UsageParses(usage)
        BY <4>1, <2>1, ResultSettles DEF UsageParses
      <4> QED
        BY <4>1, <4>2, FailureSettles
    <3> QED
      BY <1>5, <3>1, <3>2
  <2> QED
    BY <2>1, <2>2
<1>6. CASE PublishOutput \/ ReadOutput
  <2>1. layer \in {"settled", "stored"} /\ Settled(draft) /\ draft' = draft
    BY <1>6 DEF PublishOutput, ReadOutput, Pass, Coordination
  <2>2. /\ Publishable(draft) /\ FitsRecord(draft) /\ ReadableOutput(draft)
        /\ ArtifactParses(draft.artifact)
    BY <2>1, SettledIsReadable DEF Settled
  <2>3. layer' \in {"stored", "read"}
    BY <1>6, <2>2 DEF PublishOutput, ReadOutput, Pass
  <2> QED
    BY <2>1, <2>3
<1>7. CASE HandOn
  <2>1. layer = "read" /\ Settled(draft) /\ draft' = draft /\ draft.status = "succeeded"
    BY <1>7 DEF HandOn, Pass, Coordination
  <2>2. ReportParses(draft.report)
    BY <2>1 DEF Settled, Publishable, ResultParses
  <2>3. layer' \in {"handed on", "overflow"}
    BY <1>7, <2>2 DEF HandOn, Pass
  <2> QED
    BY <2>1, <2>3
<1> QED
  BY <1>1, <1>2, <1>3, <1>4, <1>5, <1>6, <1>7 DEF Record

(* No layer refuses what the one before it let pass, for any text: what the *)
(* runner settles is published (publishNodeOutput), and what is stored is   *)
(* read (readNodeOutput, readRunEvents, readRunMessages).                   *)
THEOREM RecordsAreReadBack == StoredSpec => []RecordsReadBack
<1>1. StoredInit => ContentsInv
  BY ContentsStart DEF StoredInit
<1>2. ContentsInv /\ [StoredNext]_<<vars, contents>> => ContentsInv'
  <2>1. [StoredNext]_<<vars, contents>> => [Record]_contents
    BY DEF StoredNext, InJournal
  <2> QED
    BY <2>1, RecordingKeeps
<1>3. ContentsInv => RecordsReadBack
  BY DEF ContentsInv, RecordsReadBack, Coordination, Settled
<1> QED
  BY <1>1, <1>2, <1>3, PTL DEF StoredSpec

(* Whatever the followed record is, the journal it goes to is the Journal:  *)
(* what is proved of that holds of the stored one.                          *)
THEOREM StoredImplementsJournal == StoredSpec => Spec
<1>1. StoredInit => Init
  BY DEF StoredInit
<1>2. [StoredNext]_<<vars, contents>> => [Next]_vars
  BY DEF StoredNext, InJournal
<1> QED
  BY <1>1, <1>2, PTL DEF StoredSpec, Spec
=============================================================================
