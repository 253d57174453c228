\* Drafts at their bounds; then publishers under the lock, a writer outside it,
\* a polling reader, kills.
SPECIFICATION StoredFairSpec
CONSTANTS
  first = first
  second = second
  inbox = inbox
  stranger = stranger
  Nobody = Nobody
  Absent = Absent
  Publishers <- MCPublishers
  Readers <- MCReaders
  Topics <- MCTopics
  Wants <- MCWants
  MaxRecords = 3
  MaxAttempts = 2
  MaxRead = 2
  Sizes = {1, 3}
  RecordBytes = 3
  PageBytes = 5
  Drafts <- MCDrafts
  Followed <- MCFollowed
  Members <- MCPublishers
  Worker = first
  Envelope = 1
  MaxRecord = 1024
  MaxText = 16
  MaxItem = 4
  MaxItems = 16
  MaxCoordination = 32
  MaxPage = 64
  MaxReport = 96
  MaxSection = 128
  MaxReportText = 16
  MaxDiagnostics = 16
  MaxArtifact = 128
  MaxResult = 128
  MaxContext = 256
INVARIANTS RecordsReadBack ReadsExactly
PROPERTIES JournalIsLog EveryRecordDelivered
CHECK_DEADLOCK FALSE
