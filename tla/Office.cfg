\* A delivery of two lines corrected twice; two edits of one order under four keys,
\* one revision of the office, one change of the references; three captures for
\* one subject.
CONSTANTS
  l1 = l1
  l2 = l2
  Lines = {l1, l2}
  Dispatched = 2
  MaxCorrections = 2
  MaxEdits = 2
  MaxKeys = 4
  MaxOffice = 1
  MaxReferences = 2
  Subjects = {s}
  MaxCaptures = 3
  MaxVersions = 2
SPECIFICATION OfficeSpec
INVARIANTS
  DraftsNetToAccepted
  SyncedIsSaved
  EditAppliedOnce
  ConflictNotExecuted
  OneProofPerSubject
PROPERTIES
  PostedOriginalStands
  CorrectionsInvoiced
  EditsReachServer
\* Everything is corrected, sent and settled.
CHECK_DEADLOCK FALSE
