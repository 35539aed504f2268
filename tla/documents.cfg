SPECIFICATION Spec
CONSTANTS
  MaxDrafts = 1
  None = None
  MaxClock = 5
  MaxCrashes = 1
  MaxLocks = 1
  AbortsEdits = FALSE
INVARIANTS
  TypeOK
  AcknowledgedWritesSurvive
  NoWorkOnClosedStorage
  ReleasedStaysClosed
PROPERTIES
  ConflictNeedsRival
  PublishedDraftsAreWhole
  RetainedDraftsArePublished
  ReleaseCompletes
CHECK_DEADLOCK FALSE
