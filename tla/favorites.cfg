SPECIFICATION Spec
CONSTANTS
  None = None
  MaxEvents = 3
  MaxFailures = 1
INVARIANT
  TypeOK
PROPERTIES
  NothingLost
  
  RenamesFollowed
  Settles
CHECK_DEADLOCK FALSE
