CONSTANTS
  None = None
  Options = {o}
  Sessions = {s1, s2, s3, s4, s5}
  Ranks <- BestWhereListening
  MaxEvents = 4
SPECIFICATION FairSpec
INVARIANTS
  TypeOK
  NoSessionLeaks
  ConnectedHasSession
PROPERTY
  EventuallyConnected
CHECK_DEADLOCK FALSE
