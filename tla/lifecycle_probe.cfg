CONSTANTS
  None = None
  Options = {o}
  Sessions = {s1, s2, s3}
  Ranks <- AnyPath
  MaxEvents = 1
SPECIFICATION Spec
PROPERTY
  ProbeKeepsSession
CHECK_DEADLOCK FALSE
