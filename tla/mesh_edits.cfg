CONSTANTS
  f = f
  w = w
  x = x
  y = y
  z = z
  Devices <- MCDevices
  Editors <- MCEditors
  MaxCounter = 9
  Contents = {x, y, z}
  Directories = {}
  Tombstone = Tombstone
  NoInfo = NoInfo
  Names = {f}
  Copies <- LeftAlone
  Times <- EachAtItsTime
  MaxDeletes = 0
  ClocksAgree = TRUE
SPECIFICATION Spec
INVARIANTS
  OneContentPerVersion
  NoSavedContentLost
PROPERTY
  EventuallyConverged
CHECK_DEADLOCK FALSE
