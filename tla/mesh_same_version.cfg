CONSTANTS
  f = f
  w = w
  x = x
  y = y
  z = z
  Devices <- MCDevices
  Editors <- MCEditors
  MaxCounter = 9
  Contents = {x, y}
  Directories = {}
  Tombstone = Tombstone
  NoInfo = NoInfo
  Names = {f}
  Copies <- LeftAlone
  Times <- AnyTime
  MaxDeletes = 1
  ClocksAgree = TRUE
SPECIFICATION Spec
INVARIANT
  OneContentPerVersion
CHECK_DEADLOCK FALSE
