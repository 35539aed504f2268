CONSTANTS
  f = f
  w = w
  x = x
  y = y
  z = z
  Devices <- MCDevices
  Editors <- MCDevices
  MaxCounter = 9
  Contents = {w, x, y, z}
  Directories = {}
  Tombstone = Tombstone
  NoInfo = NoInfo
  Names = {f}
  Copies <- CopyOfX
  Times <- EachAtItsTime
  MaxDeletes = 0
  ClocksAgree = TRUE
SPECIFICATION Spec
INVARIANT
  NoEditedCopyLost
CHECK_DEADLOCK FALSE
