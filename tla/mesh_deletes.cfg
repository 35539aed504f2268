CONSTANTS
  f = f
  w = w
  x = x
  y = y
  z = z
  Devices <- MCDevices
  Editors <- MCEditors
  MaxCounter = 9
  Contents = {x, y, z}
  Directories = {y}
  Tombstone = Tombstone
  NoInfo = NoInfo
  Names = {f}
  Copies <- CopyOfX
  Times <- Restored
  MaxDeletes = 1
  ClocksAgree = FALSE
SPECIFICATION Spec
INVARIANTS
  TypeOK
  NoSavedContentLost
PROPERTY
  HistoryNeverForgotten
CHECK_DEADLOCK FALSE
