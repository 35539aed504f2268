CONSTANTS
  f = f
  x = x
  y = y
  z = z
  Devices <- MCDevices
  MaxCounter = 9
  Contents = {x, y, z}
  Directories = {}
  Tombstone = Tombstone
  NoInfo = NoInfo
  NoFile = NoFile
  NoFrame = {none}
  Names = {f}
  Copies <- CopyOfY
  Times = {1}
  Authors <- CopyIsEdited
  AtStart <- FirstHasX
  MaxDeletes = 0
  Encrypted = FALSE
  MaxDrops = 0
SPECIFICATION FairSpec
INVARIANT
  WantedIsServed
PROPERTIES
  ImplementsMesh
  EventuallyInSync
