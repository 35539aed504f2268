CONSTANTS
  f = f
  x = x
  y = y
  z = z
  Devices <- MCDevices
  MaxCounter = 9
  Contents = {x, y}
  Directories = {}
  Tombstone = Tombstone
  NoInfo = NoInfo
  NoFile = NoFile
  NoFrame = {none}
  Names = {f}
  Copies <- LeftAlone
  Times = {1}
  Authors <- NobodyWrites
  AtStart <- EachHasOne
  MaxDeletes = 2
  Encrypted = FALSE
  MaxDrops = 0
SPECIFICATION FairSpec
PROPERTY
  EventuallyInSync
