CONSTANTS
  f = f
  x = x
  y = y
  z = z
  Devices <- MCDevices
  MaxCounter = 9
  Contents = {x, y}
  Directories = {}
  Tombstone = Tombstone
  NoInfo = NoInfo
  NoFile = NoFile
  NoFrame = {none}
  Names = {f}
  Copies <- LeftAlone
  Times = {1}
  Authors <- NobodyWrites
  AtStart <- FirstHasX
  MaxDeletes = 1
  Encrypted = TRUE
  MaxDrops = 1
SPECIFICATION FairSpec
INVARIANTS
  TypeOK
  SentIsCurrent
PROPERTY
  EventuallyInSync
