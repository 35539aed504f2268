CONSTANTS
  Devices <- MCDevices
  Self <- MCSelf
  Peer <- MCPeer
  MaxCounter = 9
  Contents = {x, y, z}
  Directories = {}
  Tombstone = Tombstone
  NoInfo = NoInfo
  NoFile = NoFile
  Names = {f}
  Copies <- CopyOfX
  Sizes <- OneSize
  x = x
  y = y
  z = z
  f = f
  Times <- Restored
  MaxDeletes = 1
  MaxCrashes = 1
  EditorRaces = FALSE
SPECIFICATION FairSpec
INVARIANTS
  TypeOK
  NoSavedContentLost
  RevisionVouches
  NothingTornIsIndexed
  NoPhantomEdit
PROPERTIES
  HistoryNeverForgotten
  EditsReplaceWhatTheyRead
  EventuallyInSync
