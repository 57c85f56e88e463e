CONSTANTS
  Tiles = {t1, t2}
  Nodes = {n1}
  Local = local
  MaxFrames = 2
SPECIFICATION FairSpec
CHECK_DEADLOCK FALSE
INVARIANTS
  NoStoreAfterReturn
  NoFrameAfterShutdown
  StoredOnce
  NoTileStranded
  NothingLeftBehind
PROPERTIES
  ImplementsContract
  FrameReturns
