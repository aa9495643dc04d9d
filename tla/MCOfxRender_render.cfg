SPECIFICATION FairSpec
CONSTANTS
  Blobs = 2
  Rows = 2
CHECK_DEADLOCK FALSE
INVARIANTS
  RemovedDirStaysRemoved
  NothingLeftBehind
  SuccessIsDelivered
  ExitIsUnderWay
PROPERTIES
  RendersOneFrame
  RetriesOnlyStopped
  PluginReturns
