SPECIFICATION FairSpec
CONSTANTS
  Urls = {u1}
  kNumberOfFailsBeforeWifiOnly = 1
  kNumberOfFailsBeforeStop = 2
  MaxUserOps = 2
  MaxConnections = 1
  MaxRestarts = 1
CHECK_DEADLOCK FALSE
INVARIANTS
  DownloadsInv
  NoOrphanFiles
PROPERTIES
  
  RemovalsEnd
