SPECIFICATION FairSpec
CONSTANTS
  MaxPosts = 2
  MaxRequests = 1
  ComponentTasks = {"StartOnIOThread", "ShutDownOnIOThread", "stop_callback", "CreateService"}
CHECK_DEADLOCK FALSE
INVARIANTS
  WebLoopInv
  UnlockedReadIsSafe
PROPERTIES
  
  ShutdownIsClean
