SPECIFICATION SnapshotFairSpec
CONSTANTS
  Tabs = {"t1", "t2"}
  Capacity = 1
  MaxImage = 2
  MaxPending = 3
  MaxEvents = 2
CHECK_DEADLOCK FALSE

  
PROPERTY
  CallbacksAnswered
