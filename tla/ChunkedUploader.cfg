CONSTANTS
  MaxData = 2
  StreamLength = 1
  BodyLength = 3
  MaxBuffer = 2
  MaxEmptyReads = 1
  MaxInits = 2
SPECIFICATION FairSpec
CHECK_DEADLOCK FALSE
INVARIANTS
  
  DeliveredInOrder
  ClientCallbackOrder
  AttemptSendsBody
PROPERTIES
  NoCallbackAfterStop
  
  StopReleasesRequest
  
