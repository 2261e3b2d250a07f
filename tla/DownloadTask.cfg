SPECIFICATION TaskFairSpec
CONSTANTS
  Chunks = 3
  MaxStarts = 3
CHECK_DEADLOCK FALSE

  
PROPERTY
  DownloadTaskEnds
