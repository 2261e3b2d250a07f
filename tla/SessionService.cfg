CONSTANTS
  Directories = {normal, incognito}
  Watched = normal
  MaxVersion <- MCMaxVersion
  MaxTasks = 2
SPECIFICATION FairSpec
INVARIANTS
  SessionInv
  FileIsNewest
  BackgroundSaveNotLost
PROPERTY
  EveryRequestIsSaved
