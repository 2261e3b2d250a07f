SPECIFICATION FairSpec
CONSTANTS
  Masks = {{"cache", "bookmarks", "passwords"}, {"cookies"}, {"history"}}
  MaxRemovals = 3
CHECK_DEADLOCK FALSE
INVARIANTS
  RemoverInv
  
PROPERTY
  EveryCallbackRuns
