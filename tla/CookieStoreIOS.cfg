SPECIFICATION CookieFairSpec
CONSTANTS
  Ids = {"p", "q"}
  Values = {"v"}
  Keys = {{"p", "q"}}
  MaxChanges = 2
  MaxFlushes = 1
CHECK_DEADLOCK FALSE

  
PROPERTY
  FlushCompletes
