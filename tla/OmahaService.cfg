SPECIFICATION PingSpec
CONSTANTS
  kHoursBetweenRequests = 5
  PostRetryBase = 1
  PostRetryMax = 6
  TriesCap = 4
  FirstLaunch = 1
  MaxNow = 9
  MaxAppVersion = 2
  MaxRestarts = 2
  MaxClockChanges = 1
  MaxDebug = 1
CHECK_DEADLOCK FALSE
INVARIANTS
  
  RetriesKeepTheirId

  
