SPECIFICATION FairSpec
CONSTANTS
  Sources = {"s1", "s2", "s3"}
  Replacing = {"s2"}
  Requests = {"r1", "r2"}
CHECK_DEADLOCK FALSE
INVARIANTS
  SourcesInv
PROPERTY
  RequestsAreAnswered
