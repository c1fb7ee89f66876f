\* Two threads, three calls in all.
CONSTANTS
  Thread = {a, b}
  T = 2
  Throws = {1}
  MaxCalls = 3
SPECIFICATION FairSpec
INVARIANTS
  TypeOK
  ModelFollowsResult
  LastCallReported
PROPERTIES
  CallsReturn
CHECK_DEADLOCK FALSE
