\* Batches of one and three items on one to three threads, every interleaving.
CONSTANTS
  Kernels = {scalar, vector}
  Default = vector
  Sizes = {0, 1, 3}
  Requests = {0, 2}
  Hardware = 3
  Failures = {1, 3}
  Variants = {"fixed", "variable"}
  MaxCalls = 1
  Null = Null
SPECIFICATION FairSpec
INVARIANTS
  TypeOK
  EachItemOnce
  NoWorkerOutlives
  IndexBounded
PROPERTIES
  ImplementsPromise
  CallReturns
CHECK_DEADLOCK FALSE
