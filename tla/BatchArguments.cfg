\* Refused arguments leave the error category of an earlier call.
CONSTANTS
  Kernels = {scalar, vector}
  Default = vector
  Sizes = {0, 1}
  Requests = {1}
  Hardware = 1
  Failures = {3}
  Variants = {"fixed"}
  MaxCalls = 2
  Null = Null
SPECIFICATION Spec
INVARIANTS
  CategoryTracksError
CHECK_DEADLOCK FALSE
