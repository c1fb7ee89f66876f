\* Three calls on two examples; the fast kernel takes beams up to 2, the
\* serial one up to 4, of which 4 has more slots than int can number.
CONSTANTS
  Batch = 2
  Steps = 2
  Vocab = 2
  MaxBeam = 4
  FastMaxBeam = 2
  IntLimit = 12
  Requests <- SomeRequests
  Threads = 2
  Decoded <- SomeDecoded
  Draw <- SomeDraws
  MaxCalls = 3
  MaxRequests = 2
SPECIFICATION FairSpec
INVARIANTS
  TypeOK
  OutputsAsPromised
  StatusCellReleased
  GradientDue
  FailureSticks
PROPERTIES
  CallsReturn
CHECK_DEADLOCK FALSE
