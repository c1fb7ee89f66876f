\* A vector kernel with a length penalty drops a tied candidate that ranks higher.
CONSTANTS
  NegInf <- MCNegInf
  PosInf = 9
  K = 2
  P = 2
  V = 3
  T = 2
  EOS = 0
  MinLength = 0
  LogProb <- ThreeLogProbs
  Rank <- LengthRank
  CarryRank <- LengthCarryRank
  ConstraintSpace <- NoConstraints
  Width = 2
  MaskedTail = TRUE
  Block = 3
SPECIFICATION Spec
INVARIANTS
  PoolHoldsBest
CHECK_DEADLOCK FALSE
