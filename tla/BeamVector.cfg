\* A vector kernel without length penalty, every kind of constraint, and the
\* soft weights of each pool.
CONSTANTS
  NegInf <- MCNegInf
  PosInf = 6
  K = 2
  P = 3
  V = 3
  T = 3
  EOS = 0
  MinLength = 2
  LogProb <- HighLogProbs
  Rank <- RawRank
  CarryRank <- RawRank
  ConstraintSpace <- SomeConstraints
  Width = 2
  MaskedTail = FALSE
  Block = 3
  Unit = 8
  Reach = 6
  Tolerance = 2
  MaxIters = 8
  NegGuard <- MCNegGuard
SPECIFICATION Spec
INVARIANTS
  PoolHoldsBest
  ResultPassesValidation
  ConstraintsHonoured
  InclusionFillsBeam
CHECK_DEADLOCK FALSE
