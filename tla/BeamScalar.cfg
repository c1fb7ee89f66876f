\* The scalar kernel with a length penalty: ranks tie though raw scores differ,
\* and two log-probabilities of a sign overflow.
CONSTANTS
  NegInf <- MCNegInf
  PosInf = 9
  K = 2
  P = 3
  V = 3
  T = 3
  EOS = 0
  MinLength = 0
  LogProb <- ExtremeLogProbs
  Rank <- LengthRank
  CarryRank <- LengthCarryRank
  ConstraintSpace <- NoConstraints
  Width = 1
  MaskedTail = FALSE
  Block = 16
SPECIFICATION Spec
INVARIANTS
  TypeOK
  DistinctHypotheses
  LengthsMatch
  TraceMatchesPrefix
PROPERTIES
  ImplementsBeamSearch
  FinishedFrozen
CHECK_DEADLOCK FALSE
