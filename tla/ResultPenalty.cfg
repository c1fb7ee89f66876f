\* With a length penalty, the order check rejects a correct decode.
CONSTANTS
  NegInf <- MCNegInf
  PosInf = 9
  K = 2
  P = 2
  V = 3
  T = 2
  EOS = 0
  MinLength = 0
  LogProb <- ThreeLogProbs
  Rank <- LengthRank
  CarryRank <- LengthCarryRank
  ConstraintSpace <- NoConstraints
  Width = 1
  MaskedTail = FALSE
  Block = 16
SPECIFICATION Spec
INVARIANTS
  ResultPassesValidation
CHECK_DEADLOCK FALSE
