\* Two beams and a pool of three over three steps, in both forms.
CONSTANTS
  NegInf <- MCNegInf
  PosInf = 9
  K = 2
  P = 3
  V = 2
  T = 3
  EOS = 0
  MinLength = 0
  LogProb <- TwoLogProbs
  Rank <- RawRank
  CarryRank <- RawRank
  ConstraintSpace <- NoConstraints
  Upstream <- SomeUpstream
  Options <- SomeDecoders
SPECIFICATION Spec
INVARIANTS
  TypeOK
  GradientFollowsPaths
  GradientConserved
CHECK_DEADLOCK FALSE
