\* Two lanes, of which the first scans two of the three tokens.
CONSTANTS
  NegInf <- MCNegInf
  PosInf = 9
  K = 2
  P = 2
  V = 3
  T = 2
  EOS = 1
  MinLength = 0
  LogProb <- ExtremeLogProbs
  Rank <- RawRank
  CarryRank <- RawRank
  ConstraintSpace <- MinLengths
  Lanes = 2
SPECIFICATION FairSpec
INVARIANTS
  TypeOK
  BarriersSeparate
PROPERTIES
  ImplementsBeamSearch
  KernelFinishes
CHECK_DEADLOCK FALSE
