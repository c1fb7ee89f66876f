\* insert_topk's loops on a buffer of four slots, every order of seven offers.
CONSTANTS
  NegInf <- MCNegInf
  PosInf = 9
  P = 4
  Offers <- MCOffers
SPECIFICATION InsertFairSpec
INVARIANTS
  InsertTypeOK
  BestBetweenCalls
PROPERTIES
  ImplementsBuffer
  CallReturns
CHECK_DEADLOCK FALSE
