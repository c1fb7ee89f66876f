\* Two threads; a node and a gradient fit, or a node and two of its backward
\* passes.
CONSTANTS
  Thread = {p1, p2}
  ResultBytes = 4
  BackBytes = 2
  ScratchBytes = 1
  MaxObjects = 5
SPECIFICATION Spec
INVARIANTS
  LifetimesRespected
  OneOwner
  BytesBalanced
CHECK_DEADLOCK FALSE
