---------------------------- MODULE MCCudaForward ----------------------------
(***************************************************************************)
(* A small instance of CudaForward.                                        *)
(***************************************************************************)
EXTENDS CudaForward, MCBeamValues

\* min_length off, and one that forbids an end token at the first step.
MinLengths ==
  {[NoConstraint EXCEPT !.minLength = n] : n \in {0, 2}}
=============================================================================
