------------------------------ MODULE MCBackward ------------------------------
(***************************************************************************)
(* A small instance of Backward.                                           *)
(***************************************************************************)
EXTENDS Backward, MCBeamValues

\* Every slot has a power of two of its own, so that a sum tells which slots
\* it is made of; the passes are linear in the gradients.
Powers ==
  [selected |-> [s \in Step |-> [k \in BeamId |-> 2 ^ (s * K + k)]],
   relaxed  |-> [s \in Step |-> [p \in Slot |-> 2 ^ (T * K + s * P + p)]],
   final    |-> [k \in BeamId |-> 2 ^ (T * (K + P) + k)]]

\* Gradients that cancel: the code drops a draw of 0, but not a sum of 0.
Cancelling ==
  [selected |-> [s \in Step |-> [k \in BeamId |-> IF s = T - 1 THEN k ELSE 0]],
   relaxed  |-> [s \in Step |-> [p \in Slot |-> IF p = 0 THEN -1 ELSE 1]],
   final    |-> [k \in BeamId |-> -k]]

SomeUpstream == {Powers, Cancelling}

\* A decoder that matches, one of another beam size, and one whose limit is
\* just too small for the dense gradient.
SomeDecoders ==
  {[beamSize |-> K, maxDense |-> -1], [beamSize |-> K + 1, maxDense |-> -1],
   [beamSize |-> K, maxDense |-> T * K * V - 1]}
=============================================================================
