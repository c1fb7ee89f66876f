---------------------------- MODULE MCTopKInsert ----------------------------
(***************************************************************************)
(* A small instance of TopKInsert: four slots, seven candidates    *)
(* that tie on score, on raw score, on parent, and a saturated one that    *)
(* ties with the placeholder.                                              *)
(***************************************************************************)
EXTENDS TopKInsert

MCNegInf == -9

Expand(score, raw, parent, token) ==
  [score |-> score, raw |-> raw, parent |-> parent, token |-> token,
   length |-> 2, fromLogprob |-> 1]

Finished(score, raw, parent) ==
  [score |-> score, raw |-> raw, parent |-> parent, token |-> 0,
   length |-> 1, fromLogprob |-> 0]

MCOffers ==
  {Expand(-1, -2, 0, 1), Expand(-1, -2, 0, 2), Expand(-1, -1, 2, 1),
   Expand(-2, -3, 2, 2), Finished(-1, -1, 1), Expand(0, -1, 3, 1),
   Expand(-9, -9, 3, 2)}
=============================================================================
