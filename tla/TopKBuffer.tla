------------------------------ MODULE TopKBuffer ------------------------------
(***************************************************************************)
(* What insert_topk promises its callers: after any series of offers the   *)
(* buffer holds the best P of the candidates offered, best first.  One     *)
(* offer is one step.  TopKInsert implements this module.                  *)
(***************************************************************************)
EXTENDS Candidates

CONSTANT Offers  (* the candidates a step of the decoder may offer         *)

VARIABLES
  top,     (* the buffer                                                   *)
  offered  (* history: the candidates offered since the buffer was reset   *)

vars == <<top, offered>>

Init ==
  /\ top = EmptyBuffer
  /\ offered = {}

\* A scan visits each (parent, token) once, so no candidate comes twice.
Offer(c) ==
  /\ c \notin offered
  /\ top' = Insert(top, c)
  /\ offered' = offered \cup {c}

Next == \E c \in Offers : Offer(c)

Spec == Init /\ [][Next]_vars
=============================================================================
