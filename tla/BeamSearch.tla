------------------------------ MODULE BeamSearch ------------------------------
(***************************************************************************)
(* Hard beam search as a caller understands it: each step, the K beams are *)
(* replaced by the best K of all their legal continuations, in the order   *)
(* candidate_better defines.  Nothing here scans, buffers or vectorises;   *)
(* BeamDecode implements this module.                                      *)
(***************************************************************************)
EXTENDS BeamCore

VARIABLES
  cons,   (* the constraints of the call                                   *)
  t,      (* steps decoded                                                 *)
  beams,  (* the K hypotheses                                              *)
  rows,   (* the log-probabilities of the step being decoded               *)
  fed     (* whether those have been supplied                              *)

vars == <<cons, t, beams, rows, fed>>

Init ==
  /\ cons \in ConstraintSpace
  /\ t = 0
  /\ beams = InitialBeams
  /\ rows = [k \in BeamId |-> [v \in Token |-> NegInf]]
  /\ fed = FALSE

Feed ==
  /\ ~fed
  /\ t < T
  /\ rows' \in Rows(beams)
  /\ fed' = TRUE
  /\ UNCHANGED <<cons, t, beams>>

Select ==
  /\ fed
  /\ LET all == Continuations(cons, t, beams, rows)
     IN  \E row \in [BeamId -> all \cup {Placeholder}] :
           /\ HoldsBest(row, K, all)
           /\ beams' = Advance(beams, row)
  /\ t' = t + 1
  /\ fed' = FALSE
  /\ UNCHANGED <<cons, rows>>

Next == Feed \/ Select

Spec == Init /\ [][Next]_vars
=============================================================================
