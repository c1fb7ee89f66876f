----------------------------- MODULE SoftWeights -----------------------------
(***************************************************************************)
(* soft_topk_inclusion: the weights with which the candidates of a pool    *)
(* are relaxed.  A bisection looks for the threshold theta at which the    *)
(* sigmoids of the scores, shifted by theta, add up to the beam size.      *)
(*                                                                         *)
(* Scores and theta lie on a grid with Unit points to a unit of score; the *)
(* sigmoid rises by one from point to point, from 0 at Reach points below  *)
(* theta to One at Reach above.  What matters of it is that it rises.  The *)
(* grid ends where the floats do: past it a sum is infinite.               *)
(***************************************************************************)
EXTENDS BeamResult, FiniteSetsExt

CONSTANTS
  Unit,       (* grid points per unit of score                             *)
  Reach,      (* grid points from theta at which a sigmoid has saturated   *)
  Tolerance,  (* soft_topk_tolerance, of a sum of sigmoids up to One       *)
  MaxIters,   (* soft_topk_max_iters                                       *)
  NegGuard    (* NEG_GUARD: no weight for a score as low as this           *)

ASSUME GridAssumption ==
  /\ {Unit, Reach} \subseteq Nat \ {0}
  /\ {Tolerance, MaxIters} \subseteq Nat
  /\ Reach < Unit * PosInf
ASSUME GuardAssumption == NegGuard \in NegInf .. -1

One == 2 * Reach

Sigmoid(x) == IF x <= -Reach THEN 0 ELSE IF x >= Reach THEN One ELSE x + Reach

\* The point of an infinite score, which every sum beyond it becomes.
Infinity == Unit * PosInf

GridAdd(x, y) ==
  IF Infinity \in {x, y} \/ x + y >= Infinity THEN Infinity ELSE x + y

\* The slots above NEG_GUARD.
Active(scores) == {i \in Slot : scores[i] > NegGuard}

\* soft_topk_write, which leaves a weight of 0 to the others.  Below an infinite
\* theta a finite score saturates, and so does an infinite one: the difference is
\* not a number, which the clamp of the exponential takes for the lowest.
Weights(scores, theta) ==
  [i \in Slot |-> IF i \in Active(scores) /\ theta < Infinity
                 THEN Sigmoid(Unit * scores[i] - theta) ELSE 0]

\* sum_sigmoid_shifted
SumShifted(scores, theta) == MapThenSumSet(LAMBDA i : Weights(scores, theta)[i], Slot)

Lowest(scores)  == Unit * Min({scores[i] : i \in Active(scores)})
Highest(scores) == Unit * Max({scores[i] : i \in Active(scores)})

\* Faulty variant of FirstBracket: theta between the scores themselves.
BracketOfScores(scores) == [lo |-> Lowest(scores), hi |-> Highest(scores)]

\* A bracket beyond which every sigmoid has saturated.
FirstBracket(scores) ==
  [lo |-> GridAdd(Lowest(scores), -Reach), hi |-> GridAdd(Highest(scores), Reach)]

\* Half the sum of the ends, which is infinite as soon as the sum is.
Middle(bracket) ==
  LET sum == GridAdd(bracket.lo, bracket.hi)
  IN  IF sum = Infinity THEN Infinity ELSE sum \div 2

\* The width at which a bracket around theta is left: the tolerance, relative to
\* theta when that is more than a unit from 0, but never less than the grid.
NarrowAt(theta) ==
  LET far == Max({Unit, theta, -theta})
  IN  Max({1, (Tolerance * far) \div One})

\* The bracket is left when the sum is right, or when it is narrow, as any is
\* around an infinite middle; else the middle replaces an end.
Stops(scores, bracket) ==
  LET mid == Middle(bracket)
      err == SumShifted(scores, mid) - One * K
  IN  \/ err \in -Tolerance .. Tolerance
      \/ mid = Infinity
      \/ bracket.hi - bracket.lo <= NarrowAt(mid)

Halve(scores, bracket) ==
  LET mid == Middle(bracket)
  IN  IF Stops(scores, bracket) THEN [lo |-> mid, hi |-> mid]
      ELSE IF SumShifted(scores, mid) > One * K THEN [bracket EXCEPT !.lo = mid]
      ELSE [bracket EXCEPT !.hi = mid]

\* A bracket that has collapsed to one point stays there.
Theta(scores) ==
  LET bracket[n \in 0 .. MaxIters] ==
        IF n = 0 THEN FirstBracket(scores) ELSE Halve(scores, bracket[n - 1])
  IN  Middle(bracket[MaxIters])

Inclusion(scores) ==
  IF K < Cardinality(Active(scores)) THEN Weights(scores, Theta(scores))
  ELSE [i \in Slot |-> IF i \in Active(scores) THEN One ELSE 0]

-----------------------------------------------------------------------------
\* The ends of the bracket may add up to more than a float holds.
MayOverflow(scores) == 2 * (Highest(scores) + Reach) >= Infinity

(***************************************************************************)
(* The weights of a complete pool add up to the beam size, or to as many   *)
(* candidates as there are, within the tolerance or what the width at      *)
(* which the search stops makes of P sigmoids.  The exception: with more   *)
(* candidates than beams, a score beyond half the range of a float may     *)
(* make the threshold infinite, and an infinite score does; then nothing   *)
(* has a weight.  In every case none has more than a whole share, an empty *)
(* slot has none, and a better score never has a smaller share than a      *)
(* worse.                                                                  *)
(***************************************************************************)
InclusionFillsBeam ==
  pc = "scan" /\ b = K =>
    LET scores == [i \in Slot |-> top[i].score]
        weight == Inclusion(scores)
        count == Cardinality(Active(scores))
        crowded == K < count
        sum == MapThenSumSet(LAMBDA i : weight[i], Slot)
        due == One * (IF crowded THEN K ELSE count)
        slack == IF crowded THEN Max({Tolerance, P * NarrowAt(Theta(scores))}) ELSE 0
    IN  /\ \/ sum - due \in -slack .. slack
           \/ crowded /\ MayOverflow(scores) /\ sum = 0
        /\ crowded /\ (\E i \in Slot : scores[i] = PosInf) => sum = 0
        /\ \A i \in Slot :
             /\ weight[i] \in 0 .. One
             /\ i \notin Active(scores) => weight[i] = 0
             /\ \A j \in Slot : scores[i] > scores[j] => weight[i] >= weight[j]
=============================================================================
