------------------------------ MODULE Candidates ------------------------------
(***************************************************************************)
(* The hypotheses the decoder ranks and the bounded buffer it keeps them   *)
(* in: struct Candidate, candidate_better and insert_topk.                 *)
(*                                                                         *)
(* A 32-bit float is an integer between NegInf and PosInf, which stand for *)
(* -infinity and +infinity; a sum that leaves the range saturates, as a    *)
(* float sum that overflows does.  As a log-probability NegInf stands for  *)
(* every non-finite value, NaN and +infinity included: the scan tests      *)
(* std::isfinite and skips all of them alike.                              *)
(***************************************************************************)
EXTENDS Integers

CONSTANTS
  NegInf,  (* the integer standing for -infinity                           *)
  PosInf,  (* the integer standing for +infinity                           *)
  P        (* relaxed pool size: the number of slots of the top buffer     *)

ASSUME InfAssumption ==
  NegInf \in Int /\ PosInf \in Int /\ NegInf < 0 /\ 0 < PosInf
ASSUME PAssumption == P \in Nat \ {0}

Score       == NegInf .. PosInf
IsFinite(x) == NegInf < x /\ x < PosInf

\* Addition of 32-bit floats, of which only -infinity may be infinite.
FloatAdd(a, b) ==
  IF a = NegInf \/ b = NegInf \/ a + b <= NegInf THEN NegInf
  ELSE IF a + b >= PosInf THEN PosInf
  ELSE a + b

Candidate ==
  [score : Score, raw : Score, parent : Int, token : Int,
   length : Nat, fromLogprob : {0, 1}]

\* What every slot of the buffer is reset to at the beginning of a step.
Placeholder ==
  [score |-> NegInf, raw |-> NegInf, parent |-> -1, token |-> -1,
   length |-> 0, fromLogprob |-> 0]

\* Faulty variant of Better: among ties on score the later parent wins.
BetterLaterParent(a, b) ==
  \/ a.score > b.score
  \/ a.score = b.score /\ a.parent > b.parent

(***************************************************************************)
(* The total order of the decoder: score, then raw score, both descending; *)
(* parent, token and length ascending; an expansion before a carry.        *)
(***************************************************************************)
Better(a, b) ==
  \/ a.score > b.score
  \/ /\ a.score = b.score
     /\ \/ a.raw > b.raw
        \/ /\ a.raw = b.raw
           /\ \/ a.parent < b.parent
              \/ /\ a.parent = b.parent
                 /\ \/ a.token < b.token
                    \/ /\ a.token = b.token
                       /\ \/ a.length < b.length
                          \/ /\ a.length = b.length
                             /\ a.fromLogprob > b.fromLogprob

-----------------------------------------------------------------------------
(***************************************************************************)
(* The buffer: slots 0 .. P-1, best first.                                 *)
(***************************************************************************)
Slot   == 0 .. P - 1
Buffer == [Slot -> Candidate]

EmptyBuffer == [i \in Slot |-> Placeholder]

\* The buffer with c in slot pos and the slots from pos on moved down by one.
ShiftIn(top, c, pos) ==
  [i \in Slot |-> IF i < pos THEN top[i] ELSE IF i = pos THEN c ELSE top[i - 1]]

\* The slot the binary search of insert_topk ends on: the first one c beats.
FirstBeaten(top, c) ==
  CHOOSE i \in Slot : Better(c, top[i]) /\ \A j \in 0 .. i - 1 : ~Better(c, top[j])

\* insert_topk as one step (TopKInsert has its loops).
Insert(top, c) ==
  IF Better(c, top[P - 1]) THEN ShiftIn(top, c, FirstBeaten(top, c)) ELSE top

-----------------------------------------------------------------------------
(***************************************************************************)
(* What it means for a row of slots 0 .. n-1 to hold the best n candidates *)
(* of a set, best first, padded with placeholders.                         *)
(***************************************************************************)
Sorted(row, n) ==
  \A i, j \in 0 .. n - 1 : i < j => ~Better(row[j], row[i])

OnlyFrom(row, n, S) ==
  \A i \in 0 .. n - 1 : row[i] \in S \cup {Placeholder}

NoDuplicate(row, n) ==
  \A i, j \in 0 .. n - 1 : row[i] = row[j] => i = j \/ row[i] = Placeholder

NothingBetterLeftOut(row, n, S) ==
  \A c \in S : Better(c, row[n - 1]) => \E i \in 0 .. n - 1 : row[i] = c

HoldsBest(row, n, S) ==
  /\ Sorted(row, n)
  /\ OnlyFrom(row, n, S)
  /\ NoDuplicate(row, n)
  /\ NothingBetterLeftOut(row, n, S)
=============================================================================
