------------------------------ MODULE BeamResult ------------------------------
(***************************************************************************)
(* What a caller reads from a decode: build_sequences, which rebuilds each *)
(* hypothesis by walking the parents of the selected rows backwards, and   *)
(* dbs_result_validate_deterministic_order, which checks their order.      *)
(* Both only read the result: the states are those of BeamDecode.          *)
(***************************************************************************)
EXTENDS BeamDecode, SequencesExt

\* The slot of each of the first Len(sel) steps on the path to beam k; -1 once
\* the path has left the beam.
Path(k) ==
  LET n == Len(sel)
      cur[s \in 1 .. n] ==
        IF s = n THEN k
        ELSE IF cur[s + 1] < 0 THEN -1 ELSE sel[s + 1][cur[s + 1]].parent
  IN  cur

\* Faulty variant of Trace: the parents are not followed.
TraceWithoutParents(k) == [s \in 1 .. Len(sel) |-> sel[s][k].token]

\* The tokens on that path, -1 where the path has left the beam.
Trace(k) ==
  [s \in 1 .. Len(sel) |-> IF Path(k)[s] < 0 THEN -1 ELSE sel[s][Path(k)[s]].token]

\* The tokens before the first end token.
CutAtEnd(seq) ==
  LET end == SelectInSeq(seq, LAMBDA token : EOS >= 0 /\ token = EOS)
  IN  IF end = 0 THEN seq ELSE SubSeq(seq, 1, end - 1)

\* The tokens from the first one that is set.
DropUnset(seq) ==
  LET first == SelectInSeq(seq, LAMBDA token : token >= 0)
  IN  IF first = 0 THEN << >> ELSE SubSeq(seq, first, Len(seq))

BuildSequence(k) == DropUnset(CutAtEnd(Trace(k)))

\* The code the validator returns for neighbours x and y of a row; 0 is fine.
OrderFault(x, y) ==
  IF IsFinite(x.score) /\ IsFinite(y.score) /\ y.score > x.score THEN -3
  ELSE IF /\ x.score = y.score
          /\ \/ y.parent < x.parent
             \/ y.parent = x.parent /\ y.token < x.token
       THEN -4
  ELSE 0

ValidatesOrder ==
  \A s \in 1 .. Len(sel), k \in 1 .. K - 1 : OrderFault(sel[s][k - 1], sel[s][k]) = 0

-----------------------------------------------------------------------------
\* The hypothesis rebuilt from the parents is the one the decoder extended
\* step by step, without its end token; a dead beam rebuilds to nothing.
TraceMatchesPrefix ==
  pc # "scan" /\ t > 0 =>
    \A k \in BeamId :
      LET seq == beams[k].seq
      IN  BuildSequence(k) =
            IF beams[k].ended THEN SubSeq(seq, 1, Len(seq) - 1) ELSE seq

\* A finished decode passes its own order check.
ResultPassesValidation == pc = "done" => ValidatesOrder
=============================================================================
