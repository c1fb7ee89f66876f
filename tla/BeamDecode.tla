------------------------------ MODULE BeamDecode ------------------------------
(***************************************************************************)
(* decode_constrained: the loop over steps, beams and vocabulary entries   *)
(* that maintains the top buffer, and the selection that ends a step.      *)
(*                                                                         *)
(* One action per loop body.  Width, MaskedTail and Block describe the     *)
(* kernel that scans a row: Width = 1 is the scalar loop; the SSE4.2, AVX2 *)
(* and AVX-512 kernels test Width lanes against a threshold read once,     *)
(* finish a block with scalar iterations or, with MaskedTail, with a       *)
(* masked vector, and hand rows with token constraints to the scalar loop. *)
(***************************************************************************)
EXTENDS BeamCore

CONSTANTS
  Width,       (* lanes of a vector; 1 for the scalar kernel               *)
  MaskedTail,  (* whether the tail of a block is a masked vector           *)
  Block        (* vocab_block                                              *)

ASSUME KernelAssumption ==
  Width \in Nat \ {0} /\ Block \in Nat \ {0} /\ MaskedTail \in BOOLEAN

VARIABLES
  cons,   (* the constraints of the call                                   *)
  t,      (* the step                                                      *)
  beams,  (* prev_raw_scores, prev_lengths, ended_prev, prev_sequences     *)
  rows,   (* log_probs at this step                                        *)
  pc,     (* "begin" a step, "scan" its rows, "done"                       *)
  b, v,   (* the loop indices                                              *)
  thr,    (* the threshold the current vector was tested against           *)
  top,    (* the buffer of P candidates; after a step, its relaxed pool    *)
  sel     (* the result: the K candidates selected at each step            *)

vars == <<cons, t, beams, rows, pc, b, v, thr, top, sel>>

Init ==
  /\ cons \in ConstraintSpace
  /\ t = 0
  /\ beams = InitialBeams
  /\ rows = [k \in BeamId |-> [u \in Token |-> NegInf]]
  /\ pc = "begin"
  /\ b = 0 /\ v = 0
  /\ thr = NegInf
  /\ top = EmptyBuffer
  /\ sel = << >>

\* A step begins: the buffer is reset, the step's log-probabilities are read.
BeginStep ==
  /\ pc = "begin"
  /\ pc' = "scan"
  /\ rows' \in Rows(beams)
  /\ b' = 0 /\ v' = 0
  /\ thr' = NegInf
  /\ top' = EmptyBuffer
  /\ UNCHANGED <<cons, t, beams, sel>>

\* Faulty variant of NextRow: the token index is not reset.
NextRowNoReset ==
  /\ b' = b + 1
  /\ v' = v + 1
  /\ UNCHANGED <<cons, t, beams, rows, pc, sel>>

\* The row is done; on to the next beam.
NextRow ==
  /\ b' = b + 1
  /\ v' = 0
  /\ UNCHANGED <<cons, t, beams, rows, pc, sel>>

\* if (!std::isfinite(parent_raw)) continue;
SkipDead ==
  /\ pc = "scan" /\ b < K
  /\ ~Live(beams[b])
  /\ NextRow
  /\ UNCHANGED <<thr, top>>

\* Faulty variant of CarryFinished: finished beams are skipped.
CarryFinishedSkips ==
  /\ pc = "scan" /\ b < K
  /\ Finished(beams[b])
  /\ NextRow
  /\ UNCHANGED <<thr, top>>

\* A finished beam competes with its own score and proposes nothing new.
CarryFinished ==
  /\ pc = "scan" /\ b < K
  /\ Finished(beams[b])
  /\ top' = Insert(top, Carry(beams, b))
  /\ NextRow
  /\ UNCHANGED thr

-----------------------------------------------------------------------------
\* Does a vector kernel scan this row itself?
VectorRow ==
  /\ Width > 1
  /\ ~HasAdvanced(cons)
  /\ cons.banned = {}
  /\ cons.forced[t] < 0
  /\ ~TooShortToEnd(cons, beams[b])

\* The first lane of the group of Width tokens v falls in; groups restart at
\* every block.
LaneBase == v - ((v % Block) % Width)

\* Is v tested in a vector, rather than in the scalar tail of its block?
InVector ==
  /\ VectorRow
  /\ \/ MaskedTail
     \/ /\ LaneBase + Width <= V
        /\ LaneBase + Width <= ((v \div Block) + 1) * Block

\* Faulty variant of Threshold: the worst selected candidate, not the worst of
\* the pool.
ThresholdOfSelected == IF v = LaneBase THEN top[K - 1].score ELSE thr

\* top[P-1].score as the vector of v read it, before any of its lanes.
Threshold == IF v = LaneBase THEN top[P - 1].score ELSE thr

\* One vocabulary entry of an open beam.
ScanToken ==
  /\ pc = "scan" /\ b < K
  /\ Open(beams[b])
  /\ LET c == Expand(cons, beams, rows, b, v)
     IN  top' = IF /\ Proposes(cons, t, beams, rows, b, v)
                   /\ InVector => c.score > Threshold
                THEN Insert(top, c)
                ELSE top
  /\ thr' = IF InVector /\ v + 1 < V THEN Threshold ELSE NegInf
  /\ IF v + 1 < V
     THEN v' = v + 1 /\ UNCHANGED <<cons, t, beams, rows, pc, b, sel>>
     ELSE NextRow

\* All rows are scanned: the first K slots become the next beams.
Select ==
  /\ pc = "scan" /\ b = K
  /\ LET row == [k \in BeamId |-> top[k]]
     IN  /\ sel' = Append(sel, row)
         /\ beams' = Advance(beams, row)
  /\ t' = t + 1
  /\ pc' = IF t + 1 < T THEN "begin" ELSE "done"
  /\ UNCHANGED <<cons, rows, b, v, thr, top>>

Next == BeginStep \/ SkipDead \/ CarryFinished \/ ScanToken \/ Select

Spec == Init /\ [][Next]_vars

-----------------------------------------------------------------------------
\* The scan indexes beams, tokens and buffer within their bounds, and every
\* ranking score it computes is a float.
TypeOK ==
  /\ cons \in ConstraintSpace
  /\ t \in 0 .. T
  /\ beams \in [BeamId -> Beam]
  /\ rows \in [BeamId -> [Token -> LogProb]]
  /\ pc \in {"begin", "scan", "done"}
  /\ b \in 0 .. K /\ v \in 0 .. V - 1
  /\ thr \in Score
  /\ top \in Buffer
  /\ sel \in Seq([BeamId -> Candidate])
  /\ Len(sel) = t
  /\ pc # "done" => t < T

\* The candidates the scan has passed so far in this step.
Scanned ==
  (UNION {Proposals(cons, t, beams, rows, k, V) : k \in 0 .. b - 1})
    \cup (IF b < K /\ Open(beams[b]) THEN Proposals(cons, t, beams, rows, b, v)
          ELSE {})

(***************************************************************************)
(* At every point of the scan the buffer is the sorted list of the best P  *)
(* of the candidates passed so far: the early return, the threshold of the *)
(* vector kernels and the order of the loops lose nothing, and the relaxed *)
(* pool a step exports is the best P of all continuations.                 *)
(***************************************************************************)
PoolHoldsBest == pc = "scan" => HoldsBest(top, P, Scanned)

\* decode_constrained implements beam search.
Abstract == INSTANCE BeamSearch WITH fed <- (pc = "scan")

ImplementsBeamSearch == Abstract!Spec

-----------------------------------------------------------------------------
\* No two live beams hold the same hypothesis, so the beam is never wasted
\* on duplicates: not by ties, and not by a finished beam and its parent.
DistinctHypotheses ==
  \A j, k \in BeamId :
    Live(beams[j]) /\ Live(beams[k]) /\ beams[j].seq = beams[k].seq => j = k

\* The length that drives the penalty and min_length is the number of tokens
\* of the hypothesis, its end token counted; an open beam has one per step;
\* the end token is exactly what closes a beam.
LengthsMatch ==
  \A k \in BeamId : Live(beams[k]) =>
    LET s == beams[k].seq
    IN  /\ beams[k].len = Len(s)
        /\ Open(beams[k]) => Len(s) = t
        /\ \A i \in 1 .. Len(s) : s[i] = EOS => i = Len(s) /\ beams[k].ended
        /\ beams[k].ended => Len(s) > 0 /\ s[Len(s)] = EOS

\* A finished hypothesis never changes: each one either was finished before,
\* with the same raw score, or has just been closed by an end token.
FinishedFrozen ==
  [][\A k \in BeamId : Finished(beams'[k]) =>
       \E j \in BeamId :
         \/ /\ Finished(beams[j])
            /\ beams'[k].seq = beams[j].seq
            /\ beams'[k].raw = beams[j].raw
         \/ Open(beams[j]) /\ beams'[k].seq = Append(beams[j].seq, EOS)]_vars

\* No n-gram of s occurs twice in it.
NoNgramTwice(s, n) ==
  \A i, j \in 1 .. Len(s) - n + 1 :
    i < j => SubSeq(s, i, i + n - 1) # SubSeq(s, j, j + n - 1)

\* The constraints are enforced token by token while scanning; here they are
\* read off the hypotheses that come out.
ConstraintsHonoured ==
  \A k \in BeamId : Live(beams[k]) =>
    LET s == beams[k].seq
    IN  /\ \A i \in 1 .. Len(s) :
             /\ s[i] \notin cons.banned
             /\ <<i - 1, SubSeq(s, 1, i - 1), s[i]>> \notin cons.rejects
             /\ cons.forced[i - 1] >= 0 => s[i] = cons.forced[i - 1]
        /\ Finished(beams[k]) => Len(s) >= EffectiveMinLength(cons)
        /\ cons.ngram > 0 => NoNgramTwice(s, cons.ngram)
=============================================================================
