------------------------------- MODULE BeamCore -------------------------------
(***************************************************************************)
(* The vocabulary of hard beam decoding: what a beam is, which             *)
(* continuations of it a step may propose, and what the beams become once  *)
(* a row of K candidates has been selected.  BeamSearch (what a step       *)
(* promises) and BeamDecode (how decode_constrained computes it) share it. *)
(***************************************************************************)
EXTENDS Candidates, Sequences

CONSTANTS
  K,                (* beam_size                                           *)
  V,                (* vocab_size                                          *)
  T,                (* steps                                               *)
  EOS,              (* eos_token; -1 when decoding has no end token        *)
  MinLength,        (* BeamOptions::min_length                             *)
  LogProb,          (* the log-probabilities a row may hold                *)
  Rank(_, _),       (* raw score and length to ranking score, in a scan    *)
  CarryRank(_, _),  (* the same for a finished beam (divides, so it may    *)
                    (* round another way)                                  *)
  ConstraintSpace   (* the DecodeConstraints a caller may pass             *)

BeamId == 0 .. K - 1
Token  == 0 .. V - 1

(***************************************************************************)
(* DecodeConstraints.  repetition is log(repetition_penalty), 0 when the   *)
(* penalty is off; rejects holds the steps, prefixes and tokens for which  *)
(* token_filter answers no, and is {} when there is no filter (one that    *)
(* always agrees rejects something it is never asked, at step T); banned   *)
(* is {} and forced is -1 everywhere when the pointers are null.           *)
(***************************************************************************)
Constraint ==
  [banned : SUBSET Token, forced : [0 .. T - 1 -> -1 .. V - 1],
   minLength : Int, repetition : Nat, ngram : Nat,
   rejects : SUBSET (Nat \X Seq(Token) \X Token)]

ASSUME DimensionsAssumption ==
  K \in Nat \ {0} /\ V \in Nat \ {0} /\ T \in Nat \ {0} /\ P >= K
ASSUME OptionsAssumption == EOS \in -1 .. V - 1 /\ MinLength \in Nat
ASSUME LogProbAssumption == LogProb \subseteq Score /\ NegInf \in LogProb
ASSUME RankAssumption ==
  \A raw \in Score, n \in 1 .. T :
    Rank(raw, n) \in Score /\ CarryRank(raw, n) \in Score
ASSUME ConstraintAssumption == ConstraintSpace \subseteq Constraint

Beam == [raw : Score, len : Nat, ended : BOOLEAN, seq : Seq(Token)]

DeadBeam == [raw |-> NegInf, len |-> 0, ended |-> FALSE, seq |-> << >>]

Live(beam) == IsFinite(beam.raw)

\* A beam whose hypothesis is complete and is only carried along.
Finished(beam) == Live(beam) /\ EOS >= 0 /\ beam.ended

\* A beam whose row of log-probabilities the step scans.
Open(beam) == Live(beam) /\ ~Finished(beam)

\* Faulty variant of InitialBeams: every beam starts live.
InitialCopies == [k \in BeamId |-> [DeadBeam EXCEPT !.raw = 0]]

\* Only beam 0 is live at the start: K copies of one hypothesis would tie.
InitialBeams ==
  [k \in BeamId |-> IF k = 0 THEN [DeadBeam EXCEPT !.raw = 0] ELSE DeadBeam]

\* A step's [K, V] log-probabilities.  Rows that are never read are pinned.
Rows(beams) ==
  {r \in [BeamId -> [Token -> LogProb]] :
     \A k \in BeamId : Open(beams[k]) \/ r[k] = [u \in Token |-> NegInf]}

-----------------------------------------------------------------------------
(***************************************************************************)
(* Constraints on one expansion.                                           *)
(***************************************************************************)
EffectiveMinLength(cons) ==
  IF cons.minLength >= 0 THEN cons.minLength ELSE MinLength

HasAdvanced(cons) == cons.repetition > 0 \/ cons.ngram > 0 \/ cons.rejects # {}

ContainsToken(prefix, v) == \E i \in 1 .. Len(prefix) : prefix[i] = v

\* Faulty variant of RepeatsNgram: the last n-gram is not compared.
RepeatsNgramButLast(prefix, v, n) ==
  \/ n = 1 /\ ContainsToken(prefix, v)
  \/ /\ n > 1
     /\ \E i \in 1 .. Len(prefix) - n :
          /\ \A j \in 0 .. n - 2 : prefix[i + j] = prefix[Len(prefix) - n + 2 + j]
          /\ prefix[i + n - 1] = v

\* Would appending v repeat an n-gram of the prefix?
RepeatsNgram(prefix, v, n) ==
  \/ n = 1 /\ ContainsToken(prefix, v)
  \/ /\ n > 1
     /\ \E i \in 1 .. Len(prefix) - n + 1 :
          /\ \A j \in 0 .. n - 2 : prefix[i + j] = prefix[Len(prefix) - n + 2 + j]
          /\ prefix[i + n - 1] = v

\* Would an end token now make the hypothesis shorter than min_length?
TooShortToEnd(cons, beam) == EOS >= 0 /\ beam.len + 1 < EffectiveMinLength(cons)

Allowed(cons, t, beam, v) ==
  /\ cons.forced[t] < 0 \/ v = cons.forced[t]
  /\ v \notin cons.banned
  /\ ~(v = EOS /\ TooShortToEnd(cons, beam))
  /\ ~RepeatsNgram(beam.seq, v, cons.ngram)
  /\ <<t, beam.seq, v>> \notin cons.rejects

\* The log-probability after the repetition penalty.
Penalised(cons, beam, v, lp) ==
  IF ContainsToken(beam.seq, v) THEN FloatAdd(lp, -cons.repetition) ELSE lp

-----------------------------------------------------------------------------
(***************************************************************************)
(* The candidates a step proposes.                                         *)
(***************************************************************************)
Expand(cons, beams, rows, k, v) ==
  LET raw == FloatAdd(beams[k].raw, Penalised(cons, beams[k], v, rows[k][v]))
      len == beams[k].len + 1
  IN  [score |-> Rank(raw, len), raw |-> raw, parent |-> k, token |-> v,
       length |-> len, fromLogprob |-> 1]

\* Faulty variant of Carry: a carried beam counts one more token.
CarryGrows(beams, k) ==
  [score |-> CarryRank(beams[k].raw, beams[k].len + 1), raw |-> beams[k].raw,
   parent |-> k, token |-> EOS, length |-> beams[k].len + 1, fromLogprob |-> 0]

Carry(beams, k) ==
  LET len == IF beams[k].len < 1 THEN 1 ELSE beams[k].len
  IN  [score |-> CarryRank(beams[k].raw, len), raw |-> beams[k].raw,
       parent |-> k, token |-> EOS, length |-> len, fromLogprob |-> 0]

Proposes(cons, t, beams, rows, k, v) ==
  Allowed(cons, t, beams[k], v) /\ IsFinite(rows[k][v])

\* What beam k proposes when its tokens 0 .. n-1 have been scanned.
Proposals(cons, t, beams, rows, k, n) ==
  IF Finished(beams[k]) THEN {Carry(beams, k)}
  ELSE IF Live(beams[k])
  THEN {Expand(cons, beams, rows, k, v) :
          v \in {u \in 0 .. n - 1 : Proposes(cons, t, beams, rows, k, u)}}
  ELSE {}

Continuations(cons, t, beams, rows) ==
  UNION {Proposals(cons, t, beams, rows, k, V) : k \in BeamId}

(***************************************************************************)
(* The beams after a step, from the K selected candidates.                 *)
(***************************************************************************)

\* Faulty variant of NextBeam: a carried beam appends its end token again.
NextBeamAppendsCarry(beams, c) ==
  IF c.parent < 0 THEN [DeadBeam EXCEPT !.raw = c.raw, !.len = c.length]
  ELSE [raw   |-> c.raw,
        len   |-> c.length,
        ended |-> beams[c.parent].ended \/ (EOS >= 0 /\ c.token = EOS),
        seq   |-> Append(beams[c.parent].seq, c.token)]

\* The beam a selected candidate becomes.
NextBeam(beams, c) ==
  IF c.parent < 0 THEN [DeadBeam EXCEPT !.raw = c.raw, !.len = c.length]
  ELSE LET parent == beams[c.parent]
       IN  [raw   |-> c.raw,
            len   |-> c.length,
            ended |-> parent.ended \/ (EOS >= 0 /\ c.token = EOS),
            seq   |-> IF c.fromLogprob = 1 /\ c.token >= 0
                      THEN Append(parent.seq, c.token)
                      ELSE parent.seq]

\* The beams the selected row becomes.
Advance(beams, row) == [k \in BeamId |-> NextBeam(beams, row[k])]
=============================================================================
