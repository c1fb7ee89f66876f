---------------------------- MODULE MCBeamValues ----------------------------
(***************************************************************************)
(* Log-probabilities, ranking functions and constraints for the small      *)
(* instances of the modules over BeamCore.                                 *)
(***************************************************************************)
EXTENDS BeamCore

MCNegInf == -9

\* A masked token (-infinity), an ordinary value and the certain token.
TwoLogProbs == {MCNegInf, -1, 0}

\* A value of which two sum to +infinity, and whose sums with -1 do not.
HighLogProbs == {MCNegInf, -1, 3}

\* Values of which two of a sign overflow, downwards or upwards.
ExtremeLogProbs == {MCNegInf, -5, 5}

\* The certain token as well, and a value of which two sum to -infinity.
ThreeLogProbs == {MCNegInf, -5, -1, 0}

-----------------------------------------------------------------------------
\* Three steps of -1 sink to NEG_GUARD.
MCNegGuard == -3

\* length_penalty_alpha = 0: the ranking score is the raw score.
RawRank(raw, n) == raw

(***************************************************************************)
(* length_penalty_alpha > 0: a longer hypothesis is divided by more, and   *)
(* the quotient is rounded to the grid of the ranking scores, so distinct  *)
(* raw scores may share a rank (1 / penalty is rounded, then the product). *)
(* The carry of a finished beam divides instead, and rounds another way.   *)
(***************************************************************************)
LengthRank(raw, n) ==
  IF raw \in {NegInf, PosInf} THEN raw ELSE -((-raw) \div n)

LengthCarryRank(raw, n) ==
  IF raw \in {NegInf, PosInf} THEN raw ELSE -((-raw + n - 1) \div n)

-----------------------------------------------------------------------------
\* forced_tokens with token u at step s; none at all when s is not a step.
Forcing(s, u) == [r \in 0 .. T - 1 |-> IF r = s THEN u ELSE -1]

NoConstraint ==
  [banned |-> {}, forced |-> Forcing(T, -1), minLength |-> -1, repetition |-> 0,
   ngram |-> 0, rejects |-> {}]

NoConstraints == {NoConstraint}

\* A token_filter that asks for the step and the prefix: it turns the last token
\* down at the first step, and later wherever token u ends the prefix.
RejectsLastAfter(u) ==
  {<<0, <<>>, V - 1>>}
    \cup {<<s, Append(p, u), V - 1>> :
            s \in 1 .. T - 1, p \in UNION {[1 .. n -> Token] : n \in 0 .. T - 2}}

\* Every kind of constraint, alone and combined.
SomeConstraints ==
  {NoConstraint,
   [NoConstraint EXCEPT !.banned = {1}],
   [NoConstraint EXCEPT !.forced = Forcing(1, 1)],
   [NoConstraint EXCEPT !.forced = Forcing(0, EOS), !.minLength = 1],
   [NoConstraint EXCEPT !.minLength = 3],
   [NoConstraint EXCEPT !.minLength = 0],
   [NoConstraint EXCEPT !.ngram = 1],
   [NoConstraint EXCEPT !.ngram = 2, !.repetition = 1],
   [NoConstraint EXCEPT !.ngram = 2, !.forced = Forcing(2, 1)],
   [NoConstraint EXCEPT !.rejects = RejectsLastAfter(EOS), !.repetition = 1]}
=============================================================================
