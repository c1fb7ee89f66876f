----------------------------- MODULE BackwardProofs -----------------------------
(***************************************************************************)
(* The backward passes for every beam size, pool, vocabulary, number of    *)
(* steps, decode and upstream gradient: no scatter leaves its array, no    *)
(* gradient is lost on the way back, and what both forms return is the     *)
(* derivative along the paths of the decode.                               *)
(***************************************************************************)
EXTENDS Backward, SumProofs, SequenceTheorems

(***************************************************************************)
(* Types.  Whether a slot may be scattered is settled by the decode: what  *)
(* a pool holds is a placeholder or extends or carries a live beam, so a   *)
(* parent that is not -1 is a beam, and one that was live a step before.   *)
(***************************************************************************)

\* What a slot of list[s], the pool of step s - 1, may hold.
SlotOK(list, s, c) ==
  \/ c = Placeholder
  \/ /\ c.parent \in BeamId
     /\ c.fromLogprob = 1 => c.token \in Token
     /\ s > 1 => list[s - 1][c.parent].parent >= 0

DecodeInv ==
  /\ Len(pools) = IF pc = "decode" THEN t ELSE T
  /\ \A k \in BeamId : beams[k].len <= Len(pools)
  /\ \A s \in 1 .. Len(pools), n \in Slot : SlotOK(pools, s, pools[s][n])
  /\ \A k \in BeamId :
       Len(pools) > 0 /\ pools[Len(pools)][k].parent < 0 => ~Live(beams[k])

Passing == pc \in {"selected", "relaxed", "swap"}

\* Where the pass is, and what it has not begun.
PhaseInv ==
  /\ pc = "decode" =>
       at = 0 /\ next = NoGradient /\ prev = NoGradient
       /\ dense = [n \in Index |-> 0] /\ entries = << >>
  /\ Passing => t < T
  /\ pc = "selected" => at < K
  /\ pc \in {"swap", "sort", "merge", "done"} => at = 0
  /\ pc \in {"sort", "merge", "done"} => t = 0
  /\ pc \in {"sort", "merge"} => form = "sparse" /\ entries # << >>
  /\ pc # "merge" /\ pc # "done" => i = 1 /\ out = << >>

TypeInv == TypeOK /\ DecodeInv /\ PhaseInv

\* The dense gradient has an element for each step, beam and token, and no two
\* steps share one.
LEMMA IndexOf ==
  ASSUME NEW s \in Step, NEW k \in BeamId, NEW u \in Token
  PROVE  /\ (s * K + k) * V + u \in Index
         /\ (s * K) * V <= (s * K + k) * V + u
         /\ (s * K + k) * V + u < ((s + 1) * K) * V
<1> PICK a \in Nat : a = s * K
  BY DimensionsAssumption DEF Step
<1> PICK kk \in Nat, uu \in Nat : kk = k /\ uu = u /\ kk < K /\ uu < V
  BY DimensionsAssumption DEF BeamId, Token
<1>0. K \in Nat /\ V \in Nat /\ T \in Nat /\ s \in Nat /\ s + 1 <= T
  BY DimensionsAssumption DEF Step
<1>1. (s + 1) * K = a + K /\ (s + 1) * K <= T * K
  BY <1>0
<1>2. \A x, y, z \in Nat : x <= y => x * z <= y * z
  OBVIOUS
<1>3. a * V <= (a + kk) * V /\ (a + kk + 1) * V <= (a + K) * V
  BY <1>0, <1>2
<1>4. (a + kk + 1) * V = (a + kk) * V + V
  BY <1>0
<1>5. (a + K) * V <= (T * K) * V /\ (T * K) * V \in Int /\ (T * K) * V = T * K * V
  BY <1>0, <1>1, <1>2
<1>6. (a + kk) * V \in Nat /\ (a + kk + 1) * V \in Nat /\ (a + K) * V \in Nat /\ a * V \in Nat
  BY <1>0
<1>7. (a + kk) * V + uu \in 0 .. T * K * V - 1
      /\ a * V <= (a + kk) * V + uu /\ (a + kk) * V + uu < (a + K) * V
  BY <1>0, <1>3, <1>4, <1>5, <1>6
<1> QED  BY <1>1, <1>7 DEF Index

\* There is something to index.
LEMMA ProductPositive == T * K * V \in Nat /\ T * K * V > 0
<1>1. \A x, y \in Nat \ {0} : x * y \in Nat \ {0}
  OBVIOUS
<1> QED  BY <1>1, DimensionsAssumption

\* A sum of floats is a float.
LEMMA FloatAddType ==
  ASSUME NEW x \in Int, NEW y \in Int
  PROVE  FloatAdd(x, y) \in Score
BY InfAssumption DEF FloatAdd, Score

\* The fields of a candidate and of a placeholder.
LEMMA CandidateFields ==
  /\ Placeholder \in Candidate
  /\ \A c \in Candidate :
       /\ c.score \in Score /\ c.raw \in Score /\ c.parent \in Int /\ c.token \in Int
       /\ c.length \in Nat /\ c.fromLogprob \in {0, 1}
  /\ Placeholder.parent = -1 /\ Placeholder.fromLogprob = 0
  /\ Placeholder.raw = NegInf /\ Placeholder.length = 0
<1>1. NegInf \in Score
  BY InfAssumption DEF Score
<1> QED  BY <1>1 DEF Candidate, Placeholder

\* What a step proposes extends or carries a live beam.
LEMMA ContinuationType ==
  ASSUME cons \in ConstraintSpace, beams \in [BeamId -> Beam], t \in Nat, t < T,
         \A k \in BeamId : beams[k].len <= t,
         NEW rows \in Rows(beams), NEW c \in Continuations(cons, t, beams, rows)
  PROVE  /\ c \in Candidate /\ c.parent \in BeamId /\ Live(beams[c.parent])
         /\ c.fromLogprob = 1 => c.token \in Token
         /\ c.length <= t + 1
<1>1. PICK k \in BeamId : c \in Proposals(cons, t, beams, rows, k, V)
  BY DEF Continuations
<1>2. /\ beams[k].raw \in Score /\ beams[k].len \in 0 .. t /\ k \in Int /\ EOS \in Int
      /\ cons.repetition \in Nat
  BY ConstraintAssumption, OptionsAssumption DEF Beam, Constraint, BeamId
<1>3. CASE Finished(beams[k])
  <2> DEFINE len == IF beams[k].len < 1 THEN 1 ELSE beams[k].len
  <2>1. c = [score |-> CarryRank(beams[k].raw, len), raw |-> beams[k].raw,
             parent |-> k, token |-> EOS, length |-> len, fromLogprob |-> 0]
    BY <1>1, <1>3 DEF Proposals, Carry
  <2>2. len \in 1 .. T /\ len \in Nat /\ len <= t + 1
    BY <1>2, DimensionsAssumption
  <2>3. CarryRank(beams[k].raw, len) \in Score
    BY <1>2, <2>2, RankAssumption
  <2>4. Live(beams[k])
    BY <1>3 DEF Finished
  <2> HIDE DEF len
  <2> QED  BY <1>2, <2>1, <2>2, <2>3, <2>4 DEF Candidate
<1>4. CASE ~Finished(beams[k])
  <2>1. Live(beams[k]) /\ \E u \in 0 .. V - 1 : c = Expand(cons, beams, rows, k, u)
    BY <1>1, <1>4 DEF Proposals
  <2>2. PICK u \in Token : c = Expand(cons, beams, rows, k, u)
    BY <2>1 DEF Token
  <2> DEFINE lp  == Penalised(cons, beams[k], u, rows[k][u])
             raw == FloatAdd(beams[k].raw, lp)
             len == beams[k].len + 1
  <2>3. c = [score |-> Rank(raw, len), raw |-> raw, parent |-> k, token |-> u,
             length |-> len, fromLogprob |-> 1]
    BY <2>2 DEF Expand
  <2>4. rows[k][u] \in Score
    BY LogProbAssumption DEF Rows
  <2>5. lp \in Score
    <3>1. rows[k][u] \in Int /\ -cons.repetition \in Int
      BY <1>2, <2>4 DEF Score
    <3> QED  BY <2>4, <3>1, FloatAddType, Zenon DEF Penalised
  <2>6. raw \in Score
    <3>1. lp \in Int /\ beams[k].raw \in Int
      BY <1>2, <2>5 DEF Score
    <3> QED  BY <3>1, FloatAddType, Zenon
  <2>7. len \in 1 .. T /\ len \in Nat /\ len <= t + 1
    BY <1>2, DimensionsAssumption
  <2>8. Rank(raw, len) \in Score
    BY <2>6, <2>7, RankAssumption
  <2>9. u \in Int
    BY DimensionsAssumption DEF Token
  <2> HIDE DEF raw, len, lp
  <2> QED  BY <1>2, <2>1, <2>3, <2>6, <2>7, <2>8, <2>9 DEF Candidate
<1> QED  BY <1>3, <1>4

\* A selected candidate becomes a beam; a placeholder becomes a dead one.
LEMMA NextBeamType ==
  ASSUME beams \in [BeamId -> Beam], NEW c \in Candidate,
         c = Placeholder \/ (c.parent \in BeamId /\ (c.fromLogprob = 1 => c.token \in Token))
  PROVE  /\ NextBeam(beams, c) \in Beam
         /\ NextBeam(beams, c).len = c.length
         /\ c.parent < 0 => ~Live(NextBeam(beams, c))
<1>1. c.raw \in Score /\ c.length \in Nat /\ c.parent \in Int
  BY CandidateFields
<1>2. CASE c.parent < 0
  <2>1. NextBeam(beams, c) = [raw |-> c.raw, len |-> c.length, ended |-> FALSE, seq |-> << >>]
    BY <1>2 DEF NextBeam, DeadBeam
  <2>2. c.raw = NegInf
    BY <1>2, CandidateFields, DimensionsAssumption DEF BeamId
  <2>3. << >> \in Seq(Token)
    OBVIOUS
  <2> QED  BY <1>1, <2>1, <2>2, <2>3, InfAssumption DEF Beam, Live, IsFinite
<1>3. CASE ~(c.parent < 0)
  <2> DEFINE par == beams[c.parent]
             app == c.fromLogprob = 1 /\ c.token >= 0
  <2>1. c.parent \in BeamId /\ par \in Beam /\ (c.fromLogprob = 1 => c.token \in Token)
    BY <1>3, CandidateFields
  <2>2. NextBeam(beams, c) =
          [raw |-> c.raw, len |-> c.length,
           ended |-> par.ended \/ (EOS >= 0 /\ c.token = EOS),
           seq |-> IF app THEN Append(par.seq, c.token) ELSE par.seq]
    BY <1>3 DEF NextBeam
  <2>3. (IF app THEN Append(par.seq, c.token) ELSE par.seq) \in Seq(Token)
    <3>1. par.seq \in Seq(Token)
      BY <2>1 DEF Beam
    <3> QED  BY <2>1, <3>1
  <2>4. (par.ended \/ (EOS >= 0 /\ c.token = EOS)) \in BOOLEAN
    OBVIOUS
  <2> HIDE DEF par, app
  <2> QED  BY <1>1, <1>3, <2>2, <2>3, <2>4 DEF Beam
<1> QED  BY <1>2, <1>3

\* A decode that has not begun, and no gradient yet.
LEMMA InitTypeInv == Init => TypeInv
<1> SUFFICES ASSUME Init PROVE TypeInv
  OBVIOUS
<1>1. InitialBeams \in [BeamId -> Beam] /\ \A k \in BeamId : InitialBeams[k].len = 0
  <2>1. << >> \in Seq(Token) /\ 0 \in Score /\ NegInf \in Score
    BY InfAssumption DEF Score
  <2> QED  BY <2>1 DEF InitialBeams, DeadBeam, Beam
<1>2. 0 \in Index
  BY DimensionsAssumption, ProductPositive DEF Index
<1>3. << >> \in Seq(Buffer) /\ << >> \in Seq(SparseEntry) /\ Len(<< >>) = 0
  OBVIOUS
<1>4. TypeOK
  BY <1>1, <1>2, <1>3, DimensionsAssumption, PAssumption DEF Init, TypeOK, NoGradient
<1> QED  BY <1>1, <1>3, <1>4, DimensionsAssumption DEF Init, TypeInv, DecodeInv, PhaseInv, Passing

\* One more pool, of what its beams may extend to.
LEMMA DecodeType == TypeInv /\ Decode => TypeInv'
<1> SUFFICES ASSUME TypeInv, Decode PROVE TypeInv'
  OBVIOUS
<1>0. PICK rows \in Rows(beams) :
        \E top \in [Slot -> Continuations(cons, t, beams, rows) \cup {Placeholder}] :
          pools' = Append(pools, top) /\ beams' = Advance(beams, top)
  BY DEF Decode
<1>1. PICK top \in [Slot -> Continuations(cons, t, beams, rows) \cup {Placeholder}] :
        pools' = Append(pools, top) /\ beams' = Advance(beams, top)
  BY <1>0
<1>2. /\ cons \in ConstraintSpace /\ beams \in [BeamId -> Beam] /\ t \in Nat /\ t < T
      /\ pools \in Seq(Buffer) /\ Len(pools) = t
      /\ \A k \in BeamId : beams[k].len <= t
  BY DimensionsAssumption DEF TypeInv, TypeOK, DecodeInv, Decode
<1>3. ASSUME NEW n \in Slot
      PROVE  /\ top[n] \in Candidate
             /\ top[n].length <= t + 1
             /\ \/ top[n] = Placeholder
                \/ /\ top[n].parent \in BeamId /\ Live(beams[top[n].parent])
                   /\ top[n].fromLogprob = 1 => top[n].token \in Token
  <2>1. CASE top[n] = Placeholder
    BY <1>2, <2>1, CandidateFields
  <2>2. CASE top[n] # Placeholder
    <3>1. top[n] \in Continuations(cons, t, beams, rows)
      BY <1>1, <2>2
    <3> QED  BY <1>2, <3>1, ContinuationType
  <2> QED  BY <2>1, <2>2
<1>4. top \in Buffer
  BY <1>1, <1>3 DEF Buffer
<1>5. \A k \in BeamId : k \in Slot
  BY DimensionsAssumption, PAssumption DEF BeamId, Slot
<1>6. \A k \in BeamId : beams'[k] = NextBeam(beams, top[k])
  BY <1>1 DEF Advance
<1>7. ASSUME NEW k \in BeamId
      PROVE  beams'[k] \in Beam /\ beams'[k].len <= t + 1
             /\ (top[k].parent < 0 => ~Live(beams'[k]))
  BY <1>2, <1>3, <1>5, <1>6, NextBeamType
<1>8. beams' \in [BeamId -> Beam]
  BY <1>1, <1>7 DEF Advance
<1>9. /\ pools' \in Seq(Buffer) /\ Len(pools') = t + 1 /\ pools'[t + 1] = top
      /\ \A s \in 1 .. t : pools'[s] = pools[s]
  BY <1>1, <1>2, <1>4
<1>10. /\ t' = t + 1 /\ pc' = pc /\ pc = "decode"
       /\ UNCHANGED <<cons, up, form, at, next, prev, dense, entries, i, cur, sum, out>>
  BY DEF Decode, mergeVars
<1>11. TypeOK'
  BY <1>2, <1>8, <1>9, <1>10, DimensionsAssumption DEF TypeInv, TypeOK
<1>12. ASSUME NEW s \in 1 .. t + 1, NEW n \in Slot
       PROVE  SlotOK(pools', s, pools'[s][n])
  <2>1. CASE s \in 1 .. t
    <3>1. SlotOK(pools, s, pools[s][n])
      BY <1>2, <2>1 DEF TypeInv, DecodeInv
    <3>2. pools'[s] = pools[s] /\ (s > 1 => pools'[s - 1] = pools[s - 1])
      BY <1>2, <1>9, <2>1
    <3> QED  BY <3>1, <3>2 DEF SlotOK
  <2>2. CASE s = t + 1
    <3>1. pools'[s][n] = top[n]
      BY <1>9, <2>2
    <3>2. CASE top[n] = Placeholder
      BY <3>1, <3>2 DEF SlotOK
    <3>3. CASE top[n] # Placeholder
      <4> PICK k : k = top[n].parent
        OBVIOUS
      <4>1. k \in BeamId /\ Live(beams[k])
        BY <1>3, <3>3
      <4>2. s > 1 => pools[t][k].parent >= 0
        <5>1. SUFFICES ASSUME s > 1 PROVE pools[t][k].parent >= 0
          OBVIOUS
        <5>2. ~(pools[t][k].parent < 0)
          BY <1>2, <2>2, <4>1, <5>1 DEF TypeInv, DecodeInv
        <5>3. pools[t][k] \in Candidate
          BY <1>2, <1>5, <2>2, <4>1, <5>1 DEF Buffer
        <5> QED  BY <5>2, <5>3, CandidateFields
      <4>3. s > 1 => pools'[s - 1] = pools[t]
        BY <1>2, <1>9, <2>2
      <4> QED  BY <1>3, <3>1, <3>3, <4>1, <4>2, <4>3 DEF SlotOK
    <3> QED  BY <3>2, <3>3
  <2> QED  BY <1>2, <2>1, <2>2
<1>13. DecodeInv'
  BY <1>5, <1>7, <1>9, <1>10, <1>12 DEF DecodeInv
<1>14. PhaseInv'
  BY <1>10 DEF TypeInv, PhaseInv, Passing
<1> QED  BY <1>11, <1>13, <1>14 DEF TypeInv

\* The call is refused, or begins at the last step.
LEMMA CallType == TypeInv /\ Call => TypeInv'
<1> SUFFICES ASSUME TypeInv, Call PROVE TypeInv'
  OBVIOUS
<1>1. /\ pc' \in {"refused", "selected"} /\ t' \in 0 .. T /\ (pc' = "selected" => t' < T)
      /\ UNCHANGED <<cons, beams, pools, up, form, at, next, prev, dense, entries,
                     i, cur, sum, out>>
      /\ pc = "decode" /\ t = T
  BY DimensionsAssumption DEF Call, decodeVars, mergeVars
<1>2. TypeOK'
  BY <1>1 DEF TypeInv, TypeOK
<1>3. DecodeInv'
  BY <1>1 DEF TypeInv, DecodeInv, SlotOK
<1>4. PhaseInv'
  BY <1>1, DimensionsAssumption DEF TypeInv, PhaseInv, Passing
<1> QED  BY <1>2, <1>3, <1>4 DEF TypeInv

\* The local gradients are numbers.
LEMMA SlotGradients ==
  ASSUME up \in Upstream, NEW s \in Step
  PROVE  /\ \A k \in BeamId : SelectedGradient(s, k) \in Int
         /\ \A n \in Slot : RelaxedGradient(s, n) \in Int
<1>1. /\ up.selected \in [Step -> [BeamId -> Int]] /\ up.relaxed \in [Step -> [Slot -> Int]]
      /\ up.final \in [BeamId -> Int]
  BY UpstreamAssumption
<1>2. ASSUME NEW k \in BeamId PROVE SelectedGradient(s, k) \in Int
  <2>1. up.selected[s][k] \in Int /\ up.final[k] \in Int
    BY <1>1
  <2> QED  BY <2>1 DEF SelectedGradient
<1>3. ASSUME NEW n \in Slot PROVE RelaxedGradient(s, n) \in Int
  <2>1. up.relaxed[s][n] \in Int
    BY <1>1
  <2> QED  BY <2>1 DEF RelaxedGradient
<1> QED  BY <1>2, <1>3

\* A slot's gradient stays in the arrays, and what is live has a beam to go to.
LEMMA ScatterType ==
  ASSUME TypeInv, Passing, NEW n \in Slot, NEW draw \in Int, Scatter(pools[t + 1][n], draw)
  PROVE  /\ prev' \in [BeamId -> Int] /\ dense' \in [Index -> Int]
         /\ entries' \in Seq(SparseEntry)
<1> PICK c : c = pools[t + 1][n]
  OBVIOUS
<1>1. t \in Step /\ t + 1 \in 1 .. Len(pools) /\ Len(pools) = T
  BY DimensionsAssumption DEF TypeInv, TypeOK, DecodeInv, PhaseInv, Passing, Step
<1>2. SlotOK(pools, t + 1, c) /\ c \in Candidate
  BY <1>1 DEF TypeInv, TypeOK, DecodeInv, Buffer
<1>3. prev \in [BeamId -> Int] /\ dense \in [Index -> Int] /\ entries \in Seq(SparseEntry)
  BY DEF TypeInv, TypeOK
<1>4. CASE c.parent < 0 \/ draw = 0
  BY <1>3, <1>4 DEF Scatter
<1>5. CASE ~(c.parent < 0 \/ draw = 0)
  <2>1. c.parent \in BeamId /\ (c.fromLogprob = 1 => c.token \in Token)
    BY <1>2, <1>5, CandidateFields DEF SlotOK
  <2>2. prev' = [prev EXCEPT ![c.parent] = @ + draw]
    BY <1>5 DEF Scatter
  <2>3. prev' \in [BeamId -> Int]
    BY <1>3, <2>1, <2>2
  <2>4. CASE c.fromLogprob = 0 \/ c.token < 0
    BY <1>3, <1>5, <2>3, <2>4 DEF Scatter
  <2>5. CASE ~(c.fromLogprob = 0 \/ c.token < 0)
    <3> PICK j : j = FlatIndex(c.parent, c.token)
      OBVIOUS
    <3>1. c.token \in Token
      BY <1>2, <2>1, <2>5, CandidateFields
    <3>2. j \in Index
      BY <1>1, <2>1, <3>1, IndexOf DEF FlatIndex
    <3>3. CASE form = "dense"
      <4>1. dense' = [dense EXCEPT ![j] = @ + draw] /\ UNCHANGED entries
        BY <1>5, <2>5, <3>3 DEF Scatter
      <4> QED  BY <1>3, <2>3, <3>2, <4>1
    <3>4. CASE form # "dense"
      <4>1. entries' = Append(entries, [index |-> j, value |-> draw]) /\ UNCHANGED dense
        BY <1>5, <2>5, <3>4 DEF Scatter
      <4>2. [index |-> j, value |-> draw] \in SparseEntry
        BY <3>2 DEF SparseEntry
      <4> QED  BY <1>3, <2>3, <4>1, <4>2
    <3> QED  BY <3>3, <3>4
  <2> QED  BY <2>4, <2>5
<1> QED  BY <1>4, <1>5

\* Scattering a selected slot.
LEMMA SelectedType == TypeInv /\ ScatterSelected => TypeInv'
<1> SUFFICES ASSUME TypeInv, ScatterSelected PROVE TypeInv'
  OBVIOUS
<1>1. pc = "selected" /\ Passing /\ at \in 0 .. K - 1 /\ t \in Step
  BY DimensionsAssumption DEF ScatterSelected, TypeInv, TypeOK, PhaseInv, Passing, Step
<1>2. at \in Slot /\ at \in BeamId
  BY <1>1, DimensionsAssumption, PAssumption DEF Slot, BeamId
<1>3. next[at] + SelectedGradient(t, at) \in Int
  BY <1>1, <1>2, SlotGradients DEF TypeInv, TypeOK
<1>4. prev' \in [BeamId -> Int] /\ dense' \in [Index -> Int] /\ entries' \in Seq(SparseEntry)
  BY <1>1, <1>2, <1>3, ScatterType DEF ScatterSelected
<1>5. /\ UNCHANGED <<cons, beams, pools, up, form, t, next, i, cur, sum, out>>
      /\ \/ at + 1 < K /\ at' = at + 1 /\ pc' = pc
         \/ at' = 0 /\ pc' = "relaxed"
  BY DEF ScatterSelected, decodeVars, mergeVars
<1>6. i = 1
  BY <1>1 DEF TypeInv, PhaseInv
<1>7. TypeOK'
  <2>1. at' \in 0 .. P - 1
    BY <1>1, <1>5, DimensionsAssumption, PAssumption
  <2>2. i' \in 1 .. Len(entries') + 1
    BY <1>4, <1>5, <1>6
  <2> QED  BY <1>1, <1>4, <1>5, <2>1, <2>2 DEF TypeInv, TypeOK
<1>8. DecodeInv'
  BY <1>1, <1>5 DEF TypeInv, DecodeInv, SlotOK
<1>9. PhaseInv'
  BY <1>1, <1>5, DimensionsAssumption DEF TypeInv, PhaseInv, Passing
<1> QED  BY <1>7, <1>8, <1>9 DEF TypeInv

\* Scattering a slot of the pool.
LEMMA RelaxedType == TypeInv /\ ScatterRelaxed => TypeInv'
<1> SUFFICES ASSUME TypeInv, ScatterRelaxed PROVE TypeInv'
  OBVIOUS
<1>1. pc = "relaxed" /\ Passing /\ at \in 0 .. P - 1 /\ at \in Slot /\ t \in Step
  BY DimensionsAssumption DEF ScatterRelaxed, TypeInv, TypeOK, PhaseInv, Passing, Step, Slot
<1>2. RelaxedGradient(t, at) \in Int
  BY <1>1, SlotGradients DEF TypeInv, TypeOK
<1>3. prev' \in [BeamId -> Int] /\ dense' \in [Index -> Int] /\ entries' \in Seq(SparseEntry)
  BY <1>1, <1>2, ScatterType DEF ScatterRelaxed
<1>4. /\ UNCHANGED <<cons, beams, pools, up, form, t, next, i, cur, sum, out>>
      /\ \/ at + 1 < P /\ at' = at + 1 /\ pc' = pc
         \/ at' = 0 /\ pc' = "swap"
  BY DEF ScatterRelaxed, decodeVars, mergeVars
<1>5. i = 1
  BY <1>1 DEF TypeInv, PhaseInv
<1>6. TypeOK'
  <2>1. at' \in 0 .. P - 1
    BY <1>1, <1>4, PAssumption
  <2>2. i' \in 1 .. Len(entries') + 1
    BY <1>3, <1>4, <1>5
  <2> QED  BY <1>1, <1>3, <1>4, <2>1, <2>2 DEF TypeInv, TypeOK
<1>7. DecodeInv'
  BY <1>1, <1>4 DEF TypeInv, DecodeInv, SlotOK
<1>8. PhaseInv'
  BY <1>1, <1>4 DEF TypeInv, PhaseInv, Passing
<1> QED  BY <1>6, <1>7, <1>8 DEF TypeInv

\* On to the step before, or to the end.
LEMMA StepBackType == TypeInv /\ StepBack => TypeInv'
<1> SUFFICES ASSUME TypeInv, StepBack PROVE TypeInv'
  OBVIOUS
<1>1. pc = "swap" /\ Passing /\ at = 0 /\ t \in 0 .. T - 1
  BY DimensionsAssumption DEF StepBack, TypeInv, TypeOK, PhaseInv, Passing
<1>2. /\ UNCHANGED <<cons, beams, pools, up, form, at, dense, entries, i, cur, sum, out>>
      /\ next' = prev /\ prev' = NoGradient
      /\ \/ t > 0 /\ t' = t - 1 /\ pc' = "selected"
         \/ t = 0 /\ t' = t /\ pc' = "done"
         \/ t = 0 /\ t' = t /\ pc' = "sort" /\ form # "dense" /\ entries # << >>
  BY <1>1 DEF StepBack, AfterSteps, decodeVars, mergeVars
<1>3. TypeOK'
  <2>1. NoGradient \in [BeamId -> Int]
    BY DEF NoGradient
  <2>2. t' \in 0 .. T
    BY <1>1, <1>2, DimensionsAssumption
  <2> QED  BY <1>1, <1>2, <2>1, <2>2 DEF TypeInv, TypeOK
<1>4. DecodeInv'
  BY <1>1, <1>2 DEF TypeInv, DecodeInv, SlotOK
<1>5. PhaseInv'
  BY <1>1, <1>2, DimensionsAssumption DEF TypeInv, TypeOK, PhaseInv, Passing
<1> QED  BY <1>3, <1>4, <1>5 DEF TypeInv
-----------------------------------------------------------------------------
(***************************************************************************)
(* Lists of sparse entries: what they add up to, and the sort.             *)
(***************************************************************************)
LEMMA SumIsTotal == \A f, S : Sum(f, S) = Total(f, S)
BY DEF Sum, Total

\* What the first m entries of a list say of index n.
ValueUpTo(list, m, n) ==
  Sum([j \in 1 .. Len(list) |-> list[j].value], {j \in 1 .. m : list[j].index = n})

\* The fields of a sparse entry, as arithmetic needs them.
LEMMA EntryFields ==
  ASSUME NEW list \in Seq(SparseEntry)
  PROVE  /\ Len(list) \in Nat
         /\ \A j \in 1 .. Len(list) :
              list[j] \in SparseEntry /\ list[j].index \in Index /\ list[j].index \in Int
              /\ list[j].value \in Int
<1>1. Index \subseteq Int
  BY ProductPositive DEF Index
<1>2. \A e \in SparseEntry : e.index \in Index /\ e.value \in Int
  BY DEF SparseEntry
<1>3. Len(list) \in Nat /\ \A j \in 1 .. Len(list) : list[j] \in SparseEntry
  BY LenProperties, ElementOfSeq
<1> QED  BY <1>1, <1>2, <1>3

\* One entry more.
LEMMA ValueUpToNext ==
  ASSUME NEW list \in Seq(SparseEntry), NEW m \in 0 .. Len(list), NEW n
  PROVE  /\ ValueUpTo(list, m, n) \in Int
         /\ ValueUpTo(list, 0, n) = 0
         /\ ValueUpTo(list, Len(list), n) = ValueAt(list, n)
         /\ m < Len(list) =>
              ValueUpTo(list, m + 1, n) =
                ValueUpTo(list, m, n)
                + IF list[m + 1].index = n THEN list[m + 1].value ELSE 0
<1> DEFINE f == [j \in 1 .. Len(list) |-> list[j].value]
           At(k) == {j \in 1 .. k : list[j].index = n}
<1>1. Len(list) \in Nat /\ \A j \in 1 .. Len(list) : f[j] \in Int /\ f[j] = list[j].value
  BY EntryFields
<1>2. \A k \in 0 .. Len(list) : IsFiniteSet(At(k)) /\ \A j \in At(k) : f[j] \in Int
  <2> SUFFICES ASSUME NEW k \in 0 .. Len(list)
               PROVE  IsFiniteSet(At(k)) /\ \A j \in At(k) : f[j] \in Int
    OBVIOUS
  <2>1. IsFiniteSet(1 .. k)
    BY <1>1, FS_Interval
  <2>2. At(k) \in SUBSET (1 .. k)
    OBVIOUS
  <2>3. IsFiniteSet(At(k))
    <3> HIDE DEF At
    <3> QED  BY <2>1, <2>2, FS_Subset
  <2>4. \A j \in At(k) : f[j] \in Int
    BY <1>1
  <2> QED  BY <2>3, <2>4
<1>3. ValueUpTo(list, m, n) = Total(f, At(m)) /\ Total(f, At(m)) \in Int
  <2>1. ValueUpTo(list, m, n) = Total(f, At(m))
    BY SumIsTotal DEF ValueUpTo
  <2>2. IsFiniteSet(At(m)) /\ \A j \in At(m) : f[j] \in Int
    BY <1>2
  <2> HIDE DEF f, At
  <2> QED  BY <2>1, <2>2, TotalType
<1>4. ValueUpTo(list, 0, n) = 0
  <2>1. At(0) = {}
    BY <1>1
  <2>2. ValueUpTo(list, 0, n) = Total(f, At(0))
    BY SumIsTotal DEF ValueUpTo
  <2> QED  BY <2>1, <2>2, TotalOfNone
<1>5. ValueUpTo(list, Len(list), n) = ValueAt(list, n)
  BY DEF ValueUpTo, ValueAt
<1>6. ASSUME m < Len(list)
      PROVE  ValueUpTo(list, m + 1, n) =
               ValueUpTo(list, m, n)
               + IF list[m + 1].index = n THEN list[m + 1].value ELSE 0
  <2>1. m + 1 \in 0 .. Len(list) /\ m + 1 \in 1 .. Len(list) /\ m + 1 \notin At(m)
    BY <1>1, <1>6
  <2>2. At(m + 1) = IF list[m + 1].index = n THEN At(m) \cup {m + 1} ELSE At(m)
    BY <1>1, <1>6
  <2>3. ValueUpTo(list, m + 1, n) = Total(f, At(m + 1))
    BY SumIsTotal DEF ValueUpTo
  <2>4. f[m + 1] = list[m + 1].value /\ f[m + 1] \in Int
    BY <1>1, <2>1
  <2>5. Total(f, At(m) \cup {m + 1}) = f[m + 1] + Total(f, At(m))
    <3>1. IsFiniteSet(At(m)) /\ \A j \in At(m) \cup {m + 1} : f[j] \in Int
      BY <1>2, <2>4
    <3> HIDE DEF f, At
    <3> QED  BY <2>1, <3>1, TotalAdd
  <2> HIDE DEF f, At
  <2> QED  BY <1>3, <2>2, <2>3, <2>4, <2>5
<1> QED  BY <1>3, <1>4, <1>5, <1>6

\* One more entry adds its value at its index.
LEMMA ValueAppend ==
  ASSUME NEW list \in Seq(SparseEntry), NEW e \in SparseEntry, NEW n
  PROVE  /\ ValueAt(list, n) \in Int
         /\ ValueAt(Append(list, e), n) = ValueAt(list, n) + IF e.index = n THEN e.value ELSE 0
<1> PICK more : more = Append(list, e)
  OBVIOUS
<1> PICK m : m = Len(list)
  OBVIOUS
<1>1. more \in Seq(SparseEntry) /\ Len(more) = m + 1 /\ m \in Nat /\ more[m + 1] = e
      /\ \A j \in 1 .. m : more[j] = list[j]
  OBVIOUS
<1>2. ValueAt(more, n) = ValueUpTo(more, m + 1, n) /\ ValueAt(list, n) = ValueUpTo(list, m, n)
  BY <1>1 DEF ValueUpTo, ValueAt
<1>3. ValueUpTo(more, m + 1, n) = ValueUpTo(more, m, n) + IF e.index = n THEN e.value ELSE 0
  <2>1. m \in 0 .. Len(more) /\ m < Len(more)
    BY <1>1
  <2>2. ValueUpTo(more, m + 1, n) =
          ValueUpTo(more, m, n) + IF more[m + 1].index = n THEN more[m + 1].value ELSE 0
    BY <1>1, <2>1, ValueUpToNext, ZenonT(30)
  <2> QED  BY <1>1, <2>2
<1>4. ValueUpTo(more, m, n) = ValueUpTo(list, m, n)
  <2> DEFINE f == [j \in 1 .. Len(list) |-> list[j].value]
             g == [j \in 1 .. Len(more) |-> more[j].value]
             A == {j \in 1 .. m : list[j].index = n}
             B == {j \in 1 .. m : more[j].index = n}
  <2>1. A = B /\ A \in SUBSET (1 .. m)
    BY <1>1
  <2>2. \A x \in A : f[x] = g[x]
    BY <1>1
  <2>3. ValueUpTo(list, m, n) = Total(f, A) /\ ValueUpTo(more, m, n) = Total(g, B)
    BY SumIsTotal DEF ValueUpTo
  <2>4. IsFiniteSet(1 .. m)
    BY <1>1, FS_Interval
  <2> HIDE DEF f, g, A, B
  <2>5. Total(f, A) = Total(g, A)
    BY <2>1, <2>2, <2>4, FS_Subset, TotalAgree
  <2> QED  BY <2>1, <2>3, <2>5
<1>5. ValueUpTo(list, m, n) \in Int
  BY <1>1, ValueUpToNext
<1> QED  BY <1>2, <1>3, <1>4, <1>5

\* No entry, no value.
LEMMA ValueOfNone == \A n : ValueAt(<< >>, n) = 0
<1> SUFFICES ASSUME NEW n PROVE ValueAt(<< >>, n) = 0
  OBVIOUS
<1> DEFINE f == [j \in 1 .. Len(<< >>) |-> << >>[j].value]
           A == {j \in 1 .. Len(<< >>) : << >>[j].index = n}
<1>1. A = {}
  OBVIOUS
<1>2. ValueAt(<< >>, n) = Total(f, A)
  BY SumIsTotal DEF ValueAt
<1> HIDE DEF f, A
<1> QED  BY <1>1, <1>2, TotalOfNone

\* The place of an entry in the order is its own.
LEMMA PlacesDiffer ==
  ASSUME NEW list \in Seq(SparseEntry), NEW j \in 1 .. Len(list), NEW m \in 1 .. Len(list),
         list[j].index < list[m].index \/ (list[j].index = list[m].index /\ j < m)
  PROVE  PlaceOf(list, j) < PlaceOf(list, m)
<1> DEFINE Upto(a) == {b \in 1 .. Len(list) :
                         \/ list[b].index < list[a].index
                         \/ list[b].index = list[a].index /\ b <= a}
<1>1. Len(list) \in Nat /\ \A b \in 1 .. Len(list) : list[b].index \in Int
  BY EntryFields
<1>2. Upto(j) \in SUBSET Upto(m) /\ m \in Upto(m) /\ m \notin Upto(j)
  BY <1>1
<1>3. Upto(m) \in SUBSET (1 .. Len(list)) /\ IsFiniteSet(1 .. Len(list))
  BY <1>1, FS_Interval
<1>4. PlaceOf(list, j) = Cardinality(Upto(j)) /\ PlaceOf(list, m) = Cardinality(Upto(m))
  BY DEF PlaceOf
<1> HIDE DEF Upto
<1>5. IsFiniteSet(Upto(m)) /\ IsFiniteSet(Upto(j))
  BY <1>2, <1>3, FS_Subset
<1>6. /\ Cardinality(Upto(j)) <= Cardinality(Upto(m))
      /\ Cardinality(Upto(j)) # Cardinality(Upto(m))
  BY <1>2, <1>5, FS_Subset
<1>7. Cardinality(Upto(j)) \in Nat /\ Cardinality(Upto(m)) \in Nat
  BY <1>5, FS_CardinalityType
<1> QED  BY <1>4, <1>6, <1>7

\* An entry's place in the sorted list is a place of the list.
LEMMA PlaceType ==
  ASSUME NEW list \in Seq(SparseEntry), NEW j \in 1 .. Len(list)
  PROVE  PlaceOf(list, j) \in 1 .. Len(list)
<1> DEFINE U == {b \in 1 .. Len(list) :
                         \/ list[b].index < list[j].index
                         \/ list[b].index = list[j].index /\ b <= j}
<1>1. U \in SUBSET (1 .. Len(list)) /\ {j} \in SUBSET U
  BY EntryFields
<1>2. PlaceOf(list, j) = Cardinality(U)
  BY DEF PlaceOf
<1> HIDE DEF U
<1>3. Len(list) \in Nat /\ IsFiniteSet(1 .. Len(list)) /\ Cardinality(1 .. Len(list)) = Len(list)
  BY FS_Interval, EntryFields
<1>4. IsFiniteSet(U) /\ Cardinality(U) <= Len(list)
  BY <1>1, <1>3, FS_Subset
<1>5. Cardinality({j}) <= Cardinality(U) /\ Cardinality({j}) = 1 /\ Cardinality(U) \in Nat
  BY <1>1, <1>4, FS_Subset, FS_Singleton, FS_CardinalityType
<1> QED  BY <1>2, <1>3, <1>4, <1>5

\* The sort puts every entry somewhere, in the order of the indices.
LEMMA SortingOrders ==
  ASSUME NEW list \in Seq(SparseEntry)
  PROVE  /\ Sorting(list) \in Seq(SparseEntry) /\ Len(Sorting(list)) = Len(list)
         /\ \A a, b \in 1 .. Len(list) :
              a < b => Sorting(list)[a].index <= Sorting(list)[b].index
         /\ \E p \in [1 .. Len(list) -> 1 .. Len(list)] :
              /\ \A a, b \in 1 .. Len(list) : p[a] = p[b] => a = b
              /\ \A a \in 1 .. Len(list) : \E b \in 1 .. Len(list) : p[b] = a
              /\ \A a \in 1 .. Len(list) : Sorting(list)[a] = list[p[a]]
<1> DEFINE D == 1 .. Len(list)
           place == [j \in D |-> PlaceOf(list, j)]
           p == [a \in D |-> CHOOSE j \in D : PlaceOf(list, j) = a]
<1>1. \A j \in D : PlaceOf(list, j) \in D
  BY PlaceType
<1>2. \A j, m \in D : PlaceOf(list, j) = PlaceOf(list, m) => j = m
  <2> SUFFICES ASSUME NEW j \in D, NEW m \in D, PlaceOf(list, j) = PlaceOf(list, m), j # m
               PROVE  FALSE
    OBVIOUS
  <2>1. list[j].index \in Int /\ list[m].index \in Int /\ j \in Int /\ m \in Int
    BY EntryFields
  <2>2. \/ list[j].index < list[m].index \/ (list[j].index = list[m].index /\ j < m)
        \/ list[m].index < list[j].index \/ (list[m].index = list[j].index /\ m < j)
    BY <2>1
  <2>3. PlaceOf(list, j) < PlaceOf(list, m) \/ PlaceOf(list, m) < PlaceOf(list, j)
    BY <2>2, PlacesDiffer
  <2> QED  BY <1>1, <2>3, EntryFields
<1>3. \A a \in D : \E j \in D : PlaceOf(list, j) = a
  <2>1. IsFiniteSet(D)
    BY EntryFields, FS_Interval
  <2>2. place \in Injection(D, D)
    BY <1>1, <1>2 DEF Injection, IsInjective
  <2>3. place \in Surjection(D, D)
    <3> HIDE DEF place, D
    <3> QED  BY <2>1, <2>2, FS_Injection
  <2> QED  BY <2>3 DEF Surjection
<1>4. \A a \in D : p[a] \in D /\ PlaceOf(list, p[a]) = a
  BY <1>3
<1>5. Sorting(list) = [a \in D |-> list[p[a]]]
  BY DEF Sorting
<1> HIDE DEF p
<1>6. \A a \in D : Sorting(list)[a] = list[p[a]] /\ list[p[a]] \in SparseEntry
  BY <1>4, <1>5, EntryFields
<1>7. Sorting(list) \in Seq(SparseEntry) /\ Len(Sorting(list)) = Len(list)
  <2>1. Len(list) \in Nat
    BY EntryFields
  <2> QED  BY <1>4, <1>5, <2>1, EntryFields
<1>8. ASSUME NEW a \in D, NEW b \in D, a < b
      PROVE  Sorting(list)[a].index <= Sorting(list)[b].index
  <2>1. /\ list[p[a]].index \in Int /\ list[p[b]].index \in Int /\ p[a] \in D /\ p[b] \in D
        /\ PlaceOf(list, p[a]) = a /\ PlaceOf(list, p[b]) = b
    BY <1>4, EntryFields
  <2>2. ~(list[p[b]].index < list[p[a]].index)
    <3> SUFFICES ASSUME list[p[b]].index < list[p[a]].index PROVE FALSE
      OBVIOUS
    <3>1. PlaceOf(list, p[b]) < PlaceOf(list, p[a])
      BY <2>1, PlacesDiffer
    <3> QED  BY <1>8, <2>1, <3>1, EntryFields
  <2> QED  BY <1>6, <2>1, <2>2
<1>9. /\ p \in [D -> D]
      /\ \A a, b \in D : p[a] = p[b] => a = b
      /\ \A a \in D : \E b \in D : p[b] = a
  <2>1. p \in [D -> D]
    BY <1>4 DEF p
  <2>2. \A a, b \in D : p[a] = p[b] => a = b
    BY <1>4
  <2>3. \A a \in D : p[PlaceOf(list, a)] = a
    BY <1>1, <1>2, <1>4
  <2> QED  BY <1>1, <2>1, <2>2, <2>3
<1> QED  BY <1>6, <1>7, <1>8, <1>9

\* Sorting changes the order of what is added up, and nothing else.
LEMMA SortingKeepsValues ==
  ASSUME NEW list \in Seq(SparseEntry), NEW n
  PROVE  ValueAt(Sorting(list), n) = ValueAt(list, n)
<1> PICK sorted : sorted = Sorting(list)
  OBVIOUS
<1> PICK p \in [1 .. Len(list) -> 1 .. Len(list)] :
       /\ \A a, b \in 1 .. Len(list) : p[a] = p[b] => a = b
       /\ \A a \in 1 .. Len(list) : \E b \in 1 .. Len(list) : p[b] = a
       /\ \A a \in 1 .. Len(list) : Sorting(list)[a] = list[p[a]]
  BY SortingOrders
<1>0. \A a \in 1 .. Len(list) : sorted[a] = list[p[a]]
  OBVIOUS
<1>1. sorted \in Seq(SparseEntry) /\ Len(sorted) = Len(list) /\ Len(list) \in Nat
  BY SortingOrders, EntryFields
<1> DEFINE f == [j \in 1 .. Len(list) |-> list[j].value]
           e == [j \in 1 .. Len(sorted) |-> sorted[j].value]
           A == {j \in 1 .. Len(sorted) : sorted[j].index = n}
           B == {j \in 1 .. Len(list) : list[j].index = n}
<1>2. ValueAt(sorted, n) = Total(e, A) /\ ValueAt(list, n) = Total(f, B)
  BY SumIsTotal DEF ValueAt
<1>3. (\A x \in A : p[x] \in B) /\ \A y \in B : \E x \in A : y = p[x]
  <2>1. \A x \in A : p[x] \in B
    BY <1>0, <1>1
  <2>2. \A y \in B : \E x \in A : y = p[x]
    BY <1>0, <1>1
  <2> QED  BY <2>1, <2>2
<1>4. \A x \in A : e[x] = f[p[x]] /\ e[x] \in Int
  BY <1>0, <1>1, EntryFields
<1>5. \A x, y \in A : p[x] = p[y] => x = y
  BY <1>1
<1>6. A \in SUBSET (1 .. Len(sorted)) /\ IsFiniteSet(1 .. Len(sorted))
  BY <1>1, FS_Interval
<1>7. Renames(p, A, B, e, f) /\ IsFiniteSet(A)
  <2> HIDE DEF A, B, e, f
  <2> QED  BY <1>3, <1>4, <1>5, <1>6, FS_Subset DEF Renames
<1> HIDE DEF A, B, e, f
<1>8. Total(e, A) = Total(f, B)
  BY <1>7, TotalRenamed
<1> QED  BY <1>2, <1>8
-----------------------------------------------------------------------------
(***************************************************************************)
(* Paths and sources, of the pools and the upstream gradients of a decode  *)
(* that is over: what they are does not depend on where the pass is.       *)
(***************************************************************************)

\* g leads from slot n of step s, which is g[s], back to step 0.
Leads(list, s, n, g) ==
  g = [r \in 0 .. s |->
         IF r = s THEN list[s + 1][n]
         ELSE IF g[r + 1].parent < 0 THEN Placeholder
         ELSE list[r + 1][g[r + 1].parent]]

PathIn(list, s, n) == CHOOSE g : Leads(list, s, n, g)

\* The model's path, with the pools as a parameter.
LEMMA PathToIs == \A s, n : PathTo(s, n) = PathIn(pools, s, n)
BY DEF PathTo, PathIn, Leads

\* There is such a path.
LEMMA PathExists ==
  ASSUME NEW list, NEW s \in Nat, NEW n
  PROVE  \E g : Leads(list, s, n, g)
<1> DEFINE At(g, r) == IF r = s THEN list[s + 1][n]
                       ELSE IF g[r + 1].parent < 0 THEN Placeholder
                       ELSE list[r + 1][g[r + 1].parent]
           Upto(g, m) == \A r \in 0 .. s : s - r <= m => g[r] = At(g, r)
           Good == {m \in Nat : \E g : Upto(g, m)}
<1>1. 0 \in Good
  <2> DEFINE g == [r \in 0 .. s |-> list[s + 1][n]]
  <2>1. Upto(g, 0)
    OBVIOUS
  <2> QED  BY <2>1
<1>2. ASSUME NEW m \in Nat, m \in Good PROVE m + 1 \in Good
  <2>1. PICK g : Upto(g, m)
    BY <1>2
  <2> DEFINE h == [r \in 0 .. s |-> IF s - r <= m THEN g[r] ELSE At(g, r)]
  <2>2. ASSUME NEW r \in 0 .. s, s - r <= m + 1 PROVE h[r] = At(h, r)
    <3>1. h[r] = At(g, r)
      BY <2>1
    <3>2. CASE r = s
      BY <3>1, <3>2
    <3>3. CASE r # s
      <4>1. r + 1 \in 0 .. s /\ s - (r + 1) <= m
        BY <2>2, <3>3
      <4>2. h[r + 1] = g[r + 1]
        BY <4>1
      <4> QED  BY <3>1, <4>2
    <3> QED  BY <3>2, <3>3
  <2>3. Upto(h, m + 1)
    BY <2>2
  <2>4. \E e : Upto(e, m + 1)
    <3> HIDE DEF h, Upto
    <3> QED  BY <2>3
  <2> QED  BY <2>4
<1>3. s \in Good
  <2> HIDE DEF Good
  <2> QED  BY <1>1, <1>2, NumberInduction
<1>4. PICK g : Upto(g, s)
  BY <1>3
<1> DEFINE h == [r \in 0 .. s |-> g[r]]
<1>5. \A r \in 0 .. s : h[r] = At(h, r)
  <2> SUFFICES ASSUME NEW r \in 0 .. s PROVE h[r] = At(h, r)
    OBVIOUS
  <2>1. g[r] = At(g, r)
    BY <1>4
  <2>2. r # s => h[r + 1] = g[r + 1]
    OBVIOUS
  <2> QED  BY <2>1, <2>2
<1>6. Leads(list, s, n, h)
  BY <1>5 DEF Leads
<1> QED
  <2> HIDE DEF h
  <2> QED  BY <1>6

\* A path, step by step.
LEMMA PathSteps ==
  ASSUME NEW list, NEW s \in Nat, NEW n
  PROVE  /\ PathIn(list, s, n)[s] = list[s + 1][n]
         /\ \A r \in 0 .. s - 1 :
              PathIn(list, s, n)[r] =
                IF PathIn(list, s, n)[r + 1].parent < 0 THEN Placeholder
                ELSE list[r + 1][PathIn(list, s, n)[r + 1].parent]
<1> PICK g : g = PathIn(list, s, n)
  OBVIOUS
<1>1. Leads(list, s, n, g)
  BY PathExists DEF PathIn
<1>2. g[s] = list[s + 1][n]
  BY <1>1 DEF Leads
<1>3. ASSUME NEW r \in 0 .. s - 1
      PROVE  g[r] = IF g[r + 1].parent < 0 THEN Placeholder ELSE list[r + 1][g[r + 1].parent]
  <2>1. r \in 0 .. s /\ r # s
    OBVIOUS
  <2> QED  BY <1>1, <2>1 DEF Leads
<1> QED  BY <1>2, <1>3

\* The pools of a finished decode.
PoolsOK(list) ==
  /\ list \in Seq(Buffer) /\ Len(list) = T
  /\ \A s \in 1 .. T, n \in Slot : SlotOK(list, s, list[s][n])

\* A path is made of slots of the pools, all of them live or none.
LEMMA PathSlots ==
  ASSUME NEW list, PoolsOK(list), NEW s \in Step, NEW n \in Slot, NEW r \in 0 .. s
  PROVE  /\ PathIn(list, s, n)[r] \in Candidate
         /\ PathIn(list, s, n)[r] # Placeholder => \E p \in Slot : PathIn(list, s, n)[r] = list[r + 1][p]
         /\ PathIn(list, s, n)[r] = Placeholder \/ PathIn(list, s, n)[r].parent \in BeamId
         /\ PathIn(list, s, n)[r].fromLogprob = 1 =>
              PathIn(list, s, n)[r].parent \in BeamId /\ PathIn(list, s, n)[r].token \in Token
         /\ PathIn(list, s, n)[r].parent \in BeamId <=> list[s + 1][n].parent \in BeamId
<1> PICK g : g = PathIn(list, s, n)
  OBVIOUS
<1>0. s \in Nat /\ s < T /\ T \in Nat
  BY DimensionsAssumption DEF Step
<1>a. \A p \in BeamId : p \in Slot /\ p \in Nat /\ ~(p < 0)
  BY DimensionsAssumption, PAssumption DEF BeamId, Slot
<1>b. ASSUME NEW q \in 0 .. s, NEW p \in Slot
      PROVE  /\ list[q + 1][p] \in Candidate
             /\ \/ list[q + 1][p] = Placeholder
                \/ /\ list[q + 1][p].parent \in BeamId
                   /\ list[q + 1][p].fromLogprob = 1 => list[q + 1][p].token \in Token
                   /\ q > 0 => list[q][list[q + 1][p].parent].parent >= 0
  <2>1. q + 1 \in 1 .. T /\ (q + 1) - 1 = q
    BY <1>0
  <2> PICK c : c = list[q + 1][p]
    OBVIOUS
  <2>2. SlotOK(list, q + 1, c)
    BY <2>1 DEF PoolsOK
  <2>3. list[q + 1] \in Buffer
    BY <2>1 DEF PoolsOK
  <2>4. c \in Candidate
    BY <2>3 DEF Buffer
  <2> QED  BY <2>1, <2>2, <2>4 DEF SlotOK
<1> DEFINE Fine(q) == /\ \/ g[q] = Placeholder
                         \/ g[q].parent \in BeamId /\ \E p \in Slot : g[q] = list[q + 1][p]
                      /\ g[q].parent \in BeamId <=> list[s + 1][n].parent \in BeamId
           Good == {m \in Nat : m <= s => Fine(s - m)}
<1>1. g[s] = list[s + 1][n]
      /\ \A q \in 0 .. s - 1 :
           g[q] = IF g[q + 1].parent < 0 THEN Placeholder ELSE list[q + 1][g[q + 1].parent]
  BY <1>0, PathSteps
<1>2. 0 \in Good
  <2>1. Fine(s)
    BY <1>0, <1>1, <1>b
  <2> QED  BY <1>0, <2>1
<1>3. ASSUME NEW m \in Nat, m \in Good PROVE m + 1 \in Good
  <2> SUFFICES ASSUME m + 1 <= s PROVE Fine(s - (m + 1))
    OBVIOUS
  <2> PICK q : q = s - (m + 1)
    OBVIOUS
  <2>1. q \in 0 .. s - 1 /\ q + 1 = s - m /\ q \in 0 .. s /\ q + 1 \in 0 .. s /\ q + 1 > 0
    BY <1>0
  <2>2. Fine(q + 1)
    BY <1>0, <1>3, <2>1
  <2>3. CASE g[q + 1] = Placeholder
    <3>1. g[q] = Placeholder
      BY <1>1, <2>1, <2>3, CandidateFields
    <3> QED  BY <2>2, <2>3, <3>1
  <2>4. CASE g[q + 1] # Placeholder
    <3> PICK k : k = g[q + 1].parent
      OBVIOUS
    <3>1. k \in BeamId /\ \E p \in Slot : g[q + 1] = list[(q + 1) + 1][p]
      BY <2>2, <2>4
    <3>2. PICK p \in Slot : g[q + 1] = list[(q + 1) + 1][p]
      BY <3>1
    <3>3. list[q + 1][k].parent >= 0
      BY <1>b, <2>1, <2>4, <3>2
    <3>4. g[q] = list[q + 1][k] /\ k \in Slot
      BY <1>1, <1>a, <2>1, <3>1
    <3>5. list[q + 1][k] = Placeholder \/ list[q + 1][k].parent \in BeamId
      BY <1>b, <2>1, <3>4
    <3>6. g[q].parent \in BeamId
      BY <3>3, <3>4, <3>5, CandidateFields
    <3> QED  BY <2>2, <3>1, <3>4, <3>6
  <2> QED  BY <2>3, <2>4
<1>4. \A m \in Nat : m \in Good
  <2> HIDE DEF Good
  <2> QED  BY <1>2, <1>3, NumberInduction
<1>5. Fine(r)
  <2>1. s - r \in Nat /\ s - r <= s /\ s - (s - r) = r
    BY <1>0
  <2> QED  BY <1>4, <2>1
<1>6. CASE g[r] = Placeholder
  BY <1>5, <1>6, CandidateFields
<1>7. CASE g[r] # Placeholder
  <2>1. PICK p \in Slot : g[r] = list[r + 1][p]
    BY <1>5, <1>7
  <2> QED  BY <1>5, <1>7, <1>b, <2>1
<1> QED  BY <1>6, <1>7

\* What a slot adds of its own, of the upstream gradients u.
SelectedIn(u, s, k) == u.selected[s][k] + IF s = T - 1 THEN u.final[k] ELSE 0

LiveIn(list, s) == {n \in Slot : list[s + 1][n].score > NegInf}

RelaxedIn(list, u, s, p) == IF Cardinality(LiveIn(list, s)) <= K THEN 0 ELSE u.relaxed[s][p]

SourceOf(s, n, kind, grad) == [step |-> s, slot |-> n, kind |-> kind, grad |-> grad]

SourcesIn(list, u) ==
  {SourceOf(s, k, "selected", SelectedIn(u, s, k)) : s \in Step, k \in BeamId}
  \cup {SourceOf(s, p, "relaxed", RelaxedIn(list, u, s, p)) : s \in Step, p \in Slot}

Grads(S) == [x \in S |-> x.grad]

\* The gradients of the sources, with pools and upstream as parameters.
LEMMA GradientsAre ==
  /\ \A s, k : SelectedGradient(s, k) = SelectedIn(up, s, k)
  /\ \A s, p : RelaxedGradient(s, p) = RelaxedIn(pools, up, s, p)
BY DEF SelectedGradient, SelectedIn, RelaxedGradient, RelaxedIn, LiveIn

\* The sources, with pools and upstream as parameters.
LEMMA SourcesAre == Sources = SourcesIn(pools, up)
<1>1. ASSUME NEW x PROVE x \in Sources <=> x \in SourcesIn(pools, up)
  BY GradientsAre DEF Sources, SourcesIn, SourceOf
<1> QED  BY <1>1

\* The sources: finitely many, each with a number, each named by its step, slot and kind.
LEMMA SourceFields ==
  ASSUME NEW list, NEW u \in Upstream, NEW S, S = SourcesIn(list, u)
  PROVE  /\ \A x \in S :
              /\ x.step \in Step /\ x.slot \in Slot /\ x.kind \in {"selected", "relaxed"}
              /\ x.kind = "selected" => x.slot \in BeamId /\ x.grad = SelectedIn(u, x.step, x.slot)
              /\ x.kind = "relaxed" => x.grad = RelaxedIn(list, u, x.step, x.slot)
              /\ x = SourceOf(x.step, x.slot, x.kind, x.grad)
              /\ x.grad \in Int
         /\ \A s \in Step, k \in BeamId : SourceOf(s, k, "selected", SelectedIn(u, s, k)) \in S
         /\ \A s \in Step, p \in Slot : SourceOf(s, p, "relaxed", RelaxedIn(list, u, s, p)) \in S
         /\ IsFiniteSet(S)
         /\ \A x \in S : Grads(S)[x] = x.grad /\ Grads(S)[x] \in Int
<1>0. \A k \in BeamId : k \in Slot
  BY DimensionsAssumption, PAssumption DEF BeamId, Slot
<1>a. ASSUME NEW s \in Step
      PROVE  /\ \A k \in BeamId : SelectedIn(u, s, k) \in Int
             /\ \A n \in Slot : RelaxedIn(list, u, s, n) \in Int
  <2>1. /\ u.selected \in [Step -> [BeamId -> Int]] /\ u.relaxed \in [Step -> [Slot -> Int]]
        /\ u.final \in [BeamId -> Int]
    BY UpstreamAssumption
  <2>2. ASSUME NEW k \in BeamId PROVE SelectedIn(u, s, k) \in Int
    <3>1. u.selected[s][k] \in Int /\ u.final[k] \in Int
      BY <2>1
    <3> QED  BY <3>1 DEF SelectedIn
  <2>3. ASSUME NEW n \in Slot PROVE RelaxedIn(list, u, s, n) \in Int
    <3>1. u.relaxed[s][n] \in Int
      BY <2>1
    <3> QED  BY <3>1 DEF RelaxedIn
  <2> QED  BY <2>2, <2>3
<1>1. ASSUME NEW x \in S
      PROVE  /\ x.step \in Step /\ x.slot \in Slot /\ x.kind \in {"selected", "relaxed"}
             /\ x.kind = "selected" => x.slot \in BeamId /\ x.grad = SelectedIn(u, x.step, x.slot)
             /\ x.kind = "relaxed" => x.grad = RelaxedIn(list, u, x.step, x.slot)
             /\ x = SourceOf(x.step, x.slot, x.kind, x.grad)
             /\ x.grad \in Int
  <2>1. CASE \E s \in Step, k \in BeamId : x = SourceOf(s, k, "selected", SelectedIn(u, s, k))
    <3>1. PICK s \in Step, k \in BeamId : x = SourceOf(s, k, "selected", SelectedIn(u, s, k))
      BY <2>1
    <3>2. /\ x.step = s /\ x.slot = k /\ x.kind = "selected" /\ x.grad = SelectedIn(u, s, k)
          /\ SelectedIn(u, s, k) \in Int
      BY <1>a, <3>1 DEF SourceOf
    <3> QED  BY <1>0, <3>1, <3>2
  <2>2. CASE \E s \in Step, p \in Slot : x = SourceOf(s, p, "relaxed", RelaxedIn(list, u, s, p))
    <3>1. PICK s \in Step, p \in Slot : x = SourceOf(s, p, "relaxed", RelaxedIn(list, u, s, p))
      BY <2>2
    <3>2. /\ x.step = s /\ x.slot = p /\ x.kind = "relaxed" /\ x.grad = RelaxedIn(list, u, s, p)
          /\ RelaxedIn(list, u, s, p) \in Int
      BY <1>a, <3>1 DEF SourceOf
    <3> QED  BY <3>1, <3>2
  <2> QED  BY <2>1, <2>2 DEF SourcesIn
<1>2. /\ \A s \in Step, k \in BeamId : SourceOf(s, k, "selected", SelectedIn(u, s, k)) \in S
      /\ \A s \in Step, p \in Slot : SourceOf(s, p, "relaxed", RelaxedIn(list, u, s, p)) \in S
  BY DEF SourcesIn
<1>3. IsFiniteSet(S)
  <2> DEFINE Kinds == {"selected", "relaxed"}
             Names == Step \X (Slot \X Kinds)
             name == [x \in S |-> <<x.step, <<x.slot, x.kind>>>>]
  <2>1. IsFiniteSet(Step) /\ IsFiniteSet(Slot) /\ IsFiniteSet(Kinds)
    <3>1. IsFiniteSet(Step) /\ IsFiniteSet(Slot)
      BY DimensionsAssumption, PAssumption, FS_Interval DEF Step, Slot
    <3>2. IsFiniteSet(Kinds)
      <4>1. IsFiniteSet({"relaxed"}) /\ Kinds = {"relaxed"} \cup {"selected"}
        BY FS_Singleton
      <4> QED  BY <4>1, FS_AddElement
    <3> QED  BY <3>1, <3>2
  <2>2. IsFiniteSet(Names)
    <3>1. IsFiniteSet(Slot \X Kinds)
      <4> HIDE DEF Kinds
      <4> QED  BY <2>1, FS_Product
    <3> QED  BY <2>1, <3>1, FS_Product
  <2>3. \A x \in S : name[x] \in Names
    BY <1>1
  <2>4. ASSUME NEW x \in S, NEW y \in S, name[x] = name[y] PROVE x = y
    <3>1. x.step = y.step /\ x.slot = y.slot /\ x.kind = y.kind
      BY <2>4
    <3>2. x.grad = y.grad
      BY <1>1, <3>1
    <3> QED  BY <1>1, <3>1, <3>2
  <2>5. name \in Injection(S, Names)
    <3> HIDE DEF Names
    <3>1. name \in [S -> Names]
      BY <2>3
    <3> HIDE DEF name
    <3> QED  BY <2>4, <3>1 DEF Injection, IsInjective
  <2> HIDE DEF name, Names
  <2> QED  BY <2>2, <2>5, FS_Injection
<1>4. \A x \in S : Grads(S)[x] = x.grad /\ Grads(S)[x] \in Int
  BY <1>1 DEF Grads
<1> QED  BY <1>1, <1>2, <1>3, <1>4

\* The sum of the gradients of some of the sources.
LEMMA ContributionIs ==
  ASSUME NEW list, NEW u \in Upstream, NEW S, S = SourcesIn(list, u), NEW A \in SUBSET S
  PROVE  /\ Contribution(A) = Total(Grads(S), A)
         /\ IsFiniteSet(A) /\ Total(Grads(S), A) \in Int
<1>1. IsFiniteSet(S) /\ \A x \in S : Grads(S)[x] = x.grad /\ Grads(S)[x] \in Int
  BY SourceFields
<1>2. IsFiniteSet(A)
  BY <1>1, FS_Subset
<1>3. Contribution(A) = Total([x \in A |-> x.grad], A)
  BY SumIsTotal DEF Contribution
<1>4. Total([x \in A |-> x.grad], A) = Total(Grads(S), A)
  <2> PICK e : e = [x \in A |-> x.grad]
    OBVIOUS
  <2> PICK g : g = Grads(S)
    OBVIOUS
  <2>1. \A x \in A : e[x] = g[x]
    BY <1>1
  <2>2. Total(e, A) = Total(g, A)
    BY <1>2, <2>1, TotalAgree
  <2> QED  BY <2>2
<1>5. Total(Grads(S), A) \in Int
  BY <1>1, <1>2, TotalType
<1> QED  BY <1>2, <1>3, <1>4, <1>5
-----------------------------------------------------------------------------
(***************************************************************************)
(* The flow.  Of the sources whose gradient has come to step s, those are  *)
(* counted at the raw score k that came by way of parent k, and those at   *)
(* the log-probability n whose path n extended.                            *)
(***************************************************************************)

\* Does the path of source x pass the log-probability n at step r?
Passes(list, x, r, n) ==
  LET c == PathIn(list, x.step, x.slot)[r]
  IN  c.fromLogprob = 1 /\ n = (r * K + c.parent) * V + c.token

\* The sources of later steps.
After(S, s) == {x \in S : x.step > s}

\* Those of A that step r sends to raw score k.
CameTo(list, A, r, k) == {x \in A : PathIn(list, x.step, x.slot)[r].parent = k}

\* Those whose gradient is at the log-probability n when step r has A.
Spread(list, S, r, A, n) ==
  {x \in S : \E q \in 0 .. x.step : (q > r \/ (q = r /\ x \in A)) /\ Passes(list, x, q, n)}

\* A path passes a log-probability of its own step.
LEMMA PassesThere ==
  ASSUME NEW list, PoolsOK(list), NEW u \in Upstream, NEW S, S = SourcesIn(list, u),
         NEW x \in S, NEW r \in 0 .. x.step, NEW n, Passes(list, x, r, n)
  PROVE  n \in Index /\ n \in Int /\ (r * K) * V <= n /\ n < ((r + 1) * K) * V
<1> PICK c : c = PathIn(list, x.step, x.slot)[r]
  OBVIOUS
<1>1. x.step \in Step /\ x.slot \in Slot
  BY SourceFields
<1>2. r \in Step /\ r \in 0 .. x.step
  BY <1>1, DimensionsAssumption DEF Step
<1>3. c.fromLogprob = 1 /\ n = (r * K + c.parent) * V + c.token
  BY DEF Passes
<1>4. c.parent \in BeamId /\ c.token \in Token
  BY <1>1, <1>3, PathSlots
<1>5. n \in Index /\ (r * K) * V <= n /\ n < ((r + 1) * K) * V
  BY <1>2, <1>3, <1>4, IndexOf
<1> QED  BY <1>5, ProductPositive DEF Index

\* No log-probability belongs to two steps.
LEMMA PassesOnce ==
  ASSUME NEW list, PoolsOK(list), NEW u \in Upstream, NEW S, S = SourcesIn(list, u),
         NEW x \in S, NEW y \in S, NEW r \in 0 .. x.step, NEW q \in 0 .. y.step, r < q, NEW n,
         Passes(list, x, r, n)
  PROVE  ~Passes(list, y, q, n)
<1> SUFFICES ASSUME Passes(list, y, q, n) PROVE FALSE
  OBVIOUS
<1>1. n \in Int /\ n < ((r + 1) * K) * V
  BY PassesThere
<1>2. (q * K) * V <= n
  BY PassesThere
<1>3. x.step \in Nat /\ y.step \in Nat
  BY SourceFields, DimensionsAssumption DEF Step
<1>4. r + 1 \in Nat /\ q \in Nat /\ r + 1 <= q /\ K \in Nat /\ V \in Nat
  BY <1>3, DimensionsAssumption
<1>5. \A a, b, z \in Nat : a <= b => a * z <= b * z
  OBVIOUS
<1>6. (r + 1) * K \in Nat /\ q * K \in Nat /\ (r + 1) * K <= q * K
  BY <1>4, <1>5
<1>7. ((r + 1) * K) * V <= (q * K) * V /\ ((r + 1) * K) * V \in Int /\ (q * K) * V \in Int
  BY <1>4, <1>5, <1>6
<1> QED  BY <1>1, <1>2, <1>7

\* D comes to step s by way of candidate c, draw being its gradients' sum, and
\* makes A to B.
ComeBy(list, S, s, c, draw, A, D, B) ==
  /\ A \in SUBSET S /\ D \in SUBSET S /\ A \cap D = {} /\ B = A \cup D
  /\ \A x \in D : x.step >= s /\ PathIn(list, x.step, x.slot)[s] = c
  /\ Total(Grads(S), D) = draw

\* The gradients of more sources come to step s, all of them by way of candidate c:
\* to the raw score that is its parent,
LEMMA ArriveAtScore ==
  ASSUME NEW list, PoolsOK(list), NEW u \in Upstream, NEW S, S = SourcesIn(list, u),
         NEW s \in Step, NEW c, NEW draw, NEW A, NEW D, NEW B, ComeBy(list, S, s, c, draw, A, D, B),
         NEW k
  PROVE  Total(Grads(S), CameTo(list, B, s, k)) =
           Total(Grads(S), CameTo(list, A, s, k)) + IF c.parent = k THEN draw ELSE 0
<1> USE DEF ComeBy
<1> PICK g : g = Grads(S)
  OBVIOUS
<1>1. \A x \in S : g[x] \in Int /\ x.step \in Nat
  BY SourceFields, DimensionsAssumption DEF Step
<1>2. \A X \in SUBSET S : IsFiniteSet(X) /\ Total(g, X) \in Int
  BY ContributionIs
<1>3. ASSUME NEW X \in SUBSET S, NEW Y \in SUBSET S, X \cap Y = {}
      PROVE  Total(g, X \cup Y) = Total(g, X) + Total(g, Y)
  <2>1. IsFiniteSet(X) /\ IsFiniteSet(Y) /\ \A x \in X \cup Y : g[x] \in Int
    BY <1>1, <1>2
  <2> QED  BY <1>3, <2>1, TotalUnion
<1>4. CameTo(list, A, s, k) \in SUBSET S /\ CameTo(list, A, s, k) \cap D = {}
  BY DEF CameTo
<1>5. CASE c.parent = k
  <2>1. CameTo(list, B, s, k) = CameTo(list, A, s, k) \cup D
    BY <1>5 DEF CameTo
  <2> PICK X : X = CameTo(list, A, s, k)
    OBVIOUS
  <2>2. Total(g, X \cup D) = Total(g, X) + draw
    BY <1>3, <1>4
  <2> QED  BY <1>5, <2>1, <2>2
<1>6. CASE c.parent # k
  <2>1. CameTo(list, B, s, k) = CameTo(list, A, s, k)
    BY <1>6 DEF CameTo
  <2> QED  BY <1>2, <1>4, <1>6, <2>1
<1> QED  BY <1>5, <1>6

\* and to the log-probability that it extended.
LEMMA ArriveAtLogprob ==
  ASSUME NEW list, PoolsOK(list), NEW u \in Upstream, NEW S, S = SourcesIn(list, u),
         NEW s \in Step, NEW c, NEW draw, NEW A, NEW D, NEW B, ComeBy(list, S, s, c, draw, A, D, B),
         NEW n
  PROVE  Total(Grads(S), Spread(list, S, s, B, n)) =
           Total(Grads(S), Spread(list, S, s, A, n))
           + IF c.fromLogprob = 1 /\ n = (s * K + c.parent) * V + c.token THEN draw ELSE 0
<1> USE DEF ComeBy
<1> PICK g : g = Grads(S)
  OBVIOUS
<1>1. \A x \in S : g[x] \in Int /\ x.step \in Nat
  BY SourceFields, DimensionsAssumption DEF Step
<1>2. \A X \in SUBSET S : IsFiniteSet(X) /\ Total(g, X) \in Int
  BY ContributionIs
<1>3. ASSUME NEW X \in SUBSET S, NEW Y \in SUBSET S, X \cap Y = {}
      PROVE  Total(g, X \cup Y) = Total(g, X) + Total(g, Y)
  <2>1. IsFiniteSet(X) /\ IsFiniteSet(Y) /\ \A x \in X \cup Y : g[x] \in Int
    BY <1>1, <1>2
  <2> QED  BY <1>3, <2>1, TotalUnion
<1>4. Spread(list, S, s, A, n) \in SUBSET S
  BY DEF Spread
<1>5. \A x \in D : s \in 0 .. x.step
  BY <1>1, DimensionsAssumption DEF Step
<1>6. \A x \in D : Passes(list, x, s, n) <=>
                     c.fromLogprob = 1 /\ n = (s * K + c.parent) * V + c.token
  BY DEF Passes
<1>7. CASE c.fromLogprob = 1 /\ n = (s * K + c.parent) * V + c.token
  <2>1. Spread(list, S, s, B, n) = Spread(list, S, s, A, n) \cup D
    BY <1>5, <1>6, <1>7 DEF Spread
  <2>2. ASSUME NEW x \in D, x \in Spread(list, S, s, A, n) PROVE FALSE
    <3>1. PICK q \in 0 .. x.step : (q > s \/ (q = s /\ x \in A)) /\ Passes(list, x, q, n)
      BY <2>2 DEF Spread
    <3>2. q > s
      BY <3>1
    <3>3. Passes(list, x, s, n) /\ s \in 0 .. x.step /\ x \in S
      BY <1>5, <1>6, <1>7
    <3>4. s < q
      BY <1>1, <3>2, <3>3
    <3> QED  BY <3>1, <3>3, <3>4, PassesOnce
  <2>3. Spread(list, S, s, A, n) \cap D = {}
    BY <2>2
  <2> PICK X : X = Spread(list, S, s, A, n)
    OBVIOUS
  <2>4. Total(g, X \cup D) = Total(g, X) + draw
    BY <1>3, <1>4, <2>3
  <2> QED  BY <1>7, <2>1, <2>4
<1>8. CASE ~(c.fromLogprob = 1 /\ n = (s * K + c.parent) * V + c.token)
  <2>1. Spread(list, S, s, B, n) = Spread(list, S, s, A, n)
    BY <1>6, <1>8 DEF Spread
  <2> QED  BY <1>2, <1>4, <1>8, <2>1
<1> QED  BY <1>7, <1>8

\* The sources whose gradient has come to step s, in the given phase of the
\* pass, its slots below n being done.
ArrivedAt(list, S, phase, s, n) ==
  {x \in S :
     \/ x.step > s /\ (phase = "selected" => PathIn(list, x.step, x.slot)[s + 1].parent < n)
     \/ x.step = s /\ x.kind = "selected" /\ (phase = "selected" => x.slot < n)
     \/ x.step = s /\ x.kind = "relaxed" /\ phase # "selected" /\ (phase = "relaxed" => x.slot < n)}

Here == SourcesIn(pools, up)

Arrived == ArrivedAt(pools, Here, pc, t, at)

\* The gradient of the log-probabilities so far.
Returned(n) == IF form = "dense" THEN dense[n] ELSE ValueAt(entries, n)

Finishing == pc \in {"sort", "merge", "done"}

\* Where each source's gradient is.
FlowInv ==
  /\ Passing =>
       \A k \in BeamId :
         /\ next[k] = Total(Grads(Here), CameTo(pools, After(Here, t), t + 1, k))
         /\ prev[k] = Total(Grads(Here), CameTo(pools, Arrived, t, k))
  /\ Finishing =>
       \A k \in BeamId : next[k] = Total(Grads(Here), CameTo(pools, Here, 0, k))
  /\ Passing \/ Finishing =>
       \A n \in Index : Returned(n) = Total(Grads(Here), Spread(pools, Here, t, Arrived, n))

\* Is n the log-probability some candidate of the pools extended?
Expanded(list, n) ==
  \E s \in Step, p \in Slot :
    list[s + 1][p].fromLogprob = 1 /\ n = (s * K + list[s + 1][p].parent) * V + list[s + 1][p].token

\* The sort and the merge.
MergeInv ==
  /\ \A j \in 1 .. Len(entries) : Expanded(pools, entries[j].index)
  /\ pc = "merge" =>
       /\ \A j, m \in 1 .. Len(entries) : j < m => entries[j].index <= entries[m].index
       /\ cur = entries[IF i = 1 THEN 1 ELSE i - 1].index
       /\ \A j \in 1 .. Len(out) : out[j].index < cur
       /\ \A n \in Index :
            ValueAt(out, n) + (IF n = cur THEN sum ELSE 0) = ValueUpTo(entries, i - 1, n)
  /\ \A j, m \in 1 .. Len(out) : j < m => out[j].index < out[m].index
  /\ \A j \in 1 .. Len(out) : Expanded(pools, out[j].index)
  /\ pc = "done" /\ form = "sparse" =>
       \A n \in Index : ValueAt(out, n) = ValueAt(entries, n)

\* What a pass reads does not change.
LEMMA PassFacts ==
  ASSUME TypeInv, Passing \/ Finishing
  PROVE  /\ PoolsOK(pools) /\ up \in Upstream
         /\ Passing => t \in Step
         /\ t \in Nat /\ at \in Nat
         /\ prev \in [BeamId -> Int] /\ next \in [BeamId -> Int] /\ dense \in [Index -> Int]
         /\ entries \in Seq(SparseEntry) /\ out \in Seq(SparseEntry)
<1>1. Len(pools) = T
  BY DEF TypeInv, DecodeInv, Passing, Finishing
<1>2. PoolsOK(pools)
  BY <1>1 DEF TypeInv, TypeOK, DecodeInv, PoolsOK
<1>3. Passing => t \in Step
  BY DimensionsAssumption DEF TypeInv, TypeOK, PhaseInv, Step
<1> QED  BY <1>2, <1>3, DimensionsAssumption, PAssumption DEF TypeInv, TypeOK

\* What a scatter adds, and where.
LEMMA ScatterAdds ==
  ASSUME TypeInv, Passing, NEW n \in Slot, NEW draw \in Int, Scatter(pools[t + 1][n], draw),
         form' = form, NEW c, c = pools[t + 1][n]
  PROVE  /\ \A k \in BeamId : prev'[k] = prev[k] + IF c.parent = k THEN draw ELSE 0
         /\ \A m \in Index :
              Returned(m)' = Returned(m)
                + IF c.fromLogprob = 1 /\ m = (t * K + c.parent) * V + c.token THEN draw ELSE 0
<1>1. /\ PoolsOK(pools) /\ t \in Step
      /\ prev \in [BeamId -> Int] /\ dense \in [Index -> Int] /\ entries \in Seq(SparseEntry)
  BY PassFacts
<1>2. t + 1 \in 1 .. T
  BY <1>1, DimensionsAssumption DEF Step
<1>3. SlotOK(pools, t + 1, c) /\ c \in Candidate
  BY <1>1, <1>2 DEF PoolsOK, Buffer
<1>4. \A m \in Index : Returned(m) \in Int
  <2>1. \A m : ValueAt(entries, m) \in Int
    <3> TAKE m
    <3>1. Len(entries) \in 0 .. Len(entries)
      BY <1>1, LenProperties
    <3> QED  BY <1>1, <3>1, ValueUpToNext
  <2> QED  BY <1>1, <2>1 DEF Returned
<1>5. CASE c.parent < 0 \/ draw = 0
  <2>1. UNCHANGED <<prev, dense, entries>>
    BY <1>5 DEF Scatter
  <2>2. c.parent < 0 => c.fromLogprob # 1 /\ \A k \in BeamId : c.parent # k
    <3>1. \A k \in BeamId : ~(k < 0)
      BY DEF BeamId
    <3> QED  BY <1>3, <3>1, CandidateFields DEF SlotOK
  <2>3. \A m \in Index : Returned(m)' = Returned(m)
    BY <2>1 DEF Returned
  <2> QED  BY <1>1, <1>4, <1>5, <2>1, <2>2, <2>3
<1>6. CASE ~(c.parent < 0 \/ draw = 0)
  <2>1. c.parent \in BeamId /\ (c.fromLogprob = 1 => c.token \in Token)
    BY <1>3, <1>6, CandidateFields DEF SlotOK
  <2>2. prev' = [prev EXCEPT ![c.parent] = @ + draw]
    BY <1>6 DEF Scatter
  <2>3. \A k \in BeamId : prev'[k] = prev[k] + IF c.parent = k THEN draw ELSE 0
    BY <1>1, <2>1, <2>2
  <2>4. CASE c.fromLogprob = 0 \/ c.token < 0
    <3>1. UNCHANGED <<dense, entries>>
      BY <1>6, <2>4 DEF Scatter
    <3>2. \A m \in Index : Returned(m)' = Returned(m)
      BY <3>1 DEF Returned
    <3>3. c.fromLogprob # 1
      <4>1. \A v \in Token : ~(v < 0)
        BY DEF Token
      <4> QED  BY <1>3, <2>1, <2>4, <4>1
    <3> QED  BY <1>4, <2>3, <3>2, <3>3
  <2>5. CASE ~(c.fromLogprob = 0 \/ c.token < 0)
    <3> PICK j : j = FlatIndex(c.parent, c.token)
      OBVIOUS
    <3>0. c.fromLogprob = 1 /\ c.token \in Token
      BY <1>3, <2>1, <2>5, CandidateFields
    <3>1. j = (t * K + c.parent) * V + c.token /\ j \in Index
      BY <1>1, <2>1, <3>0, IndexOf DEF FlatIndex
    <3>2. CASE form = "dense"
      <4>1. dense' = [dense EXCEPT ![j] = @ + draw]
        BY <1>6, <2>5, <3>2 DEF Scatter
      <4>2. \A m \in Index : dense'[m] = dense[m] + IF m = j THEN draw ELSE 0
        BY <1>1, <3>1, <4>1
      <4>3. \A m \in Index : Returned(m)' = dense'[m] /\ Returned(m) = dense[m]
        BY <3>2 DEF Returned
      <4> QED  BY <2>3, <3>0, <3>1, <4>2, <4>3
    <3>3. CASE form # "dense"
      <4>1. entries' = Append(entries, [index |-> j, value |-> draw])
        BY <1>6, <2>5, <3>3 DEF Scatter
      <4> PICK e : e = [index |-> j, value |-> draw]
        OBVIOUS
      <4>2. e \in SparseEntry /\ e.index = j /\ e.value = draw
        BY <3>1 DEF SparseEntry
      <4>3. \A m \in Index : ValueAt(entries', m) = ValueAt(entries, m) + IF j = m THEN draw ELSE 0
        BY <1>1, <4>1, <4>2, ValueAppend
      <4>4. \A m \in Index : Returned(m)' = ValueAt(entries', m) /\ Returned(m) = ValueAt(entries, m)
        BY <3>3 DEF Returned
      <4> QED  BY <2>3, <3>0, <3>1, <4>3, <4>4
    <3> QED  BY <3>2, <3>3
  <2> QED  BY <2>4, <2>5
<1> QED  BY <1>5, <1>6

\* Scattering selected slot n of step s: its own gradient comes to the step, and
\* what the later steps have brought to raw score n.
LEMMA SelectedArrives ==
  ASSUME NEW list, PoolsOK(list), NEW u \in Upstream, NEW S, S = SourcesIn(list, u),
         NEW s \in Step, NEW n \in BeamId,
         NEW A, A = ArrivedAt(list, S, "selected", s, n),
         NEW B, B = IF n + 1 < K THEN ArrivedAt(list, S, "selected", s, n + 1)
                    ELSE ArrivedAt(list, S, "relaxed", s, 0)
  PROVE  \E D \in SUBSET S :
           /\ A \cap D = {} /\ B = A \cup D /\ A \in SUBSET S
           /\ \A x \in D : x.step >= s /\ PathIn(list, x.step, x.slot)[s] = list[s + 1][n]
           /\ Total(Grads(S), D) =
                Total(Grads(S), CameTo(list, After(S, s), s + 1, n)) + SelectedIn(u, s, n)
<1> PICK own : own = SourceOf(s, n, "selected", SelectedIn(u, s, n))
  OBVIOUS
<1> PICK C : C = CameTo(list, After(S, s), s + 1, n)
  OBVIOUS
<1> DEFINE D == C \cup {own}
<1>1. s \in Nat /\ s < T /\ n \in 0 .. K - 1 /\ n \in Slot /\ K \in Nat
  BY DimensionsAssumption, PAssumption DEF Step, BeamId, Slot
<1>2. \A x \in S :
        /\ x.step \in Step /\ x.step \in Nat /\ x.slot \in Slot /\ x.slot \in Nat
        /\ x.kind = "selected" \/ x.kind = "relaxed"
        /\ x.kind = "selected" =>
             x.slot \in 0 .. K - 1 /\ x.grad = SelectedIn(u, x.step, x.slot)
        /\ x = SourceOf(x.step, x.slot, x.kind, x.grad)
  <2>1. \A r \in Step : r \in Nat
    BY DimensionsAssumption DEF Step
  <2>2. \A p \in Slot : p \in Nat
    BY PAssumption DEF Slot
  <2>3. \A x \in S :
        /\ x.step \in Step /\ x.slot \in Slot /\ x.kind \in {"selected", "relaxed"}
        /\ x.kind = "selected" => x.slot \in BeamId /\ x.grad = SelectedIn(u, x.step, x.slot)
        /\ x = SourceOf(x.step, x.slot, x.kind, x.grad)
    BY SourceFields
  <2> QED  BY <2>1, <2>2, <2>3 DEF BeamId
<1>3. own \in S /\ own.step = s /\ own.slot = n /\ own.kind = "selected"
      /\ own.grad = SelectedIn(u, s, n)
  BY SourceFields DEF SourceOf
<1>4. \A x \in S : x.step = s /\ x.kind = "selected" /\ x.slot = n => x = own
  BY <1>2
<1>5. ASSUME NEW x \in S, x.step > s
      PROVE  PathIn(list, x.step, x.slot)[s + 1].parent \in -1 .. K - 1
  <2>1. s + 1 \in 0 .. x.step
    BY <1>1, <1>2, <1>5
  <2>2. \/ PathIn(list, x.step, x.slot)[s + 1] = Placeholder
        \/ PathIn(list, x.step, x.slot)[s + 1].parent \in BeamId
    BY <1>2, <2>1, PathSlots
  <2> QED  BY <2>2, <1>1, CandidateFields DEF BeamId
<1>6. C = {x \in S : x.step > s /\ PathIn(list, x.step, x.slot)[s + 1].parent = n}
  BY DEF CameTo, After
<1>7. A = {x \in S : \/ x.step > s /\ PathIn(list, x.step, x.slot)[s + 1].parent < n
                     \/ x.step = s /\ x.kind = "selected" /\ x.slot < n}
  BY DEF ArrivedAt
<1>8. B = A \cup D
  <2>1. CASE n + 1 < K
    <3>1. B = {x \in S : \/ x.step > s /\ PathIn(list, x.step, x.slot)[s + 1].parent < n + 1
                         \/ x.step = s /\ x.kind = "selected" /\ x.slot < n + 1}
      BY <2>1 DEF ArrivedAt
    <3>2. ASSUME NEW x \in S PROVE x \in B <=> x \in A \cup D
      <4>1. CASE x.step > s
        <5>1. PICK par \in -1 .. K - 1 : par = PathIn(list, x.step, x.slot)[s + 1].parent
          BY <1>5, <4>1
        <5>2. x.step # s /\ (par < n + 1 <=> par < n \/ par = n) /\ x # own
          BY <1>1, <1>2, <1>3, <4>1
        <5> QED  BY <1>6, <1>7, <3>1, <4>1, <5>1, <5>2
      <4>2. CASE ~(x.step > s)
        <5>1. x.kind = "selected" => (x.slot < n + 1 <=> x.slot < n \/ x.slot = n)
          BY <1>1, <1>2
        <5> QED  BY <1>3, <1>4, <1>6, <1>7, <3>1, <4>2, <5>1
      <4> QED  BY <4>1, <4>2
    <3>3. B \subseteq S /\ A \cup D \subseteq S
      BY <1>3, <1>6, <1>7, <3>1
    <3> QED  BY <3>2, <3>3
  <2>2. CASE ~(n + 1 < K)
    <3>0. n = K - 1
      BY <1>1, <2>2
    <3>1. B = {x \in S : \/ x.step > s
                         \/ x.step = s /\ x.kind = "selected"}
      <4>1. \A x \in S : ~(x.slot < 0)
        BY <1>2
      <4> QED  BY <2>2, <4>1 DEF ArrivedAt
    <3>2. ASSUME NEW x \in S PROVE x \in B <=> x \in A \cup D
      <4>1. CASE x.step > s
        <5>1. PICK par \in -1 .. K - 1 : par = PathIn(list, x.step, x.slot)[s + 1].parent
          BY <1>5, <4>1
        <5>2. x.step # s /\ (par < n \/ par = n) /\ x # own
          BY <1>1, <1>2, <1>3, <3>0, <4>1
        <5> QED  BY <1>6, <1>7, <3>1, <4>1, <5>1, <5>2
      <4>2. CASE ~(x.step > s)
        <5>1. x.kind = "selected" => (x.slot < n \/ x.slot = n)
          BY <1>1, <1>2, <3>0
        <5> QED  BY <1>3, <1>4, <1>6, <1>7, <3>1, <4>2, <5>1
      <4> QED  BY <4>1, <4>2
    <3>3. B \subseteq S /\ A \cup D \subseteq S
      BY <1>3, <1>6, <1>7, <3>1
    <3> QED  BY <3>2, <3>3
  <2> QED  BY <2>1, <2>2
<1>9. A \cap D = {}
  <2>1. own \notin A
    BY <1>1, <1>3, <1>7
  <2>2. \A x \in C : x \notin A
    <3> SUFFICES ASSUME NEW x \in C, x \in A PROVE FALSE
      OBVIOUS
    <3>1. x \in S /\ x.step > s /\ PathIn(list, x.step, x.slot)[s + 1].parent = n
      BY <1>6
    <3> QED  BY <1>1, <1>2, <1>7, <3>1
  <2> QED  BY <2>1, <2>2
<1>10. ASSUME NEW x \in D
       PROVE  x.step >= s /\ PathIn(list, x.step, x.slot)[s] = list[s + 1][n]
  <2>1. CASE x = own
    BY <1>1, <1>3, <2>1, PathSteps
  <2>2. CASE x \in C
    <3>1. x \in S /\ x.step > s /\ PathIn(list, x.step, x.slot)[s + 1].parent = n
      BY <1>6, <2>2
    <3>2. x.step \in Nat /\ s \in 0 .. x.step - 1 /\ ~(n < 0)
      BY <1>1, <1>2, <3>1
    <3> QED  BY <3>1, <3>2, PathSteps
  <2> QED  BY <2>1, <2>2
<1>11. C \in SUBSET S /\ own \notin C /\ A \in SUBSET S
  BY <1>1, <1>3, <1>6, <1>7
<1>12. Total(Grads(S), D) = Total(Grads(S), C) + SelectedIn(u, s, n)
  <2> PICK g : g = Grads(S)
    OBVIOUS
  <2>1. IsFiniteSet(C) /\ Total(g, C) \in Int
    BY <1>11, ContributionIs
  <2>2. \A x \in C \cup {own} : g[x] \in Int
    BY <1>3, <1>11, SourceFields
  <2>3. g[own] = SelectedIn(u, s, n) /\ g[own] \in Int
    BY <1>3, SourceFields
  <2>4. Total(g, C \cup {own}) = g[own] + Total(g, C)
    BY <1>11, <2>1, <2>2, TotalAdd
  <2> QED  BY <2>1, <2>3, <2>4
<1>13. D \in SUBSET S
  BY <1>3, <1>11
<1> HIDE DEF D
<1> QED  BY <1>8, <1>9, <1>10, <1>11, <1>12, <1>13

\* Scattering slot n of the pool of step s.
LEMMA RelaxedArrives ==
  ASSUME NEW list, PoolsOK(list), NEW u \in Upstream, NEW S, S = SourcesIn(list, u),
         NEW s \in Step, NEW n \in Slot,
         NEW A, A = ArrivedAt(list, S, "relaxed", s, n),
         NEW B, B = IF n + 1 < P THEN ArrivedAt(list, S, "relaxed", s, n + 1)
                    ELSE ArrivedAt(list, S, "swap", s, 0)
  PROVE  \E D \in SUBSET S :
           /\ A \cap D = {} /\ B = A \cup D /\ A \in SUBSET S
           /\ \A x \in D : x.step >= s /\ PathIn(list, x.step, x.slot)[s] = list[s + 1][n]
           /\ Total(Grads(S), D) = RelaxedIn(list, u, s, n)
<1> PICK own : own = SourceOf(s, n, "relaxed", RelaxedIn(list, u, s, n))
  OBVIOUS
<1>1. s \in Nat /\ s < T /\ n \in 0 .. P - 1 /\ P \in Nat
  BY DimensionsAssumption, PAssumption DEF Step, Slot
<1>2. \A x \in S :
        /\ x.step \in Nat /\ x.slot \in 0 .. P - 1
        /\ x.kind = "selected" \/ x.kind = "relaxed"
        /\ x.kind = "relaxed" => x.grad = RelaxedIn(list, u, x.step, x.slot)
        /\ x = SourceOf(x.step, x.slot, x.kind, x.grad)
  <2>1. \A r \in Step : r \in Nat
    BY DimensionsAssumption DEF Step
  <2>2. \A x \in S :
        /\ x.step \in Step /\ x.slot \in Slot /\ x.kind \in {"selected", "relaxed"}
        /\ x.kind = "relaxed" => x.grad = RelaxedIn(list, u, x.step, x.slot)
        /\ x = SourceOf(x.step, x.slot, x.kind, x.grad)
    BY SourceFields
  <2> QED  BY <2>1, <2>2 DEF Slot
<1>3. own \in S /\ own.step = s /\ own.slot = n /\ own.kind = "relaxed"
      /\ own.grad = RelaxedIn(list, u, s, n)
  BY SourceFields DEF SourceOf
<1>4. \A x \in S : x.step = s /\ x.kind = "relaxed" /\ x.slot = n => x = own
  BY <1>2
<1>5. A = {x \in S : \/ x.step > s
                     \/ x.step = s /\ (x.kind = "selected" \/ (x.kind = "relaxed" /\ x.slot < n))}
  BY DEF ArrivedAt
<1>6. B = A \cup {own}
  <2>1. CASE n + 1 < P
    <3>1. B = {x \in S :
                 \/ x.step > s
                 \/ x.step = s /\ (x.kind = "selected" \/ (x.kind = "relaxed" /\ x.slot < n + 1))}
      BY <2>1 DEF ArrivedAt
    <3>2. \A x \in S : x.slot < n + 1 <=> x.slot < n \/ x.slot = n
      BY <1>1, <1>2
    <3> QED  BY <1>3, <1>4, <1>5, <3>1, <3>2
  <2>2. CASE ~(n + 1 < P)
    <3>1. B = {x \in S : x.step > s \/ x.step = s}
      BY <1>2, <2>2 DEF ArrivedAt
    <3>2. \A x \in S : x.slot < n \/ x.slot = n
      BY <1>1, <1>2, <2>2
    <3> QED  BY <1>2, <1>3, <1>4, <1>5, <3>1, <3>2
  <2> QED  BY <2>1, <2>2
<1>7. own \notin A /\ A \in SUBSET S
  BY <1>1, <1>3, <1>5
<1>8. own.step >= s /\ PathIn(list, own.step, own.slot)[s] = list[s + 1][n]
  BY <1>1, <1>3, PathSteps
<1>9. Total(Grads(S), {own}) = RelaxedIn(list, u, s, n)
  <2> PICK g : g = Grads(S)
    OBVIOUS
  <2>1. g[own] = RelaxedIn(list, u, s, n) /\ g[own] \in Int
    BY <1>3, SourceFields
  <2>2. IsFiniteSet({}) /\ own \notin {} /\ \A y \in {} \cup {own} : g[y] \in Int
    BY <2>1, FS_EmptySet
  <2>3. Total(g, {} \cup {own}) = g[own] + Total(g, {})
    BY <2>2, TotalAdd
  <2>4. Total(g, {}) = 0 /\ {} \cup {own} = {own}
    BY TotalOfNone
  <2> QED  BY <2>1, <2>3, <2>4
<1>10. {own} \in SUBSET S /\ A \cap {own} = {}
  BY <1>3, <1>7
<1> QED  BY <1>6, <1>7, <1>8, <1>9, <1>10

\* A scatter of the slot by which the sources D come to step t.
LEMMA ScatterFlow ==
  ASSUME TypeInv, FlowInv, Passing, Passing', NEW n \in Slot, NEW draw \in Int,
         Scatter(pools[t + 1][n], draw), UNCHANGED <<pools, up, form, t, next>>,
         NEW D \in SUBSET Here, Arrived \in SUBSET Here, Arrived \cap D = {}, Arrived' = Arrived \cup D,
         \A x \in D : x.step >= t /\ PathIn(pools, x.step, x.slot)[t] = pools[t + 1][n],
         Total(Grads(Here), D) = draw
  PROVE  FlowInv'
<1> PICK S : S = Here
  OBVIOUS
<1> PICK g : g = Grads(S)
  OBVIOUS
<1> PICK A : A = Arrived
  OBVIOUS
<1> PICK B : B = A \cup D
  OBVIOUS
<1> PICK c : c = pools[t + 1][n]
  OBVIOUS
<1> PICK list, u, s : list = pools /\ u = up /\ s = t
  OBVIOUS
<1>1. PoolsOK(list) /\ u \in Upstream /\ s \in Step /\ S = SourcesIn(list, u)
  BY PassFacts DEF Here
<1>2. Here' = S /\ Arrived' = B
  BY DEF Here
<1>3. ASSUME NEW k \in BeamId PROVE prev'[k] = prev[k] + IF c.parent = k THEN draw ELSE 0
  BY ScatterAdds
<1>4. ASSUME NEW m \in Index
      PROVE  Returned(m)' = Returned(m)
               + IF c.fromLogprob = 1 /\ m = (s * K + c.parent) * V + c.token THEN draw ELSE 0
  BY ScatterAdds
<1>5. ComeBy(list, S, s, c, draw, A, D, B)
  BY DEF ComeBy
<1>7. ASSUME NEW k \in BeamId
      PROVE  /\ next'[k] = Total(Grads(S), CameTo(pools, After(S, t), t + 1, k))
             /\ prev'[k] = Total(Grads(S), CameTo(pools, B, t, k))
  <2>1. /\ next[k] = Total(Grads(S), CameTo(list, After(S, s), s + 1, k))
        /\ prev[k] = Total(Grads(S), CameTo(list, A, s, k))
    BY DEF FlowInv
  <2>2. Total(Grads(S), CameTo(list, B, s, k)) =
          Total(Grads(S), CameTo(list, A, s, k)) + IF c.parent = k THEN draw ELSE 0
    BY <1>1, <1>5, ArriveAtScore
  <2> QED  BY <1>3, <2>1, <2>2
<1>8. ASSUME NEW m \in Index
      PROVE  Returned(m)' = Total(Grads(S), Spread(pools, S, t, B, m))
  <2>1. Returned(m) = Total(Grads(S), Spread(list, S, s, A, m))
    BY DEF FlowInv
  <2>2. Total(Grads(S), Spread(list, S, s, B, m)) =
          Total(Grads(S), Spread(list, S, s, A, m))
            + IF c.fromLogprob = 1 /\ m = (s * K + c.parent) * V + c.token THEN draw ELSE 0
    BY <1>1, <1>5, ArriveAtLogprob
  <2> QED  BY <1>4, <2>1, <2>2
<1>9. ~Finishing'
  BY DEF Passing, Finishing
<1> QED  BY <1>2, <1>7, <1>8, <1>9 DEF FlowInv

\* Scattering a selected slot passes on what came to it, and its own gradient.
LEMMA SelectedFlow == TypeInv /\ FlowInv /\ ScatterSelected => FlowInv'
<1> SUFFICES ASSUME TypeInv, FlowInv, ScatterSelected PROVE FlowInv'
  OBVIOUS
<1>1. pc = "selected" /\ Passing /\ Passing' /\ at \in BeamId /\ at \in Slot
  BY DimensionsAssumption, PAssumption
  DEF ScatterSelected, Passing, TypeInv, TypeOK, PhaseInv, BeamId, Slot
<1>2. /\ PoolsOK(pools) /\ up \in Upstream /\ t \in Step /\ next[at] \in Int
      /\ Here = SourcesIn(pools, up)
  BY <1>1, PassFacts DEF Here
<1>3. UNCHANGED <<pools, up, form, t, next>> /\ Here' = Here
  BY DEF ScatterSelected, decodeVars, Here
<1>4. Arrived = ArrivedAt(pools, Here, "selected", t, at)
  BY <1>1 DEF Arrived
<1>5. Arrived' = IF at + 1 < K THEN ArrivedAt(pools, Here, "selected", t, at + 1)
                 ELSE ArrivedAt(pools, Here, "relaxed", t, 0)
  BY <1>1, <1>3 DEF Arrived, ScatterSelected
<1>6. PICK D \in SUBSET Here :
        /\ Arrived \cap D = {} /\ Arrived' = Arrived \cup D /\ Arrived \in SUBSET Here
        /\ \A x \in D : x.step >= t /\ PathIn(pools, x.step, x.slot)[t] = pools[t + 1][at]
        /\ Total(Grads(Here), D) =
             Total(Grads(Here), CameTo(pools, After(Here, t), t + 1, at)) + SelectedIn(up, t, at)
  BY <1>1, <1>2, <1>4, <1>5, SelectedArrives
<1>7. next[at] = Total(Grads(Here), CameTo(pools, After(Here, t), t + 1, at))
  BY <1>1 DEF FlowInv
<1>8. SelectedGradient(t, at) = SelectedIn(up, t, at) /\ SelectedGradient(t, at) \in Int
  BY <1>1, <1>2, GradientsAre, SlotGradients
<1>9. PICK draw : draw = next[at] + SelectedGradient(t, at)
  OBVIOUS
<1>10. draw \in Int /\ Total(Grads(Here), D) = draw /\ Scatter(pools[t + 1][at], draw)
  BY <1>2, <1>6, <1>7, <1>8, <1>9 DEF ScatterSelected
<1> QED  BY <1>1, <1>3, <1>6, <1>10, ScatterFlow

\* Scattering a relaxed slot passes its gradient to its parent and its token.
LEMMA RelaxedFlow == TypeInv /\ FlowInv /\ ScatterRelaxed => FlowInv'
<1> SUFFICES ASSUME TypeInv, FlowInv, ScatterRelaxed PROVE FlowInv'
  OBVIOUS
<1>1. pc = "relaxed" /\ Passing /\ Passing' /\ at \in Slot
  BY PAssumption DEF ScatterRelaxed, Passing, TypeInv, TypeOK, Slot
<1>2. /\ PoolsOK(pools) /\ up \in Upstream /\ t \in Step
      /\ Here = SourcesIn(pools, up)
  BY <1>1, PassFacts DEF Here
<1>3. UNCHANGED <<pools, up, form, t, next>> /\ Here' = Here
  BY DEF ScatterRelaxed, decodeVars, Here
<1>4. Arrived = ArrivedAt(pools, Here, "relaxed", t, at)
  BY <1>1 DEF Arrived
<1>5. Arrived' = IF at + 1 < P THEN ArrivedAt(pools, Here, "relaxed", t, at + 1)
                 ELSE ArrivedAt(pools, Here, "swap", t, 0)
  BY <1>1, <1>3 DEF Arrived, ScatterRelaxed
<1>6. PICK D \in SUBSET Here :
        /\ Arrived \cap D = {} /\ Arrived' = Arrived \cup D /\ Arrived \in SUBSET Here
        /\ \A x \in D : x.step >= t /\ PathIn(pools, x.step, x.slot)[t] = pools[t + 1][at]
        /\ Total(Grads(Here), D) = RelaxedIn(pools, up, t, at)
  BY <1>1, <1>2, <1>4, <1>5, RelaxedArrives
<1>7. RelaxedGradient(t, at) = RelaxedIn(pools, up, t, at) /\ RelaxedGradient(t, at) \in Int
  BY <1>1, <1>2, GradientsAre, SlotGradients
<1>8. Scatter(pools[t + 1][at], RelaxedGradient(t, at))
  BY DEF ScatterRelaxed
<1> QED  BY <1>1, <1>3, <1>6, <1>7, <1>8, ScatterFlow

\* The call: no gradient has come anywhere.
LEMMA CallFlow == TypeInv /\ Call /\ TypeInv' => FlowInv'
<1> SUFFICES ASSUME TypeInv, Call, TypeInv' PROVE FlowInv'
  OBVIOUS
<1>1. CASE pc' = "refused"
  BY <1>1 DEF FlowInv, Passing, Finishing
<1>2. CASE pc' # "refused"
  <2>1. /\ pc' = "selected" /\ t' = T - 1 /\ pc = "decode" /\ T - 1 \in Step
        /\ UNCHANGED <<pools, up, form, next, prev, dense, entries, at>>
    BY <1>2, DimensionsAssumption DEF Call, decodeVars, Step
  <2>2. /\ at = 0 /\ next = NoGradient /\ prev = NoGradient /\ dense = [n \in Index |-> 0]
        /\ entries = << >>
    BY <2>1 DEF TypeInv, PhaseInv
  <2> PICK S : S = Here'
    OBVIOUS
  <2>3. S = SourcesIn(pools', up') /\ up' \in Upstream
    BY DEF Here, TypeInv, TypeOK
  <2>4. \A x \in S : x.step \in Nat /\ x.step <= T - 1 /\ x.slot \in Nat
    BY <2>3, SourceFields, DimensionsAssumption, PAssumption DEF Step, Slot
  <2>5. After(S, t') = {} /\ Arrived' = {}
    <3>1. After(S, T - 1) = {}
      BY <2>4, DimensionsAssumption DEF After
    <3>2. ArrivedAt(pools', S, "selected", T - 1, 0) = {}
      BY <2>4, DimensionsAssumption DEF ArrivedAt
    <3> QED  BY <2>1, <2>2, <3>1, <3>2 DEF Arrived
  <2>6. \A r, k : CameTo(pools', {}, r, k) = {}
    BY DEF CameTo
  <2>7. \A n : Spread(pools', S, t', {}, n) = {}
    <3> SUFFICES ASSUME NEW x \in S, NEW q \in 0 .. x.step, q > T - 1 PROVE FALSE
      BY <2>1 DEF Spread
    <3> QED  BY <2>4, DimensionsAssumption
  <2>8. \A n \in Index : Returned(n)' = 0
    <3>1. \A n \in Index : dense'[n] = 0 /\ ValueAt(entries', n) = 0
      BY <2>1, <2>2, ValueOfNone
    <3> QED  BY <3>1 DEF Returned
  <2>9. \A k \in BeamId : next'[k] = 0 /\ prev'[k] = 0
    BY <2>1, <2>2 DEF NoGradient
  <2>10. ~Finishing'
    BY <2>1 DEF Finishing
  <2>11. \A k \in BeamId :
           /\ next'[k] = Total(Grads(S), CameTo(pools', After(S, t'), t' + 1, k))
           /\ prev'[k] = Total(Grads(S), CameTo(pools', Arrived', t', k))
    BY <2>5, <2>6, <2>9, TotalOfNone
  <2>12. \A n \in Index : Returned(n)' = Total(Grads(S), Spread(pools', S, t', Arrived', n))
    BY <2>5, <2>7, <2>8, TotalOfNone
  <2> QED  BY <2>10, <2>11, <2>12 DEF FlowInv
<1> QED  BY <1>1, <1>2

\* When every slot of step s has been scattered, all the sources from s on have
\* come to it; the step before starts with none that it could send on.
LEMMA SwapArrives ==
  ASSUME NEW list, PoolsOK(list), NEW u \in Upstream, NEW S, S = SourcesIn(list, u),
         NEW s \in Step, NEW A, A = ArrivedAt(list, S, "swap", s, 0),
         NEW B, B = ArrivedAt(list, S, "selected", s - 1, 0)
  PROVE  /\ s > 0 => /\ After(S, s - 1) = A
                     /\ \A k \in BeamId : CameTo(list, B, s - 1, k) = {}
                     /\ \A n : Spread(list, S, s - 1, B, n) = Spread(list, S, s, A, n)
         /\ s = 0 => A = S
<1>1. s \in Nat
  BY DimensionsAssumption DEF Step
<1>2. \A x \in S : /\ x.step \in Step /\ x.step \in Nat /\ x.slot \in Slot /\ x.slot \in Nat
                   /\ x.kind = "selected" \/ x.kind = "relaxed"
  <2>1. \A r \in Step : r \in Nat
    BY DimensionsAssumption DEF Step
  <2>2. \A p \in Slot : p \in Nat
    BY PAssumption DEF Slot
  <2> QED  BY <2>1, <2>2, SourceFields
<1>3. A = {x \in S : x.step >= s}
  BY <1>1, <1>2 DEF ArrivedAt
<1>4. ASSUME s > 0
      PROVE  /\ After(S, s - 1) = A
             /\ \A k \in BeamId : CameTo(list, B, s - 1, k) = {}
             /\ \A n : Spread(list, S, s - 1, B, n) = Spread(list, S, s, A, n)
  <2>1. After(S, s - 1) = A
    BY <1>1, <1>2, <1>3, <1>4 DEF After
  <2>2. ASSUME NEW x \in B
        PROVE  x \in S /\ s - 1 \in 0 .. x.step /\ PathIn(list, x.step, x.slot)[s - 1] = Placeholder
    <3>1. /\ x \in S /\ x.step > s - 1
          /\ PathIn(list, x.step, x.slot)[(s - 1) + 1].parent < 0
      BY <1>1, <1>2 DEF ArrivedAt
    <3>2. x.step \in Nat /\ s - 1 \in 0 .. x.step - 1
      BY <1>1, <1>2, <1>4, <3>1
    <3> PICK r : r = s - 1
      OBVIOUS
    <3>3. x.step \in Nat /\ r \in 0 .. x.step - 1 /\ PathIn(list, x.step, x.slot)[r + 1].parent < 0
      BY <3>1, <3>2
    <3>4. PathIn(list, x.step, x.slot)[r] = Placeholder
      BY <3>3, PathSteps
    <3> QED  BY <3>1, <3>2, <3>4
  <2>3. \A k \in BeamId : CameTo(list, B, s - 1, k) = {}
    <3> SUFFICES ASSUME NEW k \in BeamId, NEW x \in B,
                        PathIn(list, x.step, x.slot)[s - 1].parent = k
                 PROVE  FALSE
      BY DEF CameTo
    <3> QED  BY <2>2, CandidateFields DEF BeamId
  <2>4. ASSUME NEW n PROVE Spread(list, S, s - 1, B, n) = Spread(list, S, s, A, n)
    <3>1. \A x \in B : ~Passes(list, x, s - 1, n)
      BY <2>2, CandidateFields DEF Passes
    <3>2. ASSUME NEW x \in S, NEW q \in 0 .. x.step, Passes(list, x, q, n)
          PROVE  (q > s - 1 \/ (q = s - 1 /\ x \in B)) <=> (q > s \/ (q = s /\ x \in A))
      <4>1. q = s - 1 => x \notin B
        BY <3>1, <3>2
      <4>2. q = s => x \in A
        BY <1>1, <1>2, <1>3
      <4>3. q \in Nat /\ (q > s - 1 <=> q > s \/ q = s)
        BY <1>1, <1>2
      <4> QED  BY <4>1, <4>2, <4>3
    <3> QED  BY <3>2 DEF Spread
  <2> QED  BY <2>1, <2>3, <2>4
<1>5. s = 0 => A = S
  BY <1>2, <1>3
<1> QED  BY <1>4, <1>5

\* At the end everything has come to step 0.
LEMMA AllArrived ==
  ASSUME NEW list, NEW u \in Upstream, NEW S, S = SourcesIn(list, u),
         NEW phase \in {"sort", "merge", "done"}, NEW n
  PROVE  ArrivedAt(list, S, phase, 0, n) = S
<1>1. \A x \in S : x.step \in Nat /\ (x.kind = "selected" \/ x.kind = "relaxed")
  <2>1. \A r \in Step : r \in Nat
    BY DimensionsAssumption DEF Step
  <2> QED  BY <2>1, SourceFields
<1> QED  BY <1>1 DEF ArrivedAt

\* What was before a step is after the one before it.
LEMMA StepBackFlow == TypeInv /\ FlowInv /\ StepBack => FlowInv'
<1> SUFFICES ASSUME TypeInv, FlowInv, StepBack PROVE FlowInv'
  OBVIOUS
<1>1. pc = "swap" /\ Passing /\ at = 0
  BY DEF StepBack, TypeInv, PhaseInv, Passing
<1>2. /\ UNCHANGED <<pools, up, form, at, dense, entries>> /\ Here' = Here
      /\ next' = prev /\ prev' = NoGradient
      /\ \/ t > 0 /\ t' = t - 1 /\ pc' = "selected"
         \/ ~(t > 0) /\ t' = t /\ pc' \in {"done", "sort"}
  BY DEF StepBack, AfterSteps, decodeVars, Here
<1> PICK list, u, s, S : list = pools /\ u = up /\ s = t /\ S = Here
  OBVIOUS
<1>3. PoolsOK(list) /\ u \in Upstream /\ s \in Step /\ S = SourcesIn(list, u) /\ s \in Nat
  BY <1>1, PassFacts DEF Here
<1> PICK A : A = ArrivedAt(list, S, "swap", s, 0)
  OBVIOUS
<1> PICK B : B = ArrivedAt(list, S, "selected", s - 1, 0)
  OBVIOUS
<1>4. /\ \A k \in BeamId : prev[k] = Total(Grads(S), CameTo(list, A, s, k))
      /\ \A n \in Index : Returned(n) = Total(Grads(S), Spread(list, S, s, A, n))
  BY <1>1 DEF FlowInv, Arrived
<1>5. \A n \in Index : Returned(n)' = Returned(n)
  BY <1>2 DEF Returned
<1>6. CASE t > 0
  <2>1. t' = s - 1 /\ pc' = "selected" /\ Passing' /\ ~Finishing' /\ Arrived' = B /\ Here' = S
        /\ (s - 1) + 1 = s /\ s > 0
    BY <1>1, <1>2, <1>3, <1>6 DEF Passing, Finishing, Arrived
  <2>2. /\ After(S, s - 1) = A
        /\ \A k \in BeamId : CameTo(list, B, s - 1, k) = {}
        /\ \A n : Spread(list, S, s - 1, B, n) = Spread(list, S, s, A, n)
    BY <1>3, <2>1, SwapArrives
  <2>3. ASSUME NEW k \in BeamId
        PROVE  /\ next'[k] = Total(Grads(S), CameTo(list, After(S, s - 1), (s - 1) + 1, k))
               /\ prev'[k] = Total(Grads(S), CameTo(list, B, s - 1, k))
    <3>1. prev'[k] = 0
      BY <1>2 DEF NoGradient
    <3>2. CameTo(list, B, s - 1, k) = {} /\ next'[k] = prev[k]
      BY <1>2, <2>2
    <3> QED  BY <1>4, <2>1, <2>2, <3>1, <3>2, TotalOfNone
  <2>4. \A n \in Index : Returned(n)' = Total(Grads(S), Spread(list, S, s - 1, B, n))
    BY <1>4, <1>5, <2>2
  <2> QED  BY <1>2, <2>1, <2>3, <2>4 DEF FlowInv
<1>7. CASE ~(t > 0)
  <2>1. s = 0 /\ t' = 0 /\ pc' \in {"done", "sort"} /\ at' = 0 /\ Here' = S
    BY <1>1, <1>2, <1>3, <1>7
  <2>2. A = S
    BY <1>3, <2>1, SwapArrives
  <2>3. Arrived' = S
    <3> PICK phase : phase = pc'
      OBVIOUS
    <3>1. ArrivedAt(list, S, phase, 0, 0) = S
      BY <1>3, <2>1, AllArrived
    <3> QED  BY <1>2, <2>1, <3>1 DEF Arrived
  <2>4. ~Passing'
    BY <2>1 DEF Passing
  <2>5. \A k \in BeamId : next'[k] = Total(Grads(S), CameTo(list, S, 0, k))
    BY <1>2, <1>4, <2>1, <2>2
  <2>6. \A n \in Index : Returned(n)' = Total(Grads(S), Spread(list, S, 0, S, n))
    BY <1>4, <1>5, <2>1, <2>2
  <2> QED  BY <1>2, <2>1, <2>3, <2>4, <2>5, <2>6 DEF FlowInv
<1> QED  BY <1>6, <1>7
-----------------------------------------------------------------------------
(***************************************************************************)
(* The sparse entries: their sort and their merge.                         *)
(***************************************************************************)
LEMMA SortType == TypeInv /\ Sort => TypeInv'
<1> SUFFICES ASSUME TypeInv, Sort PROVE TypeInv'
  OBVIOUS
<1>1. /\ pc = "sort" /\ pc' = "merge" /\ entries' = Sorting(entries) /\ i' = 1 /\ sum' = 0
      /\ cur' = Sorting(entries)[1].index
      /\ UNCHANGED <<cons, beams, pools, up, form, t, at, next, prev, dense, out>>
  BY DEF Sort, decodeVars
<1>2. entries \in Seq(SparseEntry) /\ entries # << >> /\ form = "sparse" /\ out = << >>
  BY <1>1 DEF TypeInv, TypeOK, PhaseInv
<1>3. entries' \in Seq(SparseEntry) /\ Len(entries') = Len(entries)
  BY <1>1, <1>2, SortingOrders
<1>4. Len(entries) \in Nat \ {0}
  BY <1>2, EmptySeq
<1>5. cur' \in Index
  BY <1>1, <1>3, <1>4, EntryFields
<1>6. TypeOK'
  <2>1. i' \in 1 .. Len(entries') + 1
    BY <1>1, <1>3, <1>4
  <2> QED  BY <1>1, <1>3, <1>5, <2>1 DEF TypeInv, TypeOK
<1>7. DecodeInv'
  BY <1>1 DEF TypeInv, DecodeInv, SlotOK
<1>8. PhaseInv'
  <2>1. entries' # << >>
    BY <1>3, <1>4
  <2> QED  BY <1>1, <1>2, <2>1 DEF TypeInv, PhaseInv, Passing
<1> QED  BY <1>6, <1>7, <1>8 DEF TypeInv

\* One entry merged.
LEMMA MergeType == TypeInv /\ Merge => TypeInv'
<1> SUFFICES ASSUME TypeInv, Merge PROVE TypeInv'
  OBVIOUS
<1>1. /\ pc = "merge" /\ i <= Len(entries) /\ i' = i + 1
      /\ \/ sum' = sum + entries[i].value /\ UNCHANGED <<cur, out>>
         \/ /\ out' = Append(out, [index |-> cur, value |-> sum])
            /\ cur' = entries[i].index /\ sum' = entries[i].value
      /\ UNCHANGED <<cons, beams, pools, up, form, pc, t, at, next, prev, dense, entries>>
  BY DEF Merge, Flush, decodeVars
<1>2. /\ entries \in Seq(SparseEntry) /\ i \in 1 .. Len(entries) + 1 /\ Len(entries) \in Nat
      /\ cur \in Index /\ sum \in Int /\ out \in Seq(SparseEntry)
  BY EntryFields DEF TypeInv, TypeOK
<1>3. i \in 1 .. Len(entries) /\ i' \in 1 .. Len(entries) + 1
  BY <1>1, <1>2
<1>4. entries[i].index \in Index /\ entries[i].value \in Int
  BY <1>2, <1>3, EntryFields
<1>5. cur' \in Index /\ sum' \in Int /\ out' \in Seq(SparseEntry)
  <2>1. [index |-> cur, value |-> sum] \in SparseEntry
    BY <1>2 DEF SparseEntry
  <2>2. out' \in Seq(SparseEntry)
    BY <1>1, <1>2, <2>1
  <2>3. cur' \in Index
    BY <1>1, <1>2, <1>4
  <2>4. sum' \in Int
    <3> PICK v : v = entries[i].value
      OBVIOUS
    <3> QED  BY <1>1, <1>2, <1>4
  <2> QED  BY <2>2, <2>3, <2>4
<1>6. TypeOK'
  BY <1>1, <1>3, <1>5 DEF TypeInv, TypeOK
<1>7. DecodeInv'
  BY <1>1 DEF TypeInv, DecodeInv, SlotOK
<1>8. PhaseInv'
  BY <1>1 DEF TypeInv, PhaseInv, Passing
<1> QED  BY <1>6, <1>7, <1>8 DEF TypeInv

\* The last entry written.
LEMMA FlushLastType == TypeInv /\ FlushLast => TypeInv'
<1> SUFFICES ASSUME TypeInv, FlushLast PROVE TypeInv'
  OBVIOUS
<1>1. /\ pc = "merge" /\ pc' = "done" /\ out' = Append(out, [index |-> cur, value |-> sum])
      /\ UNCHANGED <<cons, beams, pools, up, form, t, at, next, prev, dense, entries, i, cur, sum>>
  BY DEF FlushLast, Flush, decodeVars
<1>2. out' \in Seq(SparseEntry)
  <2>1. [index |-> cur, value |-> sum] \in SparseEntry /\ out \in Seq(SparseEntry)
    BY DEF TypeInv, TypeOK, SparseEntry
  <2> QED  BY <1>1, <2>1
<1>3. TypeOK'
  BY <1>1, <1>2 DEF TypeInv, TypeOK
<1>4. DecodeInv'
  BY <1>1 DEF TypeInv, DecodeInv, SlotOK
<1>5. PhaseInv'
  BY <1>1 DEF TypeInv, PhaseInv, Passing
<1> QED  BY <1>3, <1>4, <1>5 DEF TypeInv

\* A stuttering step keeps the types.
LEMMA StutterType == TypeInv /\ UNCHANGED vars => TypeInv'
<1> SUFFICES ASSUME TypeInv, UNCHANGED vars PROVE TypeInv'
  OBVIOUS
<1> USE DEF vars, decodeVars, mergeVars
<1>1. TypeOK'
  BY DEF TypeInv, TypeOK
<1>2. DecodeInv'
  BY DEF TypeInv, DecodeInv, SlotOK
<1>3. PhaseInv'
  BY DEF TypeInv, PhaseInv, Passing
<1> QED  BY <1>1, <1>2, <1>3 DEF TypeInv

\* Every step keeps the types.
LEMMA NextTypeInv == TypeInv /\ [Next]_vars => TypeInv'
BY DecodeType, CallType, SelectedType, RelaxedType, StepBackType, SortType, MergeType,
   FlushLastType, StutterType DEF Next

\* The types hold in every reachable state.
LEMMA TypeInvariant == Spec => []TypeInv
BY InitTypeInv, NextTypeInv, PTL DEF Spec

\* What the sort and the merge leave alone: what each source has brought.
LEMMA FinishFlow ==
  ASSUME TypeInv, FlowInv, Sort \/ Merge \/ FlushLast
  PROVE  FlowInv'
<1>1. /\ pc \in {"sort", "merge", "done"} /\ pc' \in {"sort", "merge", "done"}
      /\ UNCHANGED <<pools, up, form, t, at, next, prev, dense>>
      /\ entries' = entries \/ entries' = Sorting(entries)
  BY DEF Sort, Merge, FlushLast, decodeVars
<1>2. /\ Finishing /\ Finishing' /\ ~Passing' /\ Here' = Here /\ t = 0 /\ up \in Upstream
      /\ Here = SourcesIn(pools, up) /\ entries \in Seq(SparseEntry)
  BY <1>1 DEF Finishing, Passing, Here, TypeInv, TypeOK, PhaseInv
<1>3. Arrived = Here /\ Arrived' = Here
  <2> PICK list, u, S, n : list = pools /\ u = up /\ S = Here /\ n = at
    OBVIOUS
  <2> PICK p, q : p = pc /\ q = pc'
    OBVIOUS
  <2>1. ArrivedAt(list, S, p, 0, n) = S /\ ArrivedAt(list, S, q, 0, n) = S
    BY <1>1, <1>2, AllArrived
  <2> QED  BY <1>1, <1>2, <2>1 DEF Arrived
<1>4. \A n \in Index : Returned(n)' = Returned(n)
  <2>1. \A n \in Index : ValueAt(entries', n) = ValueAt(entries, n)
    BY <1>1, <1>2, SortingKeepsValues
  <2> QED  BY <1>1, <2>1 DEF Returned
<1>5. \A k \in BeamId : next'[k] = Total(Grads(Here), CameTo(pools, Here, 0, k))
  BY <1>1, <1>2 DEF FlowInv
<1>6. \A n \in Index : Returned(n)' = Total(Grads(Here), Spread(pools, Here, t, Here, n))
  BY <1>2, <1>3, <1>4 DEF FlowInv
<1> QED  BY <1>1, <1>2, <1>3, <1>5, <1>6 DEF FlowInv

\* Every step keeps the flow of the gradients.
LEMMA NextFlow == TypeInv /\ TypeInv' /\ FlowInv /\ [Next]_vars => FlowInv'
<1> SUFFICES ASSUME TypeInv, TypeInv', FlowInv, [Next]_vars PROVE FlowInv'
  OBVIOUS
<1>1. CASE Decode
  BY <1>1 DEF Decode, FlowInv, Passing, Finishing
<1>2. CASE Call
  BY <1>2, CallFlow
<1>3. CASE ScatterSelected
  BY <1>3, SelectedFlow
<1>4. CASE ScatterRelaxed
  BY <1>4, RelaxedFlow
<1>5. CASE StepBack
  BY <1>5, StepBackFlow
<1>6. CASE Sort \/ Merge \/ FlushLast
  BY <1>6, FinishFlow
<1>7. CASE UNCHANGED vars
  <2>1. \A n \in Index : Returned(n)' = Returned(n)
    BY <1>7 DEF Returned, vars
  <2>2. Here' = Here /\ Arrived' = Arrived
    BY <1>7 DEF Here, Arrived, vars, decodeVars
  <2> QED  BY <1>7, <2>1, <2>2 DEF FlowInv, Passing, Finishing, vars, decodeVars
<1> QED  BY <1>1, <1>2, <1>3, <1>4, <1>5, <1>6, <1>7 DEF Next

\* The flow invariant holds in every reachable state.
LEMMA FlowInvariant == Spec => []FlowInv
<1>1. Init => FlowInv
  BY DEF Init, FlowInv, Passing, Finishing
<1> QED  BY <1>1, NextFlow, TypeInvariant, PTL DEF Spec

\* The decode and the passes write no merged entry, and no entry that is not the
\* log-probability of an expansion.
LEMMA ScatterMerges ==
  ASSUME TypeInv, MergeInv, Passing, NEW n \in Slot, NEW draw \in Int,
         Scatter(pools[t + 1][n], draw), UNCHANGED <<pools, out>>, Passing'
  PROVE  MergeInv'
<1> PICK c : c = pools[t + 1][n]
  OBVIOUS
<1>1. PoolsOK(pools) /\ t \in Step /\ entries \in Seq(SparseEntry) /\ out = << >>
  BY PassFacts DEF TypeInv, PhaseInv, Passing
<1>2. \/ entries' = entries
      \/ /\ entries' = Append(entries, [index |-> FlatIndex(c.parent, c.token), value |-> draw])
         /\ c.fromLogprob # 0
  BY DEF Scatter
<1>3. c.fromLogprob # 0 => Expanded(pools, FlatIndex(c.parent, c.token))
  <2>1. t + 1 \in 1 .. T
    BY <1>1, DimensionsAssumption DEF Step
  <2>2. c \in Candidate
    BY <1>1, <2>1 DEF PoolsOK, Buffer
  <2>3. c.fromLogprob # 0 => c.fromLogprob = 1
    BY <2>2, CandidateFields
  <2> QED  BY <1>1, <2>3 DEF Expanded, FlatIndex
<1>4. \A j \in 1 .. Len(entries) : Expanded(pools, entries[j].index)
  BY DEF MergeInv
<1>5. \A j \in 1 .. Len(entries') : Expanded(pools, entries'[j].index)
  <2>1. CASE entries' = entries
    BY <1>4, <2>1
  <2>2. CASE entries' # entries
    <3> PICK e : e = [index |-> FlatIndex(c.parent, c.token), value |-> draw]
      OBVIOUS
    <3>1. entries' = Append(entries, e) /\ Expanded(pools, e.index)
      BY <1>2, <1>3, <2>2
    <3>2. /\ Len(entries') = Len(entries) + 1 /\ entries'[Len(entries) + 1] = e
          /\ \A j \in 1 .. Len(entries) : entries'[j] = entries[j]
          /\ Len(entries) \in Nat
      <4> PICK list : list = entries
        OBVIOUS
      <4>1. list \in Seq(SparseEntry) /\ entries' = Append(list, e)
        BY <1>1, <3>1
      <4> QED  BY <4>1, AppendProperties, LenProperties
    <3> QED  BY <1>4, <3>1, <3>2
  <2> QED  BY <2>1, <2>2
<1>6. pc' # "merge" /\ pc' # "done" /\ Len(out') = 0
  BY <1>1 DEF Passing
<1> QED  BY <1>5, <1>6 DEF MergeInv

\* The sort puts equal indices side by side.
LEMMA SortMerges == TypeInv /\ MergeInv /\ Sort => MergeInv'
<1> SUFFICES ASSUME TypeInv, MergeInv, Sort PROVE MergeInv'
  OBVIOUS
<1>1. /\ pc = "sort" /\ pc' = "merge" /\ entries' = Sorting(entries) /\ i' = 1 /\ sum' = 0
      /\ cur' = Sorting(entries)[1].index
      /\ UNCHANGED <<pools, out>> /\ out = << >>
  BY DEF Sort, decodeVars, TypeInv, PhaseInv
<1> PICK list : list = entries
  OBVIOUS
<1> PICK sorted : sorted = Sorting(list)
  OBVIOUS
<1>2. list \in Seq(SparseEntry) /\ \A j \in 1 .. Len(list) : Expanded(pools, list[j].index)
  BY DEF TypeInv, TypeOK, MergeInv
<1>3. /\ sorted \in Seq(SparseEntry) /\ Len(sorted) = Len(list) /\ Len(list) \in Nat
      /\ \A a, b \in 1 .. Len(list) : a < b => sorted[a].index <= sorted[b].index
  BY <1>2, SortingOrders, EntryFields
<1>4. \A j \in 1 .. Len(sorted) : Expanded(pools, sorted[j].index)
  <2>1. PICK p \in [1 .. Len(list) -> 1 .. Len(list)] :
          /\ \A a, b \in 1 .. Len(list) : p[a] = p[b] => a = b
          /\ \A a \in 1 .. Len(list) : \E b \in 1 .. Len(list) : p[b] = a
          /\ \A a \in 1 .. Len(list) : Sorting(list)[a] = list[p[a]]
    BY <1>2, SortingOrders
  <2> QED  BY <1>2, <1>3, <2>1
<1>5. \A n \in Index : ValueAt(out', n) = 0 /\ ValueUpTo(sorted, 0, n) = 0
  <2>1. \A n : ValueAt(out', n) = 0
    BY <1>1, ValueOfNone
  <2>2. 0 \in 0 .. Len(sorted)
    BY <1>3
  <2>3. \A n : ValueUpTo(sorted, 0, n) = 0
    BY <1>3, <2>2, ValueUpToNext
  <2> QED  BY <2>1, <2>3
<1>6. \A n \in Index : ValueAt(out', n) + (IF n = cur' THEN sum' ELSE 0) = ValueUpTo(entries', i' - 1, n)
  BY <1>1, <1>5
<1>7. Len(out') = 0
  BY <1>1
<1> QED  BY <1>1, <1>3, <1>4, <1>6, <1>7 DEF MergeInv

\* The merge has read the first i - 1 entries.
LEMMA MergeFacts ==
  ASSUME TypeInv, MergeInv, pc = "merge"
  PROVE  /\ entries \in Seq(SparseEntry) /\ out \in Seq(SparseEntry)
         /\ i \in 1 .. Len(entries) + 1 /\ Len(entries) \in Nat \ {0} /\ Len(out) \in Nat
         /\ cur \in Index /\ cur \in Int /\ sum \in Int
         /\ \A j \in 1 .. Len(entries) : Expanded(pools, entries[j].index)
         /\ \A j, m \in 1 .. Len(entries) : j < m => entries[j].index <= entries[m].index
         /\ cur = entries[IF i = 1 THEN 1 ELSE i - 1].index
         /\ \A j \in 1 .. Len(out) : out[j].index < cur
         /\ \A j, m \in 1 .. Len(out) : j < m => out[j].index < out[m].index
         /\ \A j \in 1 .. Len(out) : Expanded(pools, out[j].index)
         /\ \A n \in Index :
              ValueAt(out, n) + (IF n = cur THEN sum ELSE 0) = ValueUpTo(entries, i - 1, n)
         /\ Expanded(pools, cur)
<1>1. entries \in Seq(SparseEntry) /\ out \in Seq(SparseEntry) /\ entries # << >>
      /\ i \in 1 .. Len(entries) + 1 /\ cur \in Index /\ sum \in Int
  BY DEF TypeInv, TypeOK, PhaseInv
<1>2. Len(entries) \in Nat \ {0} /\ Len(out) \in Nat
  BY <1>1, EmptySeq, LenProperties
<1>3. cur \in Int
  BY <1>1, ProductPositive DEF Index
<1>4. /\ \A j \in 1 .. Len(entries) : Expanded(pools, entries[j].index)
      /\ \A j, m \in 1 .. Len(entries) : j < m => entries[j].index <= entries[m].index
      /\ cur = entries[IF i = 1 THEN 1 ELSE i - 1].index
      /\ \A j \in 1 .. Len(out) : out[j].index < cur
      /\ \A j, m \in 1 .. Len(out) : j < m => out[j].index < out[m].index
      /\ \A j \in 1 .. Len(out) : Expanded(pools, out[j].index)
      /\ \A n \in Index :
           ValueAt(out, n) + (IF n = cur THEN sum ELSE 0) = ValueUpTo(entries, i - 1, n)
  BY DEF MergeInv
<1>5. Expanded(pools, cur)
  <2> PICK j : j = IF i = 1 THEN 1 ELSE i - 1
    OBVIOUS
  <2>1. j \in 1 .. Len(entries) /\ cur = entries[j].index
    BY <1>1, <1>2, <1>4
  <2> QED  BY <1>4, <2>1
<1> QED  BY <1>1, <1>2, <1>3, <1>4, <1>5

\* One more entry written.
LEMMA FlushAdds ==
  ASSUME TypeInv, MergeInv, pc = "merge", NEW more, more = Flush
  PROVE  /\ \A n \in Index : ValueAt(more, n) = ValueUpTo(entries, i - 1, n)
         /\ \A j \in 1 .. Len(more) : more[j].index <= cur /\ Expanded(pools, more[j].index)
         /\ \A j, m \in 1 .. Len(more) : j < m => more[j].index < more[m].index
<1> PICK e : e = [index |-> cur, value |-> sum]
  OBVIOUS
<1> PICK list : list = out
  OBVIOUS
<1>1. /\ list \in Seq(SparseEntry) /\ e \in SparseEntry /\ e.index = cur /\ e.value = sum
      /\ more = Append(list, e) /\ cur \in Int
  BY MergeFacts DEF Flush, SparseEntry
<1>2. /\ Len(more) = Len(list) + 1 /\ more[Len(list) + 1] = e /\ Len(list) \in Nat
      /\ \A j \in 1 .. Len(list) : more[j] = list[j]
  BY <1>1, AppendProperties, LenProperties
<1>3. /\ \A j \in 1 .. Len(list) : list[j].index < cur /\ Expanded(pools, list[j].index)
      /\ \A j, m \in 1 .. Len(list) : j < m => list[j].index < list[m].index
      /\ Expanded(pools, cur)
  BY MergeFacts
<1>4. \A j \in 1 .. Len(list) : list[j].index \in Int
  BY <1>1, EntryFields
<1>5. ASSUME NEW j \in 1 .. Len(more)
      PROVE  more[j].index <= cur /\ Expanded(pools, more[j].index)
  <2>1. CASE j \in 1 .. Len(list)
    <3>1. more[j] = list[j]
      BY <1>2, <2>1
    <3> PICK a : a = list[j].index
      OBVIOUS
    <3>2. a < cur /\ a \in Int /\ Expanded(pools, a)
      BY <1>3, <1>4, <2>1
    <3> QED  BY <1>1, <3>1, <3>2
  <2>2. CASE j = Len(list) + 1
    BY <1>1, <1>2, <1>3, <2>2
  <2> QED  BY <1>2, <2>1, <2>2
<1>6. ASSUME NEW j \in 1 .. Len(more), NEW m \in 1 .. Len(more), j < m
      PROVE  more[j].index < more[m].index
  <2>1. j \in 1 .. Len(list)
    BY <1>2, <1>6
  <2>2. CASE m \in 1 .. Len(list)
    BY <1>2, <1>3, <1>6, <2>1, <2>2
  <2>3. CASE m = Len(list) + 1
    BY <1>1, <1>2, <1>3, <2>1, <2>3
  <2> QED  BY <1>2, <2>2, <2>3
<1>7. ASSUME NEW n \in Index PROVE ValueAt(more, n) = ValueUpTo(entries, i - 1, n)
  <2>1. ValueAt(more, n) = ValueAt(list, n) + IF e.index = n THEN e.value ELSE 0
    BY <1>1, ValueAppend
  <2>2. ValueAt(out, n) + (IF n = cur THEN sum ELSE 0) = ValueUpTo(entries, i - 1, n)
    BY MergeFacts
  <2> QED  BY <1>1, <2>1, <2>2
<1> QED  BY <1>5, <1>6, <1>7

\* One more entry is added to the current index, or begins the next.
LEMMA MergeMerges == TypeInv /\ MergeInv /\ Merge => MergeInv'
<1> SUFFICES ASSUME TypeInv, MergeInv, Merge PROVE MergeInv'
  OBVIOUS
<1>1. /\ pc = "merge" /\ i <= Len(entries) /\ i' = i + 1
      /\ UNCHANGED <<pools, pc, entries, form>>
      /\ IF entries[i].index = cur
         THEN sum' = sum + entries[i].value /\ UNCHANGED <<cur, out>>
         ELSE out' = Flush /\ cur' = entries[i].index /\ sum' = entries[i].value
  BY DEF Merge, decodeVars
<1>2. /\ entries \in Seq(SparseEntry) /\ i \in 1 .. Len(entries) /\ Len(entries) \in Nat
      /\ i - 1 \in 0 .. Len(entries) /\ i - 1 < Len(entries) /\ (i - 1) + 1 = i
      /\ cur \in Int /\ sum \in Int
  BY <1>1, MergeFacts
<1>3. entries[i].index \in Int /\ entries[i].value \in Int
  BY <1>2, EntryFields
<1>4. ASSUME NEW n
      PROVE  ValueUpTo(entries, i, n) =
               ValueUpTo(entries, i - 1, n) + IF entries[i].index = n THEN entries[i].value ELSE 0
  <2> PICK list, m : list = entries /\ m = i - 1
    OBVIOUS
  <2>1. list \in Seq(SparseEntry) /\ m \in 0 .. Len(list) /\ m < Len(list) /\ m + 1 = i
    BY <1>2
  <2>2. ValueUpTo(list, m + 1, n) =
          ValueUpTo(list, m, n) + IF list[m + 1].index = n THEN list[m + 1].value ELSE 0
    BY <2>1, ValueUpToNext
  <2> QED  BY <2>1, <2>2
<1>5. i' - 1 = i /\ cur' = entries[i].index
  BY <1>1, <1>2
<1>6. cur' = entries'[IF i' = 1 THEN 1 ELSE i' - 1].index
  BY <1>1, <1>2, <1>5
<1>7. CASE entries[i].index = cur
  <2>1. sum' = sum + entries[i].value /\ cur' = cur /\ out' = out
    BY <1>1, <1>7
  <2>2. ASSUME NEW n \in Index
        PROVE  ValueAt(out', n) + (IF n = cur' THEN sum' ELSE 0) = ValueUpTo(entries', i' - 1, n)
    <3> PICK a, b, v : a = ValueAt(out, n) /\ b = ValueUpTo(entries, i - 1, n) /\ v = entries[i].value
      OBVIOUS
    <3>1. a \in Int /\ v \in Int
      <4>1. out \in Seq(SparseEntry)
        BY <1>1, MergeFacts
      <4>2. [index |-> n, value |-> 0] \in SparseEntry
        BY DEF SparseEntry
      <4> QED  BY <1>3, <4>1, <4>2, ValueAppend
    <3>2. a + (IF n = cur THEN sum ELSE 0) = b
      BY <1>1, MergeFacts
    <3>3. ValueUpTo(entries, i, n) = b + IF cur = n THEN v ELSE 0
      BY <1>4, <1>7
    <3>4. a + (IF n = cur THEN sum + v ELSE 0) = ValueUpTo(entries, i, n)
      BY <1>2, <3>1, <3>2, <3>3
    <3> QED  BY <1>1, <1>5, <2>1, <3>4
  <2> QED  BY <1>1, <1>6, <2>1, <2>2, MergeFacts DEF MergeInv
<1>8. CASE entries[i].index # cur
  <2>1. out' = Flush /\ sum' = entries[i].value
    BY <1>1, <1>8
  <2> PICK more : more = Flush
    OBVIOUS
  <2>2. /\ \A n \in Index : ValueAt(more, n) = ValueUpTo(entries, i - 1, n)
        /\ \A j \in 1 .. Len(more) : more[j].index <= cur /\ Expanded(pools, more[j].index)
        /\ \A j, m \in 1 .. Len(more) : j < m => more[j].index < more[m].index
    BY <1>1, FlushAdds
  <2>3. cur < entries[i].index
    <3>1. i # 1 /\ i - 1 \in 1 .. Len(entries) /\ i - 1 < i
      BY <1>1, <1>2, <1>8, MergeFacts
    <3>2. cur = entries[i - 1].index
      BY <1>1, <3>1, MergeFacts
    <3>3. entries[i - 1].index <= entries[i].index
      BY <1>1, <1>2, <3>1, MergeFacts
    <3> QED  BY <1>2, <1>3, <1>8, <3>2, <3>3
  <2>4. \A j \in 1 .. Len(more) : more[j].index \in Int
    <3>1. more \in Seq(SparseEntry)
      <4>1. out \in Seq(SparseEntry) /\ [index |-> cur, value |-> sum] \in SparseEntry
        BY <1>1, MergeFacts DEF SparseEntry
      <4> QED  BY <4>1 DEF Flush
    <3> QED  BY <3>1, EntryFields
  <2>5. \A j \in 1 .. Len(more) : more[j].index < cur'
    BY <1>2, <1>3, <1>5, <2>2, <2>3, <2>4
  <2>6. ASSUME NEW n \in Index
        PROVE  ValueAt(more, n) + (IF n = cur' THEN sum' ELSE 0) = ValueUpTo(entries', i' - 1, n)
    <3>1. ValueAt(more, n) = ValueUpTo(entries, i - 1, n)
      BY <2>2
    <3> QED  BY <1>1, <1>4, <1>5, <2>1, <3>1
  <2> QED  BY <1>1, <1>6, <2>1, <2>2, <2>5, <2>6, MergeFacts DEF MergeInv
<1> QED  BY <1>7, <1>8

\* The last index is written out, and everything is merged.
LEMMA FlushLastMerges == TypeInv /\ MergeInv /\ FlushLast => MergeInv'
<1> SUFFICES ASSUME TypeInv, MergeInv, FlushLast PROVE MergeInv'
  OBVIOUS
<1>1. /\ pc = "merge" /\ i > Len(entries) /\ out' = Flush /\ pc' = "done"
      /\ UNCHANGED <<pools, entries, form>>
  BY DEF FlushLast, decodeVars
<1> PICK more : more = Flush
  OBVIOUS
<1>2. /\ \A n \in Index : ValueAt(more, n) = ValueUpTo(entries, i - 1, n)
      /\ \A j \in 1 .. Len(more) : Expanded(pools, more[j].index)
      /\ \A j, m \in 1 .. Len(more) : j < m => more[j].index < more[m].index
  BY <1>1, FlushAdds
<1>3. i - 1 = Len(entries) /\ entries \in Seq(SparseEntry) /\ Len(entries) \in 0 .. Len(entries)
  BY <1>1, MergeFacts
<1>4. \A n : ValueUpTo(entries, Len(entries), n) = ValueAt(entries, n)
  BY <1>3, ValueUpToNext
<1>5. \A n \in Index : ValueAt(more, n) = ValueAt(entries, n)
  BY <1>2, <1>3, <1>4
<1> QED  BY <1>1, <1>2, <1>5, MergeFacts DEF MergeInv

\* Every step keeps the merge invariant.
LEMMA NextMerge == TypeInv /\ TypeInv' /\ MergeInv /\ [Next]_vars => MergeInv'
<1> SUFFICES ASSUME TypeInv, TypeInv', MergeInv, [Next]_vars PROVE MergeInv'
  OBVIOUS
<1>1. CASE Decode \/ Call
  <2>1. /\ entries = << >> /\ out = << >> /\ entries' = entries /\ out' = out
        /\ pc' # "merge" /\ pc' # "done"
    BY <1>1 DEF Decode, Call, TypeInv, PhaseInv, mergeVars
  <2> QED  BY <2>1 DEF MergeInv
<1>2. CASE ScatterSelected
  <2>1. Passing /\ Passing' /\ UNCHANGED <<pools, out>>
    BY <1>2 DEF ScatterSelected, Passing, decodeVars, mergeVars
  <2>2. t \in Step /\ at \in BeamId /\ at \in Slot
    <3>1. at \in BeamId /\ at \in Slot
      BY <1>2, DimensionsAssumption, PAssumption
      DEF ScatterSelected, TypeInv, TypeOK, PhaseInv, BeamId, Slot
    <3> QED  BY <2>1, <3>1, PassFacts
  <2> PICK draw : draw = next[at] + SelectedGradient(t, at)
    OBVIOUS
  <2>3. draw \in Int
    <3>1. next[at] \in Int
      BY <2>1, <2>2, PassFacts
    <3>2. SelectedGradient(t, at) \in Int
      BY <2>1, <2>2, PassFacts, SlotGradients
    <3> QED  BY <3>1, <3>2
  <2>4. Scatter(pools[t + 1][at], draw)
    BY <1>2 DEF ScatterSelected
  <2> QED  BY <2>1, <2>2, <2>3, <2>4, ScatterMerges
<1>3. CASE ScatterRelaxed
  <2>1. Passing /\ Passing' /\ UNCHANGED <<pools, out>>
    BY <1>3 DEF ScatterRelaxed, Passing, decodeVars, mergeVars
  <2>2. t \in Step /\ at \in Slot
    BY <2>1, PassFacts, PAssumption DEF TypeInv, TypeOK, Slot
  <2>3. RelaxedGradient(t, at) \in Int
    BY <2>1, <2>2, PassFacts, SlotGradients
  <2>4. Scatter(pools[t + 1][at], RelaxedGradient(t, at))
    BY <1>3 DEF ScatterRelaxed
  <2> QED  BY <2>1, <2>2, <2>3, <2>4, ScatterMerges
<1>4. CASE StepBack
  <2>1. /\ UNCHANGED <<pools, form, entries, out>> /\ out = << >> /\ pc' # "merge"
        /\ pc' = "done" /\ form = "sparse" => entries = << >>
    BY <1>4 DEF StepBack, AfterSteps, decodeVars, mergeVars, TypeInv, PhaseInv
  <2>2. \A j \in 1 .. Len(entries) : Expanded(pools, entries[j].index)
    BY DEF MergeInv
  <2>3. Len(out') = 0
    BY <2>1
  <2>4. pc' = "done" /\ form' = "sparse" => \A n \in Index : ValueAt(out', n) = ValueAt(entries', n)
    BY <2>1
  <2> QED  BY <2>1, <2>2, <2>3, <2>4 DEF MergeInv
<1>5. CASE Sort
  BY <1>5, SortMerges
<1>6. CASE Merge
  BY <1>6, MergeMerges
<1>7. CASE FlushLast
  BY <1>7, FlushLastMerges
<1>8. CASE UNCHANGED vars
  BY <1>8 DEF MergeInv, vars, decodeVars, mergeVars
<1> QED  BY <1>1, <1>2, <1>3, <1>4, <1>5, <1>6, <1>7, <1>8 DEF Next

\* The merge invariant holds in every reachable state.
LEMMA MergeInvariant == Spec => []MergeInv
<1>1. Init => MergeInv
  BY DEF Init, MergeInv
<1> QED  BY <1>1, NextMerge, TypeInvariant, PTL DEF Spec
-----------------------------------------------------------------------------
(***************************************************************************)
(* What the passes return, and that they lose nothing.                     *)
(***************************************************************************)
LEMMA AtTheEnd ==
  ASSUME TypeInv, FlowInv, MergeInv, pc = "done"
  PROVE  /\ \A n \in Index : Gradient[n] = PathGradient(n)
         /\ \A k \in BeamId : next[k] = InitialGradient(k)
         /\ form = "sparse" => Canonical(out)
<1> PICK S : S = Here
  OBVIOUS
<1>1. /\ up \in Upstream /\ S = SourcesIn(pools, up) /\ S = Sources /\ t = 0
      /\ form = "dense" \/ form = "sparse"
      /\ dense \in [Index -> Int]
  BY SourcesAre DEF TypeInv, TypeOK, PhaseInv, Here
<1>2. Arrived = S
  <2> PICK list, u, n, p : list = pools /\ u = up /\ n = at /\ p = pc
    OBVIOUS
  <2>1. p \in {"sort", "merge", "done"} /\ u \in Upstream /\ S = SourcesIn(list, u)
    BY <1>1
  <2>2. ArrivedAt(list, S, p, 0, n) = S
    BY <2>1, AllArrived
  <2> QED  BY <1>1, <2>2 DEF Arrived
<1>3. ASSUME NEW n \in Index PROVE Gradient[n] = PathGradient(n)
  <2> PICK X : X = Spread(pools, S, 0, S, n)
    OBVIOUS
  <2>1. Returned(n) = Total(Grads(S), X)
    BY <1>1, <1>2 DEF FlowInv, Finishing
  <2>2. Gradient[n] = Returned(n)
    <3>1. CASE form = "dense"
      BY <3>1 DEF Gradient, Returned
    <3>2. CASE form = "sparse"
      <4>1. Returned(n) = ValueAt(entries, n)
        BY <3>2 DEF Returned
      <4>2. Gradient[n] = ValueAt(out, n)
        BY <3>2 DEF Gradient
      <4>3. ValueAt(out, n) = ValueAt(entries, n)
        BY <3>2 DEF MergeInv
      <4> QED  BY <4>1, <4>2, <4>3
    <3> QED  BY <1>1, <3>1, <3>2
  <2>3. PathGradient(n) = Contribution(X)
    <3> DEFINE Y == {x \in Sources :
                       \E s \in 0 .. x.step :
                         LET c == PathTo(x.step, x.slot)[s]
                         IN  c.fromLogprob = 1 /\ n = (s * K + c.parent) * V + c.token}
    <3>1. Y \subseteq X
      <4> SUFFICES ASSUME NEW x \in Y PROVE x \in X
        OBVIOUS
      <4>1. PICK s \in 0 .. x.step :
              LET c == PathTo(x.step, x.slot)[s]
              IN  c.fromLogprob = 1 /\ n = (s * K + c.parent) * V + c.token
        OBVIOUS
      <4>2. x \in S /\ Passes(pools, x, s, n)
        BY <1>1, <4>1, PathToIs DEF Passes
      <4>3. s > 0 \/ (s = 0 /\ x \in S)
        BY <4>2
      <4> QED  BY <4>2, <4>3 DEF Spread
    <3>2. X \subseteq Y
      <4> SUFFICES ASSUME NEW x \in X PROVE x \in Y
        OBVIOUS
      <4>1. x \in S /\ \E s \in 0 .. x.step : Passes(pools, x, s, n)
        BY DEF Spread
      <4>2. PICK s \in 0 .. x.step : Passes(pools, x, s, n)
        BY <4>1
      <4>3. LET c == PathTo(x.step, x.slot)[s]
            IN  c.fromLogprob = 1 /\ n = (s * K + c.parent) * V + c.token
        BY <4>2, PathToIs DEF Passes
      <4> QED  BY <1>1, <4>1, <4>3
    <3>3. X = Y
      BY <3>1, <3>2
    <3>4. PathGradient(n) = Contribution(Y)
      BY DEF PathGradient
    <3> HIDE DEF Y
    <3> QED  BY <3>3, <3>4
  <2>4. Contribution(X) = Total(Grads(S), X)
    <3>1. X \in SUBSET S
      BY DEF Spread
    <3> QED  BY <1>1, <3>1, ContributionIs
  <2> QED  BY <2>1, <2>2, <2>3, <2>4
<1>4. ASSUME NEW k \in BeamId PROVE next[k] = InitialGradient(k)
  <2> PICK X : X = CameTo(pools, S, 0, k)
    OBVIOUS
  <2>1. next[k] = Total(Grads(S), X)
    BY DEF FlowInv, Finishing
  <2>2. X = {x \in Sources : PathTo(x.step, x.slot)[0].parent = k}
    BY <1>1, PathToIs DEF CameTo
  <2>3. InitialGradient(k) = Contribution(X)
    BY <2>2 DEF InitialGradient
  <2>4. Contribution(X) = Total(Grads(S), X)
    <3>1. X \in SUBSET S
      BY DEF CameTo
    <3> QED  BY <1>1, <3>1, ContributionIs
  <2> QED  BY <2>1, <2>3, <2>4
<1>5. Canonical(out)
  BY DEF MergeInv, Canonical, Expanded
<1> QED  BY <1>3, <1>4, <1>5

\* row[k] is what the sources of A have brought to raw score k by step r, for the
\* scores of I; X is all of those sources.
WaitsAt(list, u, S, A, r, I, row, X) ==
  /\ u \in Upstream /\ S = SourcesIn(list, u)
  /\ IsFiniteSet(I) /\ A \in SUBSET S
  /\ \A k \in I : row[k] = Total(Grads(S), CameTo(list, A, r, k))
  /\ X = {x \in A : PathIn(list, x.step, x.slot)[r].parent \in I}

\* What waits in a row of gradients, from the sources that came to each of its beams.
LEMMA WaitingAt ==
  ASSUME NEW list, NEW u, NEW S, NEW A, NEW r, NEW I, NEW row, NEW X,
         WaitsAt(list, u, S, A, r, I, row, X)
  PROVE  Total(row, I) = Total(Grads(S), X)
<1> USE DEF WaitsAt
<1> PICK g : g = Grads(S)
  OBVIOUS
<1> PICK B : B = [k \in I |-> CameTo(list, A, r, k)]
  OBVIOUS
<1>1. \A k \in I : B[k] = {x \in A : PathIn(list, x.step, x.slot)[r].parent = k}
                   /\ row[k] = Total(g, B[k]) /\ B[k] \in SUBSET S
  BY DEF CameTo
<1>2. \A k \in I : IsFiniteSet(B[k]) /\ \A x \in B[k] : g[x] \in Int
  <2>1. IsFiniteSet(S) /\ \A x \in S : g[x] \in Int
    BY SourceFields
  <2> QED  BY <1>1, <2>1, FS_Subset
<1>3. \A k, l \in I : k # l => B[k] \cap B[l] = {}
  BY <1>1
<1>4. Total(g, UNION {B[k] : k \in I}) = Total([k \in I |-> Total(g, B[k])], I)
  BY <1>2, <1>3, TotalFamily
<1>5. UNION {B[k] : k \in I} = X
  BY <1>1
<1>6. Total([k \in I |-> Total(g, B[k])], I) = Total(row, I)
  <2> PICK e : e = [k \in I |-> Total(g, B[k])]
    OBVIOUS
  <2>1. \A k \in I : e[k] = row[k]
    BY <1>1
  <2>2. Total(e, I) = Total(row, I)
    BY <2>1, TotalAgree
  <2> QED  BY <2>2
<1> QED  BY <1>4, <1>5, <1>6

\* What the sources gave and has not left the beams is still in prev and next.
LEMMA NothingLost == TypeInv /\ FlowInv => GradientConserved
<1> SUFFICES ASSUME TypeInv, FlowInv, Passing
             PROVE  Contribution({x \in Sources : Scattered(x) /\ pools[x.step + 1][x.slot].parent >= 0})
                      = Sum(prev, BeamId) + IF pc = "selected" THEN Sum(next, at .. K - 1) ELSE 0
  BY DEF GradientConserved, Passing
<1> PICK S : S = Here
  OBVIOUS
<1> PICK g : g = Grads(S)
  OBVIOUS
<1> PICK list, u, s : list = pools /\ u = up /\ s = t
  OBVIOUS
<1> PICK A : A = Arrived
  OBVIOUS
<1> PICK L : L = {x \in Sources : Scattered(x) /\ pools[x.step + 1][x.slot].parent >= 0}
  OBVIOUS
<1>1. /\ PoolsOK(list) /\ u \in Upstream /\ S = SourcesIn(list, u) /\ S = Sources /\ s \in Step
      /\ s \in Nat /\ at \in Nat /\ A \in SUBSET S /\ (pc = "selected" => at < K)
  BY PassFacts, SourcesAre DEF Here, Arrived, ArrivedAt, TypeInv, PhaseInv
<1>2. \A x \in S : x.step \in Step /\ x.step \in Nat /\ x.slot \in Slot /\ x.slot \in Nat
                   /\ (x.kind = "selected" \/ x.kind = "relaxed")
  <2>1. \A r \in Step : r \in Nat
    BY DimensionsAssumption DEF Step
  <2>2. \A p \in Slot : p \in Nat
    BY PAssumption DEF Slot
  <2>3. \A x \in S : x.step \in Step /\ x.slot \in Slot /\ x.kind \in {"selected", "relaxed"}
    BY <1>1, SourceFields
  <2> QED  BY <2>1, <2>2, <2>3
<1>3. ASSUME NEW x \in S, NEW r \in 0 .. x.step
      PROVE  /\ PathIn(list, x.step, x.slot)[r].parent \in BeamId <=> list[x.step + 1][x.slot].parent >= 0
             /\ PathIn(list, x.step, x.slot)[r].parent \in -1 .. K - 1
  <2>1. x.step \in 0 .. x.step
    BY <1>2
  <2>2. /\ PathIn(list, x.step, x.slot)[x.step] = Placeholder
           \/ PathIn(list, x.step, x.slot)[x.step].parent \in BeamId
        /\ PathIn(list, x.step, x.slot)[x.step] = list[x.step + 1][x.slot]
    BY <1>1, <1>2, <2>1, PathSlots, PathSteps
  <2>3. list[x.step + 1][x.slot].parent >= 0 <=> list[x.step + 1][x.slot].parent \in BeamId
    BY <2>2, CandidateFields DEF BeamId
  <2>4. PathIn(list, x.step, x.slot)[r].parent \in BeamId <=> list[x.step + 1][x.slot].parent \in BeamId
    BY <1>1, <1>2, PathSlots
  <2>5. PathIn(list, x.step, x.slot)[r] = Placeholder \/ PathIn(list, x.step, x.slot)[r].parent \in BeamId
    BY <1>1, <1>2, PathSlots
  <2>6. PathIn(list, x.step, x.slot)[r].parent \in -1 .. K - 1
    BY <2>5, CandidateFields, DimensionsAssumption DEF BeamId
  <2> QED  BY <2>3, <2>4, <2>6
<1> PICK X : X = {x \in A : PathIn(list, x.step, x.slot)[s].parent \in BeamId}
  OBVIOUS
<1>4. Sum(prev, BeamId) = Total(g, X)
  <2>1. \A k \in BeamId : prev[k] = Total(Grads(S), CameTo(list, A, s, k))
    BY DEF FlowInv
  <2>2. IsFiniteSet(BeamId)
    BY DimensionsAssumption, FS_Interval DEF BeamId
  <2> PICK row : row = prev
    OBVIOUS
  <2>3. WaitsAt(list, u, S, A, s, BeamId, row, X)
    BY <1>1, <2>1, <2>2 DEF WaitsAt
  <2>4. Total(row, BeamId) = Total(Grads(S), X)
    BY <2>3, WaitingAt
  <2> QED  BY <2>4, SumIsTotal
<1>5. \A x \in A : s \in 0 .. x.step
  BY <1>1, <1>2 DEF Arrived, ArrivedAt
<1>6. X = {x \in A : list[x.step + 1][x.slot].parent >= 0}
  BY <1>1, <1>3, <1>5
<1>7. Contribution(L) = Total(g, L) /\ Total(g, L) \in Int
  <2>1. L \in SUBSET S /\ u \in Upstream /\ S = SourcesIn(list, u)
    BY <1>1
  <2>2. Contribution(L) = Total(Grads(S), L)
    BY <2>1, ContributionIs, SMTT(20)
  <2>3. Total(Grads(S), L) \in Int
    BY <2>1, ContributionIs, SMTT(20)
  <2> QED  BY <2>2, <2>3
<1>8. ASSUME pc # "selected" PROVE Contribution(L) = Sum(prev, BeamId)
  <2>1. \A x \in S : Scattered(x) <=> x \in A
    BY <1>1, <1>2, <1>8 DEF Scattered, Arrived, ArrivedAt, Passing
  <2>2. L = X
    BY <1>1, <1>6, <2>1
  <2> QED  BY <1>4, <1>7, <2>2
<1>9. ASSUME pc = "selected"
      PROVE  Contribution(L) = Sum(prev, BeamId) + Sum(next, at .. K - 1)
  <2> PICK n : n = at
    OBVIOUS
  <2> PICK Y : Y = {x \in After(S, s) : PathIn(list, x.step, x.slot)[s + 1].parent \in n .. K - 1}
    OBVIOUS
  <2>1. Sum(next, at .. K - 1) = Total(g, Y)
    <3>1. n \in Nat /\ n < K /\ K \in Nat /\ \A k \in n .. K - 1 : k \in BeamId
      BY <1>1, <1>9, DimensionsAssumption DEF BeamId
    <3>2. \A k \in n .. K - 1 : next[k] = Total(Grads(S), CameTo(list, After(S, s), s + 1, k))
      BY <3>1 DEF FlowInv
    <3>3. IsFiniteSet(n .. K - 1) /\ After(S, s) \in SUBSET S
      BY <3>1, FS_Interval DEF After
    <3> PICK row, r, I, D : row = next /\ r = s + 1 /\ I = n .. K - 1 /\ D = After(S, s)
      OBVIOUS
    <3>4. WaitsAt(list, u, S, D, r, I, row, Y)
      BY <1>1, <3>2, <3>3 DEF WaitsAt
    <3>5. Total(row, I) = Total(Grads(S), Y)
      BY <3>4, WaitingAt
    <3> QED  BY <3>5, SumIsTotal
  <2>2. ASSUME NEW x \in S PROVE x \in L <=> x \in X \/ x \in Y
    <3>0. x \in L <=> Scattered(x) /\ list[x.step + 1][x.slot].parent >= 0
      BY <1>1
    <3>1. CASE x.step > s
      <4> PICK q : q = PathIn(list, x.step, x.slot)[s + 1].parent
        OBVIOUS
      <4>1. s + 1 \in 0 .. x.step
        BY <1>1, <1>2, <3>1
      <4>2. /\ q \in BeamId <=> list[x.step + 1][x.slot].parent >= 0
            /\ q \in -1 .. K - 1
        BY <1>3, <4>1
      <4>3. x \in L <=> list[x.step + 1][x.slot].parent >= 0
        BY <3>0, <3>1 DEF Scattered
      <4>4. x \in Y <=> q \in n .. K - 1
        BY <3>1 DEF After
      <4>5. x \in A <=> q < n
        <5>1. x.step # s
          BY <1>1, <1>2, <3>1
        <5> QED  BY <1>9, <3>1, <5>1 DEF Arrived, ArrivedAt
      <4>6. x \in X <=> q < n /\ q \in BeamId
        BY <1>6, <4>2, <4>5
      <4>7. q \in BeamId <=> (q < n /\ q \in BeamId) \/ q \in n .. K - 1
        BY <1>1, <1>9, <4>2, DimensionsAssumption DEF BeamId
      <4> QED  BY <4>2, <4>3, <4>4, <4>6, <4>7
    <3>2. CASE ~(x.step > s)
      <4>1. x \notin Y
        BY <3>2 DEF After
      <4>2. x \in A <=> Scattered(x)
        BY <1>9, <3>2 DEF Arrived, ArrivedAt, Scattered
      <4> QED  BY <1>6, <3>0, <4>1, <4>2
    <3> QED  BY <3>1, <3>2
  <2>3. L = X \cup Y
    <3>1. L \subseteq S /\ X \subseteq S /\ Y \subseteq S
      BY <1>1 DEF After
    <3> QED  BY <2>2, <3>1
  <2>4. X \cap Y = {}
    <3> SUFFICES ASSUME NEW x \in X, x \in Y PROVE FALSE
      OBVIOUS
    <3>1. x \in S /\ x.step > s /\ PathIn(list, x.step, x.slot)[s + 1].parent \in n .. K - 1
      BY DEF After
    <3>2. PathIn(list, x.step, x.slot)[s + 1].parent < n
      <4>1. x.step # s
        BY <1>1, <1>2, <3>1
      <4> QED  BY <1>9, <3>1, <4>1 DEF Arrived, ArrivedAt
    <3>3. K \in Nat /\ n \in Nat
      BY <1>1, DimensionsAssumption
    <3> QED  BY <3>1, <3>2, <3>3
  <2>5. Total(g, X \cup Y) = Total(g, X) + Total(g, Y)
    <3>1. IsFiniteSet(X) /\ IsFiniteSet(Y)
      <4>1. X \in SUBSET S /\ Y \in SUBSET S
        BY <1>1 DEF After
      <4> QED  BY <1>1, <4>1, ContributionIs
    <3>2. \A x \in X \cup Y : g[x] \in Int
      <4>1. X \cup Y \subseteq S
        BY <1>1 DEF After
      <4>2. \A x \in S : g[x] \in Int
        BY <1>1, SourceFields
      <4> QED  BY <4>1, <4>2
    <3> QED  BY <2>4, <3>1, <3>2, TotalUnion
  <2> QED  BY <1>4, <1>7, <2>1, <2>3, <2>5
<1>10. Contribution(L) \in Int
  BY <1>7
<1>11. Contribution(L) = Sum(prev, BeamId) + IF pc = "selected" THEN Sum(next, at .. K - 1) ELSE 0
  BY <1>8, <1>9, <1>10
<1> QED  BY <1>11

\* No scatter leaves the arrays of the gradient: every parent is a beam, every
\* token one of the vocabulary, and the flat index of step, beam and token one
\* of the dense tensor, in both forms of the pass.
THEOREM BackwardTypeOK == Spec => []TypeOK
<1>1. TypeInv => TypeOK
  BY DEF TypeInv
<1> QED  BY <1>1, TypeInvariant, PTL

\* What the live slots have put into a pass waits at the raw scores, at every
\* point of it: nothing is lost in a dead beam or a carried one.
THEOREM BackwardGradientConserved == Spec => []GradientConserved
BY TypeInvariant, FlowInvariant, NothingLost, PTL

\* Both forms return each slot's gradient, once, at every log-probability on its
\* path and at the initial score the path starts from; the sparse one is in order,
\* names each log-probability at most once and only such as was extended by.
THEOREM BackwardGradientFollowsPaths == Spec => []GradientFollowsPaths
<1>1. TypeInv /\ FlowInv /\ MergeInv => GradientFollowsPaths
  BY AtTheEnd DEF GradientFollowsPaths
<1> QED  BY <1>1, TypeInvariant, FlowInvariant, MergeInvariant, PTL
=============================================================================
