--------------------------- MODULE BeamDecodeProofs ---------------------------
(***************************************************************************)
(* From the order of the candidates to the hypotheses of a decode.         *)
(*                                                                         *)
(* insert_topk's loops, for every buffer size and every set of candidates: *)
(* between calls the buffer holds the best P offered, and the loops        *)
(* implement the one-step insertion of TopKBuffer.                         *)
(*                                                                         *)
(* decode_constrained for every beam size, vocabulary, number of steps,    *)
(* penalty, constraint and kernel: its state keeps its types, and the      *)
(* hypotheses are distinct, as long as their beams say, within the         *)
(* constraints, and left alone once finished; it implements beam search    *)
(* when its scan is exact, what it returns passes the library's own order  *)
(* check without a length penalty, the walk along the parents rebuilds the *)
(* hypotheses, and the soft weights of a pool add up to the beam size.     *)
(***************************************************************************)
EXTENDS SoftWeights, TopKInsert, SumProofs, SequenceTheorems, TLAPS

(***************************************************************************)
(* The order of the candidates, and the bounded buffer.                    *)
(***************************************************************************)

\* A candidate has integer fields.
LEMMA CandidateFields ==
  ASSUME NEW x \in Candidate
  PROVE  /\ x.score \in Int /\ x.raw \in Int /\ x.parent \in Int
         /\ x.token \in Int /\ x.length \in Int /\ x.fromLogprob \in Int
         /\ x.score \in Score /\ x.raw \in Score /\ x.length \in Nat
         /\ x.fromLogprob \in {0, 1}
BY DEF Candidate, Score

\* The placeholder every slot is reset to is a candidate.
LEMMA PlaceholderType == Placeholder \in Candidate
BY InfAssumption DEF Placeholder, Candidate, Score

\* No candidate beats itself, and two candidates never beat each other.
LEMMA BetterAsymmetric ==
  ASSUME NEW x \in Candidate, NEW y \in Candidate, Better(x, y)
  PROVE  ~Better(y, x)
BY CandidateFields DEF Better

\* The order candidate_better computes is transitive.
LEMMA BetterTransitive ==
  ASSUME NEW x \in Candidate, NEW y \in Candidate, NEW z \in Candidate,
         Better(x, y), Better(y, z)
  PROVE  Better(x, z)
BY CandidateFields DEF Better

\* The order is total: only equal candidates leave each other unbeaten.
LEMMA BetterTotal ==
  ASSUME NEW x \in Candidate, NEW y \in Candidate, ~Better(x, y), ~Better(y, x)
  PROVE  x = y
<1>1. /\ x.score = y.score /\ x.raw = y.raw /\ x.parent = y.parent
      /\ x.token = y.token /\ x.length = y.length
      /\ x.fromLogprob = y.fromLogprob
  BY CandidateFields DEF Better
<1>2. QED
  BY <1>1 DEF Candidate

\* What beats something beats whatever that does not lose to.
LEMMA BetterWeakTransitive ==
  ASSUME NEW x \in Candidate, NEW y \in Candidate, NEW z \in Candidate,
         Better(x, y), ~Better(z, y)
  PROVE  Better(x, z)
<1>1. CASE Better(y, z)
  BY <1>1, BetterTransitive
<1>2. CASE ~Better(y, z)
  BY <1>2, BetterTotal
<1>3. QED
  BY <1>1, <1>2

-----------------------------------------------------------------------------
\* The empty buffer holds the best of no candidate.
LEMMA EmptyHoldsBest ==
  /\ EmptyBuffer \in Buffer
  /\ HoldsBest(EmptyBuffer, P, {})
<1>1. EmptyBuffer \in Buffer
  BY PlaceholderType DEF EmptyBuffer, Buffer
<1>2. ~Better(Placeholder, Placeholder)
  BY PlaceholderType, BetterAsymmetric
<1>3. HoldsBest(EmptyBuffer, P, {})
  BY <1>2, PAssumption
     DEF HoldsBest, Sorted, OnlyFrom, NoDuplicate, NothingBetterLeftOut,
         EmptyBuffer, Slot
<1>4. QED
  BY <1>1, <1>3

\* The candidate inserted takes the first slot it beats.
LEMMA FirstBeatenExists ==
  ASSUME NEW buf \in Buffer, NEW cand \in Candidate, NEW pos \in Slot,
         Better(cand, buf[pos]), \A j \in 0 .. pos - 1 : ~Better(cand, buf[j])
  PROVE  FirstBeaten(buf, cand) = pos
<1> DEFINE First(i) == Better(cand, buf[i]) /\ \A j \in 0 .. i - 1 : ~Better(cand, buf[j])
<1>1. \A i \in Slot : First(i) => i = pos
  BY PAssumption DEF Slot
<1>2. First(pos)
  OBVIOUS
<1>3. QED
  BY <1>1, <1>2 DEF FirstBeaten

\* A candidate that beats the last slot has a first slot it beats.
LEMMA SomeFirstBeaten ==
  ASSUME NEW buf \in Buffer, NEW cand \in Candidate, Better(cand, buf[P - 1])
  PROVE  /\ FirstBeaten(buf, cand) \in Slot
         /\ Better(cand, buf[FirstBeaten(buf, cand)])
         /\ \A j \in 0 .. FirstBeaten(buf, cand) - 1 : ~Better(cand, buf[j])
<1> DEFINE Beaten == {i \in Slot : Better(cand, buf[i])}
<1>1. Beaten \subseteq Nat /\ P - 1 \in Beaten
  BY PAssumption DEF Slot
<1>2. \E first \in Beaten : \A other \in Beaten : ~(<<other, first>> \in OpToRel(<, Nat))
  <2> HIDE DEF Beaten
  <2>1. QED
    BY <1>1, NatLessThanWellFounded, WFMin, Zenon
<1>3. PICK first \in Beaten : \A other \in Beaten : ~(<<other, first>> \in OpToRel(<, Nat))
  BY <1>2
<1>4. \A other \in Beaten : ~(other < first)
  BY <1>1, <1>3 DEF OpToRel
<1>5. first \in Slot /\ Better(cand, buf[first]) /\ \A j \in 0 .. first - 1 : ~Better(cand, buf[j])
  BY <1>4, PAssumption DEF Slot
<1>6. QED
  BY <1>5, FirstBeatenExists

-----------------------------------------------------------------------------
\* Shifting a candidate into the first slot it beats keeps the best P.
LEMMA ShiftKeepsBest ==
  ASSUME NEW buf \in Buffer, NEW S, S \subseteq Candidate, HoldsBest(buf, P, S),
         NEW cand \in Candidate, cand \notin S, NEW pos \in Slot,
         Better(cand, buf[pos]), \A j \in 0 .. pos - 1 : ~Better(cand, buf[j])
  PROVE  /\ ShiftIn(buf, cand, pos) \in Buffer
         /\ HoldsBest(ShiftIn(buf, cand, pos), P, S \cup {cand})
<1> DEFINE new == ShiftIn(buf, cand, pos)
<1>0. /\ \A k \in Slot : buf[k] \in Candidate
      /\ \A k \in Slot : new[k] = IF k < pos THEN buf[k] ELSE IF k = pos THEN cand ELSE buf[k - 1]
      /\ Slot = 0 .. P - 1 /\ P - 1 \in Slot /\ P \in Nat \ {0} /\ pos \in Int
  BY PAssumption DEF Buffer, Slot, ShiftIn
<1>1. new \in Buffer
  BY <1>0 DEF Buffer, Slot, ShiftIn
<1>2. Sorted(new, P)
  <2> SUFFICES ASSUME NEW k \in Slot, NEW l \in Slot, k < l
               PROVE  ~Better(new[l], new[k])
    BY <1>0 DEF Sorted
  <2>0. \A m, n \in Slot : m < n => ~Better(buf[n], buf[m])
    BY <1>0 DEF HoldsBest, Sorted
  <2>1. CASE l < pos
    BY <2>0, <2>1, <1>0
  <2>2. CASE l = pos
    BY <2>2, <1>0
  <2>3. CASE k < pos /\ pos < l
    <3>1. new[l] = buf[l - 1] /\ new[k] = buf[k] /\ l - 1 \in Slot /\ k < l - 1
      BY <2>3, <1>0
    <3>2. QED
      BY <3>1, <2>0
  <2>4. CASE k = pos
    <3>1. new[l] = buf[l - 1] /\ new[k] = cand /\ l - 1 \in Slot /\ pos <= l - 1
      BY <2>4, <1>0
    <3>2. ~Better(buf[l - 1], buf[pos])
      BY <3>1, <2>0, <1>0, BetterAsymmetric
    <3>3. Better(cand, buf[l - 1])
      BY <3>1, <3>2, <1>0, BetterWeakTransitive, BetterTotal
    <3>4. QED
      BY <3>1, <3>3, <1>0, BetterAsymmetric
  <2>5. CASE pos < k
    <3>1. new[l] = buf[l - 1] /\ new[k] = buf[k - 1] /\ l - 1 \in Slot /\ k - 1 \in Slot
      BY <2>5, <1>0
    <3>2. QED
      BY <3>1, <2>0, <1>0
  <2>6. QED
    BY <2>1, <2>2, <2>3, <2>4, <2>5, <1>0
<1>3. OnlyFrom(new, P, S \cup {cand})
  BY <1>0 DEF OnlyFrom, HoldsBest
<1>4. NoDuplicate(new, P)
  <2> SUFFICES ASSUME NEW k \in Slot, NEW l \in Slot, new[k] = new[l], k < l
               PROVE  new[k] = Placeholder
    BY <1>0 DEF NoDuplicate
  <2>0. /\ \A m, n \in Slot : buf[m] = buf[n] => m = n \/ buf[m] = Placeholder
        /\ \A m \in Slot : buf[m] = cand => cand = Placeholder
    BY <1>0 DEF HoldsBest, NoDuplicate, OnlyFrom
  <2>1. CASE l < pos
    BY <2>1, <2>0, <1>0
  <2>2. CASE l = pos
    BY <2>2, <2>0, <1>0
  <2>3. CASE pos < l
    <3>1. new[l] = buf[l - 1] /\ l - 1 \in Slot
      BY <2>3, <1>0
    <3>2. CASE k < pos
      BY <3>1, <3>2, <2>0, <2>3, <1>0
    <3>3. CASE k = pos
      BY <3>1, <3>3, <2>0, <1>0
    <3>4. CASE pos < k
      <4>1. new[k] = buf[k - 1] /\ k - 1 \in Slot
        BY <3>4, <1>0
      <4>2. buf[k - 1] = buf[l - 1] /\ k - 1 # l - 1
        <5>1. k - 1 # l - 1
          BY <1>0
        <5>2. QED
          BY <5>1, <4>1, <3>1
      <4>3. QED
        BY <4>1, <4>2, <3>1, <2>0
    <3>5. QED
      BY <3>2, <3>3, <3>4, <1>0
  <2>4. QED
    BY <2>1, <2>2, <2>3, <1>0
<1>5. NothingBetterLeftOut(new, P, S \cup {cand})
  <2> SUFFICES ASSUME NEW z \in S \cup {cand}, Better(z, new[P - 1])
               PROVE  \E k \in Slot : new[k] = z
    BY <1>0 DEF NothingBetterLeftOut
  <2>1. CASE z = cand
    BY <2>1, <1>0
  <2>2. CASE z # cand
    <3>0. z \in S /\ z \in Candidate
      BY <2>2
    <3>1. ~Better(buf[P - 1], new[P - 1])
      <4>1. CASE pos = P - 1
        BY <4>1, <1>0, BetterAsymmetric
      <4>2. CASE pos < P - 1
        <5>1. new[P - 1] = buf[P - 2] /\ P - 2 \in Slot
          BY <4>2, <1>0
        <5>2. QED
          BY <5>1, <1>0 DEF HoldsBest, Sorted
      <4>3. QED
        BY <4>1, <4>2, <1>0
    <3>2. Better(z, buf[P - 1])
      BY <3>0, <3>1, <1>0, <1>1, BetterWeakTransitive, BetterTotal DEF Buffer
    <3>3. PICK k \in Slot : buf[k] = z
      BY <3>0, <3>2, <1>0 DEF HoldsBest, NothingBetterLeftOut
    <3>4. k # P - 1
      BY <3>1, <3>3
    <3>5. CASE k < pos
      BY <3>3, <3>5, <1>0
    <3>6. CASE pos <= k
      <4>1. k + 1 \in Slot /\ new[k + 1] = buf[k]
        BY <3>4, <3>6, <1>0
      <4>2. QED
        BY <4>1, <3>3
    <3>7. QED
      BY <3>5, <3>6, <1>0
  <2>3. QED
    BY <2>1, <2>2
<1>6. QED
  BY <1>1, <1>2, <1>3, <1>4, <1>5 DEF HoldsBest

\* A candidate that does not beat the last slot may be left out.
LEMMA SkipKeepsBest ==
  ASSUME NEW buf, NEW S, HoldsBest(buf, P, S), NEW cand, ~Better(cand, buf[P - 1])
  PROVE  HoldsBest(buf, P, S \cup {cand})
BY DEF HoldsBest, OnlyFrom, NothingBetterLeftOut

\* insert_topk keeps the best P of what it was offered.
LEMMA InsertKeepsBest ==
  ASSUME NEW buf \in Buffer, NEW S, S \subseteq Candidate, HoldsBest(buf, P, S),
         NEW cand \in Candidate, cand \notin S
  PROVE  /\ Insert(buf, cand) \in Buffer
         /\ HoldsBest(Insert(buf, cand), P, S \cup {cand})
<1>1. CASE Better(cand, buf[P - 1])
  BY <1>1, SomeFirstBeaten, ShiftKeepsBest DEF Insert
<1>2. CASE ~Better(cand, buf[P - 1])
  BY <1>2, SkipKeepsBest DEF Insert
<1>3. QED
  BY <1>1, <1>2

-----------------------------------------------------------------------------
(***************************************************************************)
(* insert_topk's loops.                                                    *)
(***************************************************************************)

\* While it searches, the bracket lo .. hi holds the first slot that
\* the candidate beats.
Bracket ==
  /\ entering \in Offers
  /\ entering \notin offered
  /\ lo <= hi
  /\ Better(entering, buffer[hi])
  /\ \A j \in 0 .. lo - 1 : ~Better(entering, buffer[j])

\* The inductive invariant: the decided buffer is best at every step.
InsertInv ==
  /\ InsertTypeOK
  /\ HoldsBest(DecidedTop, P, offered)
  /\ loop = "search" => Bracket
  /\ loop = "shift" => entering \in Offers

\* Outside the shift loop the decided buffer is the buffer itself.
LEMMA DecidedOutsideShift ==
  ASSUME buffer \in Buffer, loop # "shift"
  PROVE  DecidedTop = buffer
BY DEF DecidedTop

\* An empty buffer satisfies the inductive invariant.
LEMMA InsertInitInv == InsertInit => InsertInv
<1> SUFFICES ASSUME InsertInit PROVE InsertInv
  OBVIOUS
<1>1. InsertTypeOK
  BY EmptyHoldsBest, PAssumption DEF InsertInit, InsertTypeOK, Slot
<1>2. HoldsBest(DecidedTop, P, offered)
  BY <1>1, DecidedOutsideShift, EmptyHoldsBest DEF InsertInit, InsertTypeOK
<1>3. QED
  BY <1>1, <1>2 DEF InsertInit, InsertInv

\* Deciding to reject a candidate.
LEMMA RejectStep ==
  ASSUME InsertInv, NEW cand \in Offers, Reject(cand)
  PROVE  InsertInv' /\ DecidedTop' = Insert(DecidedTop, cand)
<1> USE DEF InsertInv, InsertTypeOK, Reject
<1>1. InsertTypeOK'
  OBVIOUS
<1>2. DecidedTop = buffer /\ DecidedTop' = buffer
  BY <1>1 DEF DecidedTop
<1>3. HoldsBest(buffer, P, offered \cup {cand})
  BY <1>2, SkipKeepsBest
<1>4. QED
  BY <1>1, <1>2, <1>3 DEF Insert

\* Entering the search: the whole buffer is the first bracket.
LEMMA EnterStep ==
  ASSUME InsertInv, NEW cand \in Offers, Enter(cand)
  PROVE  InsertInv' /\ UNCHANGED <<DecidedTop, offered>>
<1> USE DEF InsertInv, InsertTypeOK, Enter
<1>1. InsertTypeOK'
  BY PAssumption DEF Slot
<1>2. DecidedTop = buffer /\ DecidedTop' = buffer
  BY <1>1 DEF DecidedTop
<1>3. Bracket'
  BY PAssumption DEF Bracket, Slot
<1>4. QED
  BY <1>1, <1>2, <1>3

\* One probe of the binary search keeps the first beaten slot bracketed.
LEMMA ProbeStep ==
  ASSUME InsertInv, Probe
  PROVE  InsertInv' /\ UNCHANGED <<DecidedTop, offered>>
<1> USE DEF InsertInv, InsertTypeOK
<1> DEFINE mid == lo + ((hi - lo) \div 2)
<1>1. mid \in Slot /\ lo <= mid /\ mid < hi /\ mid + 1 \in Slot
  BY PAssumption DEF Probe, Slot
<1>2. InsertTypeOK'
  BY <1>1 DEF Probe
<1>3. DecidedTop = buffer /\ DecidedTop' = buffer
  BY DEF Probe, DecidedTop
<1>4. Bracket'
  <2> HIDE DEF mid
  <2>1. CASE Better(entering, buffer[mid])
    <3>1. hi' = mid /\ lo' = lo
      BY <2>1 DEF Probe, mid
    <3>2. QED
      BY <1>1, <2>1, <3>1 DEF Bracket, Probe
  <2>2. CASE ~Better(entering, buffer[mid])
    <3>1. hi' = hi /\ lo' = mid + 1
      BY <2>2 DEF Probe, mid
    <3>2. ASSUME NEW j \in 0 .. mid PROVE ~Better(entering, buffer[j])
      <4>1. j \in Slot /\ (j < mid => ~Better(buffer[mid], buffer[j]))
        BY <1>1, <1>3, PAssumption DEF HoldsBest, Sorted, Slot, Probe
      <4>2. buffer[j] \in Candidate /\ buffer[mid] \in Candidate /\ entering \in Candidate
        BY <4>1, <1>1, OffersAssumption DEF Buffer, Bracket, Probe
      <4>3. CASE j < mid
        BY <4>1, <4>2, <4>3, <2>2, BetterWeakTransitive
      <4>4. CASE j = mid
        BY <4>4, <2>2
      <4>5. QED
        BY <4>3, <4>4, <1>1 DEF Slot
    <3>3. \A j \in 0 .. lo' - 1 : ~Better(entering, buffer[j])
      BY <3>1, <3>2, <1>1 DEF Slot
    <3>4. QED
      BY <1>1, <3>1, <3>3 DEF Bracket, Probe, Slot
  <2>3. QED
    BY <2>1, <2>2
<1>5. QED
  BY <1>2, <1>3, <1>4 DEF Probe

\* The end of the search decides the insertion.
LEMMA LocateStep ==
  ASSUME InsertInv, Locate
  PROVE  /\ InsertInv'
         /\ entering \in Offers /\ entering \notin offered
         /\ offered' = offered \cup {entering}
         /\ DecidedTop' = Insert(DecidedTop, entering)
<1> USE DEF InsertInv, InsertTypeOK
<1>1. InsertTypeOK' /\ entering \in Offers /\ entering \notin offered /\ entering \in Candidate
  BY PAssumption, OffersAssumption DEF Locate, Slot, Bracket
<1>2. DecidedTop = buffer
  BY DEF Locate, DecidedTop
<1>3. lo = hi /\ Better(entering, buffer[lo]) /\ \A j \in 0 .. lo - 1 : ~Better(entering, buffer[j])
  BY DEF Locate, Bracket, Slot
<1>4. DecidedTop' = ShiftIn(buffer, entering, lo)
  BY PAssumption DEF Locate, DecidedTop, ShiftIn, Slot
<1>5. HoldsBest(DecidedTop', P, offered \cup {entering})
  BY <1>1, <1>2, <1>3, <1>4, ShiftKeepsBest, OffersAssumption
<1>6. Better(entering, buffer[P - 1])
  <2>1. CASE lo = P - 1
    BY <2>1, <1>3
  <2>2. CASE lo < P - 1
    <3>1. ~Better(buffer[P - 1], buffer[lo])
      BY <2>2, <1>2, PAssumption DEF HoldsBest, Sorted, Slot
    <3>2. buffer[lo] \in Candidate /\ buffer[P - 1] \in Candidate
      BY PAssumption DEF Buffer, Slot
    <3>3. QED
      BY <3>1, <3>2, <1>1, <1>3, BetterWeakTransitive
  <2>3. QED
    BY <2>1, <2>2, PAssumption DEF Slot
<1>7. DecidedTop' = Insert(DecidedTop, entering)
  BY <1>1, <1>2, <1>3, <1>4, <1>6, FirstBeatenExists DEF Insert
<1>8. QED
  BY <1>1, <1>5, <1>7 DEF Locate

\* The shift loop and the store only carry out what was decided.
LEMMA ShiftStep ==
  ASSUME InsertInv, Shift
  PROVE  InsertInv' /\ UNCHANGED <<DecidedTop, offered>>
<1> USE DEF InsertInv, InsertTypeOK
<1>1. InsertTypeOK'
  BY PAssumption DEF Shift, Slot, Buffer
<1>2. DecidedTop' = DecidedTop
  <2>1. ASSUME NEW j \in Slot PROVE DecidedTop'[j] = DecidedTop[j]
    BY <2>1, PAssumption DEF Shift, DecidedTop, Slot, Buffer
  <2>2. QED
    BY <2>1 DEF Shift, DecidedTop
<1>3. QED
  BY <1>1, <1>2 DEF Shift

\* The store fills the slot the shift has opened: to a reader who knows what the
\* call has decided, nothing changes.
LEMMA StoreStep ==
  ASSUME InsertInv, Store
  PROVE  InsertInv' /\ UNCHANGED <<DecidedTop, offered>>
<1> USE DEF InsertInv, InsertTypeOK
<1>1. InsertTypeOK'
  BY PAssumption, OffersAssumption DEF Store, Slot, Buffer
<1>2. DecidedTop' = DecidedTop
  <2>1. DecidedTop' = buffer'
    BY <1>1 DEF Store, DecidedTop
  <2>2. buffer' = [j \in Slot |-> IF j = lo THEN entering ELSE buffer[j]]
    BY DEF Store, Buffer
  <2>3. DecidedTop = [j \in Slot |-> IF j = lo THEN entering ELSE buffer[j]]
    BY DEF Store, DecidedTop, Slot
  <2>4. QED
    BY <2>1, <2>2, <2>3
<1>3. QED
  BY <1>1, <1>2 DEF Store

\* The invariant is inductive.
LEMMA InsertNextInv == InsertInv /\ [InsertNext]_insertVars => InsertInv'
<1> SUFFICES ASSUME InsertInv, [InsertNext]_insertVars PROVE InsertInv'
  OBVIOUS
<1>1. CASE UNCHANGED insertVars
  <2>1. DecidedTop' = DecidedTop
    BY <1>1 DEF insertVars, DecidedTop
  <2>2. QED
    BY <1>1, <2>1 DEF insertVars, InsertInv, InsertTypeOK, Bracket
<1>2. ASSUME NEW cand \in Offers, Reject(cand) PROVE InsertInv'
  BY <1>2, RejectStep
<1>3. ASSUME NEW cand \in Offers, Enter(cand) PROVE InsertInv'
  BY <1>3, EnterStep
<1>4. CASE Probe
  BY <1>4, ProbeStep
<1>5. CASE Locate
  BY <1>5, LocateStep
<1>6. CASE Shift
  BY <1>6, ShiftStep
<1>7. CASE Store
  BY <1>7, StoreStep
<1>8. QED
  BY <1>1, <1>2, <1>3, <1>4, <1>5, <1>6, <1>7 DEF InsertNext

\* The inductive invariant holds in every reachable state.
LEMMA InsertInvariant == InsertSpec => []InsertInv
BY InsertInitInv, InsertNextInv, PTL DEF InsertSpec

\* The locals of insert_topk stay inside the buffer: no slot outside it is
\* read or written, whatever P is.
THEOREM TopKTypeOK == InsertSpec => []InsertTypeOK
<1>1. InsertInv => InsertTypeOK
  BY DEF InsertInv
<1>2. QED
  BY <1>1, InsertInvariant, PTL

\* Between calls the buffer is the sorted list of the best P offered.
THEOREM TopKBestBetweenCalls == InsertSpec => []BestBetweenCalls
<1>1. InsertInv => BestBetweenCalls
  BY DecidedOutsideShift DEF InsertInv, InsertTypeOK, BestBetweenCalls
<1>2. QED
  BY <1>1, InsertInvariant, PTL

\* The loops implement the one-step insertion the decoder relies on.
THEOREM TopKImplementsBuffer == InsertSpec => ImplementsBuffer
<1>0. \A u, x : Buffered!Insert(u, x) = Insert(u, x)
  BY DEF Insert, Buffered!Insert, FirstBeaten, Buffered!FirstBeaten,
         Better, Buffered!Better, ShiftIn, Buffered!ShiftIn, Slot, Buffered!Slot
<1>1. InsertInit => Buffered!Init
  BY DEF InsertInit, Buffered!Init, DecidedTop, EmptyBuffer, Buffered!EmptyBuffer,
         Slot, Buffered!Slot, Placeholder, Buffered!Placeholder
<1>2. ASSUME InsertInv, [InsertNext]_insertVars PROVE [Buffered!Next]_(Buffered!vars)
  <2>1. CASE UNCHANGED insertVars
    BY <2>1 DEF insertVars, Buffered!vars, DecidedTop
  <2>2. ASSUME NEW cand \in Offers, Reject(cand) PROVE Buffered!Next
    BY <1>0, <1>2, <2>2, RejectStep DEF Buffered!Next, Buffered!Offer, Reject
  <2>3. ASSUME NEW cand \in Offers, Enter(cand) PROVE UNCHANGED Buffered!vars
    BY <1>2, <2>3, EnterStep DEF Buffered!vars
  <2>4. CASE Probe
    BY <1>2, <2>4, ProbeStep DEF Buffered!vars
  <2>5. CASE Locate
    BY <1>0, <1>2, <2>5, LocateStep DEF Buffered!Next, Buffered!Offer
  <2>6. CASE Shift
    BY <1>2, <2>6, ShiftStep DEF Buffered!vars
  <2>7. CASE Store
    BY <1>2, <2>7, StoreStep DEF Buffered!vars
  <2>8. QED
    BY <1>2, <2>1, <2>2, <2>3, <2>4, <2>5, <2>6, <2>7 DEF InsertNext
<1>3. QED
  BY <1>1, <1>2, InsertInvariant, PTL
     DEF InsertSpec, ImplementsBuffer, Buffered!Spec

-----------------------------------------------------------------------------
(***************************************************************************)
(* Types.  The ranking functions are only defined on lengths 1 .. T, and   *)
(* a selected candidate indexes the beams by its parent and the vocabulary *)
(* by its token: the invariant must bound all three.                       *)
(***************************************************************************)

\* What a slot of the buffer may hold during step t.
Proper(c) ==
  /\ c.parent = -1 \/ c.parent \in BeamId
  /\ c.fromLogprob = 1 => c.parent \in BeamId /\ c.token \in Token
  /\ c.length <= t + 1

TypeInv ==
  /\ TypeOK
  /\ \A k \in BeamId : beams[k].len <= t
  /\ pc = "scan" => \A i \in Slot : Proper(top[i])

\* A sum of floats is a float.
LEMMA FloatAddType ==
  ASSUME NEW x \in Int, NEW y \in Int
  PROVE  FloatAdd(x, y) \in Score
BY InfAssumption DEF FloatAdd, Score

\* Placeholders and the candidates a scan builds may go into the buffer.
LEMMA PlaceholderProper ==
  ASSUME t \in Nat
  PROVE  Proper(Placeholder)
BY DEF Proper, Placeholder

\* Extending a beam gives a candidate with all its fields in range.
LEMMA ExpandProper ==
  ASSUME TypeInv, t < T, NEW k \in BeamId, NEW u \in Token
  PROVE  /\ Expand(cons, beams, rows, k, u) \in Candidate
         /\ Proper(Expand(cons, beams, rows, k, u))
<1> DEFINE lp  == Penalised(cons, beams[k], u, rows[k][u])
           raw == FloatAdd(beams[k].raw, lp)
           len == beams[k].len + 1
<1>1. rows[k][u] \in Score /\ beams[k].raw \in Score /\ beams[k].len \in 0 .. t
      /\ cons.repetition \in Nat /\ t \in 0 .. T
  BY LogProbAssumption, ConstraintAssumption
     DEF TypeInv, TypeOK, Beam, Constraint
<1>2. lp \in Score
  <2>1. rows[k][u] \in Int /\ -cons.repetition \in Int
    BY <1>1 DEF Score
  <2>2. QED
    BY <1>1, <2>1, FloatAddType, Zenon DEF Penalised
<1>3. raw \in Score
  <2>1. lp \in Int /\ beams[k].raw \in Int
    BY <1>1, <1>2 DEF Score
  <2>2. QED
    BY <2>1, FloatAddType, Zenon
<1>4. len \in 1 .. T /\ len \in Nat /\ len <= t + 1
  BY <1>1, DimensionsAssumption
<1>5. Rank(raw, len) \in Score
  BY <1>3, <1>4, RankAssumption
<1>6. Expand(cons, beams, rows, k, u) =
        [score |-> Rank(raw, len), raw |-> raw, parent |-> k, token |-> u,
         length |-> len, fromLogprob |-> 1]
  BY DEF Expand
<1>7. k \in Int /\ u \in Int
  BY DimensionsAssumption DEF BeamId, Token
<1> HIDE DEF raw, len, lp
<1>8. QED
  BY <1>3, <1>4, <1>5, <1>6, <1>7 DEF Candidate, Proper

\* Carrying a finished beam gives a candidate with all its fields in range.
LEMMA CarryProper ==
  ASSUME TypeInv, t < T, NEW k \in BeamId
  PROVE  Carry(beams, k) \in Candidate /\ Proper(Carry(beams, k))
<1> DEFINE len == IF beams[k].len < 1 THEN 1 ELSE beams[k].len
<1>1. beams[k].raw \in Score /\ beams[k].len \in 0 .. t /\ t \in 0 .. T
  BY DEF TypeInv, TypeOK, Beam
<1>2. len \in 1 .. T /\ len \in Nat /\ len <= t + 1
  BY <1>1, DimensionsAssumption
<1>3. CarryRank(beams[k].raw, len) \in Score
  BY <1>1, <1>2, RankAssumption
<1>4. k \in Int /\ EOS \in Int
  BY DimensionsAssumption, OptionsAssumption DEF BeamId
<1>5. Carry(beams, k) =
        [score |-> CarryRank(beams[k].raw, len), raw |-> beams[k].raw,
         parent |-> k, token |-> EOS, length |-> len, fromLogprob |-> 0]
  BY DEF Carry
<1> HIDE DEF len
<1>6. QED
  BY <1>1, <1>2, <1>3, <1>4, <1>5 DEF Candidate, Proper

\* Inserting keeps the slots proper.
LEMMA InsertProper ==
  ASSUME top \in Buffer, \A i \in Slot : Proper(top[i]),
         NEW c \in Candidate, Proper(c)
  PROVE  /\ Insert(top, c) \in Buffer
         /\ \A i \in Slot : Proper(Insert(top, c)[i])
<1>1. CASE Better(c, top[P - 1])
  <2>1. PICK pos \in Slot : Insert(top, c) = ShiftIn(top, c, pos)
    BY <1>1, SomeFirstBeaten DEF Insert
  <2>2. ASSUME NEW i \in Slot
        PROVE  Insert(top, c)[i] \in {c} \cup {top[j] : j \in Slot}
    BY <2>1, <2>2, PAssumption DEF ShiftIn, Slot
  <2>3. \A i \in Slot : Insert(top, c)[i] \in Candidate
    BY <2>2 DEF Buffer
  <2>4. Insert(top, c) \in Buffer
    BY <2>1, <2>3 DEF Buffer, ShiftIn
  <2>5. QED
    BY <2>2, <2>4
<1>2. CASE ~Better(c, top[P - 1])
  BY <1>2 DEF Insert
<1>3. QED
  BY <1>1, <1>2

\* After a row comes the next row, or the selection.
LEMMA NextRowBounds ==
  ASSUME TypeOK, b < K, NextRow
  PROVE  b' \in 0 .. K /\ v' \in 0 .. V - 1
BY DimensionsAssumption DEF TypeOK, NextRow

\* A selected candidate becomes a beam.
LEMMA NextBeamType ==
  ASSUME TypeInv, pc = "scan", NEW k \in BeamId
  PROVE  /\ NextBeam(beams, top[k]) \in Beam
         /\ NextBeam(beams, top[k]).len <= t + 1
<1>1. k \in Slot /\ top[k] \in Candidate /\ Proper(top[k])
  BY DimensionsAssumption, PAssumption DEF TypeInv, TypeOK, Buffer, BeamId, Slot
<1>2. CASE top[k].parent < 0
  <2>1. NextBeam(beams, top[k]) =
          [raw |-> top[k].raw, len |-> top[k].length, ended |-> FALSE, seq |-> << >>]
    BY <1>2 DEF NextBeam, DeadBeam
  <2>2. << >> \in Seq(Token)
    OBVIOUS
  <2>3. QED
    BY <1>1, <2>1, <2>2, CandidateFields DEF Beam, Proper
<1>3. CASE ~(top[k].parent < 0)
  <2> DEFINE c == top[k]
             par == beams[c.parent]
             app == c.fromLogprob = 1 /\ c.token >= 0
  <2>1. c.parent \in BeamId /\ par \in Beam
    BY <1>1, <1>3 DEF Proper, TypeInv, TypeOK
  <2>2. NextBeam(beams, c) =
          [raw |-> c.raw, len |-> c.length,
           ended |-> par.ended \/ (EOS >= 0 /\ c.token = EOS),
           seq |-> IF app THEN Append(par.seq, c.token) ELSE par.seq]
    BY <1>3 DEF NextBeam
  <2>3. par.seq \in Seq(Token) /\ (c.fromLogprob = 1 => c.token \in Token)
    BY <1>1, <2>1 DEF Beam, Proper
  <2>4. (IF app THEN Append(par.seq, c.token) ELSE par.seq) \in Seq(Token)
    BY <2>3
  <2>5. (par.ended \/ (EOS >= 0 /\ c.token = EOS)) \in BOOLEAN
    OBVIOUS
  <2>6. c.raw \in Score /\ c.length \in Nat /\ c.length <= t + 1
    BY <1>1, CandidateFields DEF Proper
  <2> HIDE DEF par, c, app
  <2>7. QED
    BY <2>2, <2>4, <2>5, <2>6 DEF Beam, c
<1>4. QED
  BY <1>2, <1>3

\* The first beam of decode_constrained is well-formed.
LEMMA InitTypeInv == Init => TypeInv
<1> SUFFICES ASSUME Init PROVE TypeInv
  OBVIOUS
<1>1. EmptyBuffer \in Buffer
  BY EmptyHoldsBest
<1>2. InitialBeams \in [BeamId -> Beam] /\ \A k \in BeamId : InitialBeams[k].len = 0
  <2>1. << >> \in Seq(Token) /\ 0 \in Score /\ NegInf \in Score
    BY InfAssumption DEF Score
  <2>2. QED
    BY <2>1 DEF InitialBeams, DeadBeam, Beam
<1>3. TypeOK
  BY <1>1, <1>2, DimensionsAssumption, InfAssumption, LogProbAssumption
     DEF Init, TypeOK, Score
<1>4. QED
  BY <1>2, <1>3 DEF Init, TypeInv

\* Emptying the pool keeps the types.
LEMMA BeginStepType == TypeInv /\ BeginStep => TypeInv'
<1> SUFFICES ASSUME TypeInv, BeginStep PROVE TypeInv'
  OBVIOUS
<1>1. EmptyBuffer \in Buffer /\ \A i \in Slot : EmptyBuffer[i] = Placeholder
  BY EmptyHoldsBest DEF EmptyBuffer
<1>2. TypeOK'
  BY <1>1, DimensionsAssumption, InfAssumption
     DEF BeginStep, TypeInv, TypeOK, Rows, Score
<1>3. \A i \in Slot : Proper(top[i])'
  BY <1>1, PlaceholderProper DEF BeginStep, TypeInv, TypeOK, Proper, Placeholder
<1>4. QED
  BY <1>2, <1>3 DEF TypeInv, BeginStep

\* Passing over a dead beam keeps the types.
LEMMA SkipDeadType == TypeInv /\ SkipDead => TypeInv'
<1> SUFFICES ASSUME TypeInv, SkipDead PROVE TypeInv'
  OBVIOUS
<1>1. b' \in 0 .. K /\ v' \in 0 .. V - 1
  BY NextRowBounds DEF SkipDead, TypeInv
<1>2. QED
  BY <1>1 DEF SkipDead, NextRow, TypeInv, TypeOK, Proper

\* Carrying a finished beam keeps the types.
LEMMA CarryFinishedType == TypeInv /\ CarryFinished => TypeInv'
<1> SUFFICES ASSUME TypeInv, CarryFinished PROVE TypeInv'
  OBVIOUS
<1>1. b' \in 0 .. K /\ v' \in 0 .. V - 1 /\ b \in BeamId
  BY NextRowBounds, DimensionsAssumption DEF CarryFinished, TypeInv, TypeOK, BeamId
<1>2. Carry(beams, b) \in Candidate /\ Proper(Carry(beams, b))
  BY <1>1, CarryProper DEF CarryFinished, TypeInv, TypeOK
<1>3. top' \in Buffer /\ \A i \in Slot : Proper(top'[i])
  BY <1>2, InsertProper DEF CarryFinished, TypeInv, TypeOK
<1>4. QED
  BY <1>1, <1>3 DEF CarryFinished, NextRow, TypeInv, TypeOK, Proper

\* Scanning a token keeps the types.
LEMMA ScanTokenType == TypeInv /\ ScanToken => TypeInv'
<1> SUFFICES ASSUME TypeInv, ScanToken PROVE TypeInv'
  OBVIOUS
<1> DEFINE c == Expand(cons, beams, rows, b, v)
<1>1. b \in BeamId /\ v \in Token /\ t < T
  BY DimensionsAssumption DEF ScanToken, TypeInv, TypeOK, BeamId, Token
<1>2. b' \in 0 .. K /\ v' \in 0 .. V - 1
  BY NextRowBounds, DimensionsAssumption DEF ScanToken, TypeInv, TypeOK
<1>3. c \in Candidate /\ Proper(c)
  BY <1>1, ExpandProper
<1>4. top' = top \/ top' = Insert(top, c)
  BY DEF ScanToken
<1>5. top' \in Buffer /\ \A i \in Slot : Proper(top'[i])
  <2> HIDE DEF c
  <2>1. QED
    BY <1>3, <1>4, InsertProper DEF ScanToken, TypeInv, TypeOK
<1>6. thr' \in Score
  <2>1. top[P - 1].score \in Score /\ NegInf \in Score
    BY PAssumption, InfAssumption, CandidateFields
       DEF TypeInv, TypeOK, Buffer, Slot, Score
  <2>2. QED
    BY <2>1 DEF ScanToken, Threshold, TypeInv, TypeOK
<1>7. UNCHANGED <<cons, t, beams, rows, pc, sel>>
  BY DEF ScanToken, NextRow
<1>8. QED
  BY <1>2, <1>5, <1>6, <1>7 DEF TypeInv, TypeOK, Proper

\* Selecting the next beams keeps the types.
LEMMA SelectType == TypeInv /\ Select => TypeInv'
<1> SUFFICES ASSUME TypeInv, Select PROVE TypeInv'
  OBVIOUS
<1> DEFINE row == [k \in BeamId |-> top[k]]
<1>1. \A k \in BeamId : k \in Slot
  BY DimensionsAssumption, PAssumption DEF BeamId, Slot
<1>2. row \in [BeamId -> Candidate]
  BY <1>1 DEF TypeInv, TypeOK, Buffer
<1>3. beams' = [k \in BeamId |-> NextBeam(beams, top[k])]
  BY DEF Select, Advance
<1>4. \A k \in BeamId : beams'[k] \in Beam /\ beams'[k].len <= t + 1
  BY <1>3, NextBeamType DEF Select
<1>5. sel' \in Seq([BeamId -> Candidate]) /\ Len(sel') = t + 1
  <2> HIDE DEF row
  <2>1. sel' = Append(sel, row)
    BY DEF Select, row
  <2>2. QED
    BY <1>2, <2>1 DEF TypeInv, TypeOK
<1>6. t' = t + 1 /\ t' \in 0 .. T /\ (pc' # "done" => t' < T) /\ pc' \in {"begin", "done"}
  BY DimensionsAssumption DEF Select, TypeInv, TypeOK
<1>7. beams' \in [BeamId -> Beam]
  BY <1>3, <1>4
<1>8. QED
  BY <1>4, <1>5, <1>6, <1>7 DEF Select, TypeInv, TypeOK

\* The inductive type invariant holds in every reachable state.
LEMMA TypeInvariant == Spec => []TypeInv
<1>1. ASSUME TypeInv, UNCHANGED vars PROVE TypeInv'
  BY <1>1 DEF vars, TypeInv, TypeOK, Proper
<1>2. TypeInv /\ [Next]_vars => TypeInv'
  BY <1>1, BeginStepType, SkipDeadType, CarryFinishedType, ScanTokenType, SelectType
     DEF Next
<1>3. QED
  BY <1>2, InitTypeInv, PTL DEF Spec

\* The decoder indexes its buffers and its beams within their bounds, and
\* ranks no hypothesis longer than the number of steps.
THEOREM DecodeTypeOK == Spec => []TypeOK
<1>1. TypeInv => TypeOK
  BY DEF TypeInv
<1>2. QED
  BY <1>1, TypeInvariant, PTL

-----------------------------------------------------------------------------
\* Where a candidate passed so far comes from: an earlier row, or an earlier
\* token of the row being scanned.
LEMMA ScannedOrigin ==
  ASSUME TypeInv, t < T, NEW d \in Scanned
  PROVE  /\ d \in Candidate
         /\ d.parent \in BeamId
         /\ d.parent < b \/ (d.parent = b /\ d.token < v /\ b < K /\ Open(beams[b]))
         /\ \/ d = Carry(beams, d.parent)
            \/ d.token \in Token /\ d = Expand(cons, beams, rows, d.parent, d.token)
<1> USE DEF TypeInv, TypeOK
<1>1. b \in 0 .. K /\ v \in 0 .. V - 1 /\ K \in Nat /\ V \in Nat
  BY DimensionsAssumption
<1>2. PICK k \in BeamId, n \in 0 .. V :
        /\ d \in Proposals(cons, t, beams, rows, k, n)
        /\ k < b \/ (k = b /\ n = v /\ b < K /\ Open(beams[b]))
  <2>1. CASE \E k \in 0 .. b - 1 : d \in Proposals(cons, t, beams, rows, k, V)
    <3>1. PICK k \in 0 .. b - 1 : d \in Proposals(cons, t, beams, rows, k, V)
      BY <2>1
    <3>2. k \in BeamId /\ k < b /\ V \in 0 .. V
      BY <1>1 DEF BeamId
    <3>3. QED
      BY <3>1, <3>2
  <2>2. CASE b < K /\ Open(beams[b]) /\ d \in Proposals(cons, t, beams, rows, b, v)
    <3>1. b \in BeamId /\ v \in 0 .. V
      BY <1>1, <2>2 DEF BeamId
    <3>2. QED
      BY <2>2, <3>1
  <2>3. QED
    BY <2>1, <2>2 DEF Scanned
<1>3. CASE Finished(beams[k])
  <2>1. d = Carry(beams, k)
    BY <1>2, <1>3 DEF Proposals
  <2>2. d.parent = k /\ ~Open(beams[k])
    BY <2>1, <1>3 DEF Carry, Open
  <2>3. QED
    BY <1>2, <2>1, <2>2, CarryProper
<1>4. CASE ~Finished(beams[k])
  <2>1. PICK u \in 0 .. n - 1 : d = Expand(cons, beams, rows, k, u)
    BY <1>2, <1>4 DEF Proposals
  <2>2. d.parent = k /\ d.token = u /\ u \in Token /\ u < n
    BY <1>1, <1>2, <2>1 DEF Expand, Token
  <2>3. QED
    BY <1>2, <2>1, <2>2, ExpandProper
<1>5. QED
  BY <1>3, <1>4

\* One more token of a row adds one candidate at most.
LEMMA ProposalsGrow ==
  ASSUME TypeInv, NEW k \in BeamId, Open(beams[k]), NEW n \in 0 .. V - 1
  PROVE  Proposals(cons, t, beams, rows, k, n + 1) =
           Proposals(cons, t, beams, rows, k, n)
             \cup (IF Proposes(cons, t, beams, rows, k, n)
                   THEN {Expand(cons, beams, rows, k, n)} ELSE {})
<1>1. 0 .. (n + 1) - 1 = (0 .. n - 1) \cup {n} /\ n \notin 0 .. n - 1
  BY DimensionsAssumption
<1>2. ~Finished(beams[k]) /\ Live(beams[k])
  BY DEF Open
<1> DEFINE A(m) == {u \in 0 .. m - 1 : Proposes(cons, t, beams, rows, k, u)}
<1>3. A(n + 1) = A(n) \cup {u \in {n} : Proposes(cons, t, beams, rows, k, u)}
  BY <1>1
<1>4. \A m : Proposals(cons, t, beams, rows, k, m) =
               {Expand(cons, beams, rows, k, u) : u \in A(m)}
  BY <1>2 DEF Proposals
<1> HIDE DEF A
<1>5. QED
  BY <1>3, <1>4

\* Moving to the next row: what was passed is everything of the rows before.
LEMMA RowsPassed ==
  ASSUME TypeInv, b < K, NextRow
  PROVE  Scanned' =
           (UNION {Proposals(cons, t, beams, rows, k, V) : k \in 0 .. b - 1})
             \cup Proposals(cons, t, beams, rows, b, V)
<1> USE DEF TypeInv, TypeOK, NextRow
<1>1. b \in 0 .. K - 1 /\ K \in Nat
  BY DimensionsAssumption
<1>2. 0 .. b' - 1 = (0 .. b - 1) \cup {b}
  BY <1>1
<1>3. Open(beams[b']) => Proposals(cons, t, beams, rows, b', 0) = {}
  <2>1. 0 .. 0 - 1 = {}
    OBVIOUS
  <2>2. QED
    BY <2>1 DEF Open, Proposals
<1>4. Scanned' =
        (UNION {Proposals(cons, t, beams, rows, k, V) : k \in 0 .. b' - 1})
          \cup (IF b' < K /\ Open(beams[b']) THEN Proposals(cons, t, beams, rows, b', 0)
                ELSE {})
  BY DEF Scanned
<1>5. Scanned' = (UNION {Proposals(cons, t, beams, rows, k, V) : k \in 0 .. b' - 1})
  <2>1. (IF b' < K /\ Open(beams[b']) THEN Proposals(cons, t, beams, rows, b', 0)
         ELSE {}) = {}
    BY <1>3
  <2>2. QED
    BY <1>4, <2>1
<1>6. QED
  BY <1>2, <1>5

\* A step starts with nothing passed.
LEMMA BeginPasses ==
  ASSUME BeginStep, TypeInv'
  PROVE  Scanned' = {} /\ top' = EmptyBuffer
<1>1. 0 .. 0 - 1 = {} /\ b' = 0 /\ v' = 0
  BY DEF BeginStep
<1>2. Open(beams'[0]) => Proposals(cons', t', beams', rows', 0, 0) = {}
  BY <1>1 DEF Open, Proposals
<1>3. QED
  BY <1>1, <1>2 DEF Scanned, BeginStep

\* A dead beam has nothing to pass.
LEMMA DeadPasses ==
  ASSUME TypeInv, SkipDead
  PROVE  Scanned' = Scanned
<1>1. Proposals(cons, t, beams, rows, b, V) = {} /\ ~Open(beams[b])
  BY DEF SkipDead, Proposals, Finished, Open
<1>2. QED
  BY <1>1, RowsPassed DEF SkipDead, Scanned

\* A finished beam passes its carry, which was not passed before.
LEMMA CarryPasses ==
  ASSUME TypeInv, CarryFinished
  PROVE  /\ Carry(beams, b) \in Candidate
         /\ Scanned \subseteq Candidate /\ Carry(beams, b) \notin Scanned
         /\ Scanned' = Scanned \cup {Carry(beams, b)}
<1> DEFINE c == Carry(beams, b)
<1>1. t < T /\ b \in BeamId
  BY DimensionsAssumption DEF CarryFinished, TypeInv, TypeOK, BeamId
<1>2. Proposals(cons, t, beams, rows, b, V) = {c} /\ ~Open(beams[b])
  BY DEF CarryFinished, Proposals, Open
<1>3. Scanned' = Scanned \cup {c}
  BY <1>2, RowsPassed DEF CarryFinished, Scanned
<1>4. c.parent = b /\ c \in Candidate
  BY <1>1, CarryProper DEF Carry
<1>5. Scanned \subseteq Candidate /\ c \notin Scanned
  BY <1>1, <1>2, <1>4, ScannedOrigin DEF BeamId
<1>6. QED
  BY <1>3, <1>4, <1>5

\* A scanned token passes its expansion, if it proposes one.
LEMMA TokenPasses ==
  ASSUME TypeInv, ScanToken
  PROVE  LET c == Expand(cons, beams, rows, b, v)
         IN  /\ c \in Candidate
             /\ Scanned \subseteq Candidate /\ c \notin Scanned
             /\ Scanned' = Scanned \cup (IF Proposes(cons, t, beams, rows, b, v)
                                         THEN {c} ELSE {})
<1> DEFINE c == Expand(cons, beams, rows, b, v)
<1>1. t < T /\ b < K /\ Open(beams[b]) /\ b \in BeamId /\ v \in Token /\ v \in 0 .. V - 1
  BY DimensionsAssumption DEF ScanToken, TypeInv, TypeOK, BeamId, Token
<1>2. c \in Candidate /\ c.parent = b /\ c.token = v
  BY <1>1, ExpandProper DEF Expand
<1>3. Scanned \subseteq Candidate /\ c \notin Scanned
  BY <1>1, <1>2, ScannedOrigin DEF BeamId, Token
<1>4. Proposals(cons, t, beams, rows, b, v + 1) =
        Proposals(cons, t, beams, rows, b, v)
          \cup (IF Proposes(cons, t, beams, rows, b, v) THEN {c} ELSE {})
  BY <1>1, ProposalsGrow
<1>5. CASE v + 1 < V
  <2>1. v' = v + 1 /\ UNCHANGED <<cons, t, beams, rows, b>>
    BY <1>5 DEF ScanToken
  <2>2. QED
    BY <1>1, <1>2, <1>3, <1>4, <2>1 DEF Scanned
<1>6. CASE ~(v + 1 < V)
  <2>1. NextRow /\ v + 1 = V
    BY <1>1, <1>6, DimensionsAssumption DEF ScanToken
  <2>2. QED
    BY <1>1, <1>2, <1>3, <1>4, <2>1, RowsPassed DEF Scanned
<1>7. QED
  BY <1>5, <1>6

-----------------------------------------------------------------------------
(***************************************************************************)
(* The rows a scan builds.                                                 *)
(***************************************************************************)

\* The buffer is a sorted list of candidates passed so far, none of them twice.
RowInv ==
  /\ TypeInv
  /\ pc = "scan" => /\ Sorted(top, P)
                    /\ NoDuplicate(top, P)
                    /\ OnlyFrom(top, P, Scanned)

\* A candidate passed so far carries a finished beam or extends an open one by
\* a token the constraints allow.
LEMMA ScannedLegal ==
  ASSUME TypeInv, t < T, NEW d \in Scanned
  PROVE  /\ d \in Candidate /\ d.parent \in BeamId
         /\ \/ Finished(beams[d.parent]) /\ d = Carry(beams, d.parent)
            \/ /\ Open(beams[d.parent]) /\ d.token \in Token
               /\ Proposes(cons, t, beams, rows, d.parent, d.token)
               /\ d = Expand(cons, beams, rows, d.parent, d.token)
<1>1. b \in 0 .. K /\ v \in 0 .. V - 1 /\ K \in Nat /\ V \in Nat
  BY DimensionsAssumption DEF TypeInv, TypeOK
<1>2. PICK k \in BeamId, n \in 0 .. V : d \in Proposals(cons, t, beams, rows, k, n)
  <2>1. CASE \E k \in 0 .. b - 1 : d \in Proposals(cons, t, beams, rows, k, V)
    <3>1. 0 .. b - 1 \subseteq BeamId /\ V \in 0 .. V
      BY <1>1 DEF BeamId
    <3>2. QED
      BY <2>1, <3>1
  <2>2. CASE b < K /\ d \in Proposals(cons, t, beams, rows, b, v)
    <3>1. b \in BeamId /\ v \in 0 .. V
      BY <1>1, <2>2 DEF BeamId
    <3>2. QED
      BY <2>2, <3>1
  <2>3. QED
    BY <2>1, <2>2 DEF Scanned
<1>3. d \in Candidate /\ d.parent \in BeamId
  BY ScannedOrigin
<1>4. CASE Finished(beams[k])
  <2>1. d = Carry(beams, k)
    BY <1>2, <1>4 DEF Proposals
  <2>2. d.parent = k
    BY <2>1 DEF Carry
  <2>3. QED
    BY <1>3, <1>4, <2>1, <2>2
<1>5. CASE ~Finished(beams[k])
  <2>1. PICK u \in 0 .. n - 1 :
          /\ Proposes(cons, t, beams, rows, k, u)
          /\ d = Expand(cons, beams, rows, k, u)
    BY <1>2, <1>5 DEF Proposals
  <2>2. d.parent = k /\ d.token = u /\ u \in Token
    BY <1>1, <1>2, <2>1 DEF Expand, Token
  <2>3. Open(beams[k])
    BY <1>2, <1>5 DEF Proposals, Open
  <2>4. QED
    BY <1>3, <2>1, <2>2, <2>3
<1>6. QED
  BY <1>4, <1>5

\* insert_topk keeps a list sorted and free of duplicates whatever was left out
\* of it before.
LEMMA InsertKeepsRow ==
  ASSUME top \in Buffer, NEW S, S \subseteq Candidate,
         Sorted(top, P), NoDuplicate(top, P), OnlyFrom(top, P, S),
         NEW c \in Candidate, c \notin S
  PROVE  /\ Sorted(Insert(top, c), P)
         /\ NoDuplicate(Insert(top, c), P)
         /\ OnlyFrom(Insert(top, c), P, S \cup {c})
<1> DEFINE kept == S \cap {top[i] : i \in Slot}
<1>1. OnlyFrom(top, P, kept) /\ NothingBetterLeftOut(top, P, kept)
  BY DEF OnlyFrom, NothingBetterLeftOut, Slot
<1>2. HoldsBest(top, P, kept) /\ kept \subseteq Candidate /\ c \notin kept
  BY <1>1 DEF HoldsBest
<1>3. kept \cup {c} \subseteq S \cup {c}
  OBVIOUS
<1> HIDE DEF kept
<1>4. HoldsBest(Insert(top, c), P, kept \cup {c})
  BY <1>2, InsertKeepsBest
<1>5. QED
  BY <1>3, <1>4 DEF HoldsBest, OnlyFrom

\* A row of candidates passed so far stays one as more are passed.
LEMMA OnlyFromGrows ==
  ASSUME NEW row, NEW R, NEW S, R \subseteq S, OnlyFrom(row, P, R)
  PROVE  OnlyFrom(row, P, S)
BY DEF OnlyFrom

LEMMA InitRow == Init => RowInv
BY InitTypeInv DEF Init, RowInv

\* A step starts with an empty row.
LEMMA BeginStepRow == RowInv /\ BeginStep => RowInv'
<1> SUFFICES ASSUME RowInv, BeginStep PROVE RowInv'
  OBVIOUS
<1>1. TypeInv' /\ top' = EmptyBuffer /\ Scanned' = {}
  BY BeginStepType, BeginPasses DEF RowInv
<1>2. HoldsBest(top', P, Scanned')
  BY <1>1, EmptyHoldsBest
<1>3. QED
  BY <1>1, <1>2 DEF RowInv, HoldsBest

LEMMA SkipDeadRow == RowInv /\ SkipDead => RowInv'
<1> SUFFICES ASSUME RowInv, SkipDead PROVE RowInv'
  OBVIOUS
<1>1. TypeInv' /\ Scanned' = Scanned /\ UNCHANGED <<top, pc>>
  BY SkipDeadType, DeadPasses DEF RowInv, SkipDead, NextRow
<1>2. QED
  BY <1>1 DEF RowInv

LEMMA CarryFinishedRow == RowInv /\ CarryFinished => RowInv'
<1> SUFFICES ASSUME RowInv, CarryFinished PROVE RowInv'
  OBVIOUS
<1> DEFINE c == Carry(beams, b)
<1>1. TypeInv' /\ TypeInv /\ top \in Buffer /\ pc = "scan" /\ UNCHANGED pc
  BY CarryFinishedType DEF RowInv, CarryFinished, NextRow, TypeInv, TypeOK
<1>2. /\ c \in Candidate /\ Scanned \subseteq Candidate /\ c \notin Scanned
      /\ Scanned' = Scanned \cup {c}
  BY <1>1, CarryPasses
<1>3. Sorted(top, P) /\ NoDuplicate(top, P) /\ OnlyFrom(top, P, Scanned)
  BY <1>1 DEF RowInv
<1>4. top' = Insert(top, c)
  BY DEF CarryFinished
<1> HIDE DEF c
<1>5. Sorted(top', P) /\ NoDuplicate(top', P) /\ OnlyFrom(top', P, Scanned')
  BY <1>1, <1>2, <1>3, <1>4, InsertKeepsRow
<1>6. QED
  BY <1>1, <1>5 DEF RowInv

\* Whether a token is inserted or turned away, by its constraints or by the
\* threshold of a vector kernel, the row stays one.
LEMMA ScanTokenRow == RowInv /\ ScanToken => RowInv'
<1> SUFFICES ASSUME RowInv, ScanToken PROVE RowInv'
  OBVIOUS
<1> DEFINE c == Expand(cons, beams, rows, b, v)
<1>1. TypeInv' /\ TypeInv /\ top \in Buffer /\ pc = "scan" /\ UNCHANGED pc
  BY ScanTokenType DEF RowInv, ScanToken, NextRow, TypeInv, TypeOK
<1>2. /\ c \in Candidate /\ Scanned \subseteq Candidate /\ c \notin Scanned
      /\ Scanned' = Scanned \cup (IF Proposes(cons, t, beams, rows, b, v)
                                  THEN {c} ELSE {})
  BY <1>1, TokenPasses
<1>3. Sorted(top, P) /\ NoDuplicate(top, P) /\ OnlyFrom(top, P, Scanned)
  BY <1>1 DEF RowInv
<1>4. top' = top \/ (Proposes(cons, t, beams, rows, b, v) /\ top' = Insert(top, c))
  BY DEF ScanToken
<1> HIDE DEF c
<1>5. CASE top' = top
  BY <1>1, <1>2, <1>3, <1>5, OnlyFromGrows DEF RowInv
<1>6. CASE Proposes(cons, t, beams, rows, b, v) /\ top' = Insert(top, c)
  <2>1. Scanned' = Scanned \cup {c}
    BY <1>2, <1>6
  <2>2. Sorted(top', P) /\ NoDuplicate(top', P) /\ OnlyFrom(top', P, Scanned')
    BY <1>1, <1>2, <1>3, <1>6, <2>1, InsertKeepsRow
  <2>3. QED
    BY <1>1, <2>2 DEF RowInv
<1>7. QED
  BY <1>4, <1>5, <1>6

LEMMA SelectRow == RowInv /\ Select => RowInv'
BY SelectType DEF RowInv, Select

\* Stuttering changes nothing.
LEMMA StutterRow == RowInv /\ UNCHANGED vars => RowInv'
BY DEF vars, RowInv, TypeInv, TypeOK, Proper, Scanned

LEMMA RowStep == RowInv /\ [Next]_vars => RowInv'
BY StutterRow, BeginStepRow, SkipDeadRow, CarryFinishedRow, ScanTokenRow, SelectRow
   DEF Next


-----------------------------------------------------------------------------
(***************************************************************************)
(* n-grams.                                                                *)
(***************************************************************************)

\* The tokens of one n-gram.
LEMMA NgramAt ==
  ASSUME NEW s, NEW i \in Int, NEW n \in Nat, n > 0,
         \A d \in i .. i + n - 1 : s[d] \in Token
  PROVE  /\ SubSeq(s, i, i + n - 1) \in Seq(Token)
         /\ Len(SubSeq(s, i, i + n - 1)) = n
         /\ \A e \in 1 .. n : SubSeq(s, i, i + n - 1)[e] = s[i + e - 1]
<1>1. i + n - 1 \in Int /\ (i + n - 1) - i + 1 = n /\ i <= i + n - 1
  OBVIOUS
<1>2. /\ SubSeq(s, i, i + n - 1) \in Seq(Token)
      /\ Len(SubSeq(s, i, i + n - 1)) = IF i <= i + n - 1 THEN (i + n - 1) - i + 1 ELSE 0
      /\ \A e \in 1 .. (i + n - 1) - i + 1 : SubSeq(s, i, i + n - 1)[e] = s[i + e - 1]
  BY <1>1, SubSeqProperties
<1>3. QED
  BY <1>1, <1>2

\* Two n-grams of a sequence are equal when their tokens are.
LEMMA NgramTokens ==
  ASSUME NEW s \in Seq(Token), NEW n \in Nat, n > 0,
         NEW i \in 1 .. Len(s) - n + 1, NEW j \in 1 .. Len(s) - n + 1,
         SubSeq(s, i, i + n - 1) = SubSeq(s, j, j + n - 1)
  PROVE  \A d \in 0 .. n - 1 : s[i + d] = s[j + d]
<1>0. Len(s) \in Nat
  OBVIOUS
<1>1. /\ i \in Int /\ i + n - 1 \in Int /\ j \in Int /\ j + n - 1 \in Int
      /\ (i + n - 1) - i + 1 = n /\ (j + n - 1) - j + 1 = n
  BY <1>0
<1>2. /\ \A d \in i .. i + n - 1 : s[d] \in Token
      /\ \A d \in j .. j + n - 1 : s[d] \in Token
  BY <1>0
<1>3. /\ \A e \in 1 .. n : SubSeq(s, i, i + n - 1)[e] = s[i + e - 1]
      /\ \A e \in 1 .. n : SubSeq(s, j, j + n - 1)[e] = s[j + e - 1]
  BY <1>1, <1>2, NgramAt
<1>4. ASSUME NEW d \in 0 .. n - 1 PROVE s[i + d] = s[j + d]
  <2>1. d + 1 \in 1 .. n /\ i + (d + 1) - 1 = i + d /\ j + (d + 1) - 1 = j + d
    BY <1>0
  <2>2. s[i + (d + 1) - 1] = s[j + (d + 1) - 1]
    BY <1>3, <2>1
  <2>3. QED
    BY <2>1, <2>2
<1>5. QED
  BY <1>4

\* Conversely.
LEMMA NgramEqual ==
  ASSUME NEW s \in Seq(Token), NEW n \in Nat, n > 0,
         NEW i \in 1 .. Len(s) - n + 1, NEW j \in 1 .. Len(s) - n + 1,
         \A d \in 0 .. n - 1 : s[i + d] = s[j + d]
  PROVE  SubSeq(s, i, i + n - 1) = SubSeq(s, j, j + n - 1)
<1>0. Len(s) \in Nat
  OBVIOUS
<1>1. /\ i \in Int /\ i + n - 1 \in Int /\ j \in Int /\ j + n - 1 \in Int
      /\ (i + n - 1) - i + 1 = n /\ (j + n - 1) - j + 1 = n
      /\ i <= i + n - 1 /\ j <= j + n - 1
  BY <1>0
<1>2. /\ \A d \in i .. i + n - 1 : s[d] \in Token
      /\ \A d \in j .. j + n - 1 : s[d] \in Token
  BY <1>0
<1> DEFINE x == SubSeq(s, i, i + n - 1)
           y == SubSeq(s, j, j + n - 1)
<1>3. x \in Seq(Token) /\ Len(x) = n /\ \A e \in 1 .. n : x[e] = s[i + e - 1]
  BY <1>1, <1>2, NgramAt
<1>4. y \in Seq(Token) /\ Len(y) = n /\ \A e \in 1 .. n : y[e] = s[j + e - 1]
  BY <1>1, <1>2, NgramAt
<1>5. ASSUME NEW e \in 1 .. n PROVE x[e] = y[e]
  <2>1. e - 1 \in 0 .. n - 1 /\ i + (e - 1) = i + e - 1 /\ j + (e - 1) = j + e - 1
    BY <1>0
  <2>2. s[i + (e - 1)] = s[j + (e - 1)]
    BY <2>1
  <2>3. QED
    BY <1>3, <1>4, <2>1, <2>2
<1> HIDE DEF x, y
<1>6. x = y
  BY <1>3, <1>4, <1>5, SeqEqual
<1>7. QED
  BY <1>6 DEF x, y

\* The test of the scan looks at the last n-gram only; that is enough.
LEMMA NgramAppended ==
  ASSUME NEW s \in Seq(Token), NEW u \in Token, NEW n \in Nat, n > 0,
         NoNgramTwice(s, n), ~RepeatsNgram(s, u, n)
  PROVE  NoNgramTwice(Append(s, u), n)
<1> DEFINE z == Append(s, u)
<1>1. /\ z \in Seq(Token) /\ Len(s) \in Nat /\ Len(z) = Len(s) + 1
      /\ \A i \in 1 .. Len(s) : z[i] = s[i]
      /\ z[Len(s) + 1] = u
  OBVIOUS
<1> HIDE DEF z
<1>2. ASSUME NEW i \in 1 .. Len(z) - n + 1, NEW j \in 1 .. Len(z) - n + 1, i < j,
             SubSeq(z, i, i + n - 1) = SubSeq(z, j, j + n - 1)
      PROVE  FALSE
  <2>1. \A d \in 0 .. n - 1 : z[i + d] = z[j + d]
    BY <1>1, <1>2, NgramTokens
  <2>2. i \in 1 .. Len(s) - n + 1
    BY <1>1, <1>2
  <2>3. CASE j < Len(s) - n + 2
    <3>1. j \in 1 .. Len(s) - n + 1
      BY <1>1, <2>3
    <3>2. ASSUME NEW d \in 0 .. n - 1 PROVE s[i + d] = s[j + d]
      <4>1. i + d \in 1 .. Len(s) /\ j + d \in 1 .. Len(s)
        BY <1>1, <2>2, <3>1
      <4>2. QED
        BY <1>1, <2>1, <4>1
    <3>3. QED
      BY <1>2, <2>2, <3>1, <3>2, NgramEqual DEF NoNgramTwice
  <2>4. CASE ~(j < Len(s) - n + 2)
    <3>1. j = Len(s) - n + 2
      BY <1>1, <2>4
    <3>2. z[i + n - 1] = z[j + n - 1]
      <4>1. n - 1 \in 0 .. n - 1 /\ i + (n - 1) = i + n - 1 /\ j + (n - 1) = j + n - 1
        BY <1>1
      <4>2. QED
        BY <2>1, <4>1
    <3>3. i + n - 1 \in 1 .. Len(s) /\ j + n - 1 = Len(s) + 1
      BY <1>1, <2>2, <3>1
    <3>4. s[i + n - 1] = u
      BY <1>1, <3>2, <3>3
    <3>5. ASSUME NEW d \in 0 .. n - 2 PROVE s[i + d] = s[Len(s) - n + 2 + d]
      <4>1. /\ d \in 0 .. n - 1 /\ j + d = Len(s) - n + 2 + d
            /\ i + d \in 1 .. Len(s) /\ j + d \in 1 .. Len(s)
        BY <1>1, <2>2, <3>1
      <4>2. QED
        BY <1>1, <2>1, <4>1
    <3>6. CASE n = 1
      BY <1>1, <3>3, <3>4, <3>6 DEF RepeatsNgram, ContainsToken
    <3>7. CASE n > 1
      BY <2>2, <3>4, <3>5, <3>7 DEF RepeatsNgram
    <3>8. QED
      BY <3>6, <3>7
  <2>5. QED
    BY <2>3, <2>4
<1>3. NoNgramTwice(z, n)
  BY <1>2 DEF NoNgramTwice
<1>4. QED
  BY <1>3 DEF z

-----------------------------------------------------------------------------
(***************************************************************************)
(* The hypotheses.  LengthsMatch, DistinctHypotheses and                   *)
(* ConstraintsHonoured are inductive together with RowInv; the selection   *)
(* is the only step that changes what they speak of.                       *)
(***************************************************************************)
HypothesisInv ==
  /\ RowInv
  /\ LengthsMatch
  /\ DistinctHypotheses
  /\ ConstraintsHonoured

\* An open beam has not ended, whether or not decoding has an end token.
LEMMA OpenNotEnded ==
  ASSUME TypeInv, LengthsMatch, NEW k \in BeamId, Open(beams[k])
  PROVE  /\ ~beams[k].ended /\ Len(beams[k].seq) = t /\ beams[k].len = t
         /\ beams[k].seq \in Seq(Token) /\ t \in Nat
         /\ \A i \in 1 .. t : beams[k].seq[i] # EOS
<1>1. Live(beams[k]) /\ beams[k].seq \in Seq(Token) /\ t \in Nat
  BY DEF Open, TypeInv, TypeOK, Beam
<1>2. /\ beams[k].len = Len(beams[k].seq) /\ Len(beams[k].seq) = t
      /\ \A i \in 1 .. t : beams[k].seq[i] = EOS => beams[k].ended
      /\ beams[k].ended => t > 0 /\ beams[k].seq[t] = EOS
  BY <1>1 DEF LengthsMatch
<1>3. ASSUME beams[k].ended PROVE FALSE
  <2>1. beams[k].seq[t] \in Token /\ beams[k].seq[t] = EOS
    BY <1>1, <1>2, <1>3
  <2>2. EOS >= 0
    BY <2>1, DimensionsAssumption DEF Token
  <2>3. QED
    BY <1>1, <1>3, <2>2 DEF Open, Finished
<1>4. QED
  BY <1>1, <1>2, <1>3

\* A beam of the next step carries a finished one or extends an open one.
Successor(beam, c) ==
  LET parent == beams[c.parent]
  IN  /\ c.parent \in BeamId
      /\ \/ /\ Finished(parent) /\ c = Carry(beams, c.parent)
            /\ beam.seq = parent.seq /\ beam.raw = parent.raw /\ beam.ended
            /\ beam.len = Carry(beams, c.parent).length
         \/ /\ Open(parent) /\ c.token \in Token
            /\ Allowed(cons, t, parent, c.token)
            /\ c = Expand(cons, beams, rows, c.parent, c.token)
            /\ beam.seq = Append(parent.seq, c.token)
            /\ beam.len = parent.len + 1
            /\ beam.ended <=> (parent.ended \/ (EOS >= 0 /\ c.token = EOS))

\* Whatever is selected, a beam is a placeholder, dead and empty, or the
\* successor of a live one.
LEMMA SelectedBeams ==
  ASSUME RowInv, Select, NEW k \in BeamId
  PROVE  /\ k \in Slot /\ top[k] \in Candidate
         /\ beams'[k] = NextBeam(beams, top[k])
         /\ \/ top[k] = Placeholder /\ ~Live(beams'[k]) /\ beams'[k].seq = << >>
               /\ ~beams'[k].ended
            \/ Successor(beams'[k], top[k])
<1>1. k \in Slot /\ top[k] \in Candidate /\ t < T /\ TypeInv /\ pc = "scan"
  BY DimensionsAssumption, PAssumption
     DEF RowInv, TypeInv, TypeOK, Buffer, BeamId, Slot, Select
<1>2. beams'[k] = NextBeam(beams, top[k])
  BY DEF Select, Advance
<1>3. top[k] \in Scanned \cup {Placeholder}
  BY <1>1 DEF RowInv, OnlyFrom, Slot
<1>4. CASE top[k] = Placeholder
  <2>1. beams'[k] = [DeadBeam EXCEPT !.raw = NegInf, !.len = 0]
    BY <1>2, <1>4 DEF NextBeam, Placeholder
  <2>2. beams'[k].raw = NegInf /\ beams'[k].seq = << >> /\ beams'[k].ended = FALSE
    BY <2>1 DEF DeadBeam
  <2>3. ~Live(beams'[k])
    BY <2>2, InfAssumption DEF Live, IsFinite
  <2>6. QED
    BY <1>1, <1>2, <1>4, <2>2, <2>3
<1>5. CASE top[k] \in Scanned
  <2> DEFINE c == top[k]
             parent == beams[c.parent]
  <2>1. /\ c \in Candidate /\ c.parent \in BeamId
        /\ \/ Finished(parent) /\ c = Carry(beams, c.parent)
           \/ /\ Open(parent) /\ c.token \in Token
              /\ Proposes(cons, t, beams, rows, c.parent, c.token)
              /\ c = Expand(cons, beams, rows, c.parent, c.token)
    BY <1>1, <1>5, ScannedLegal
  <2>2. ~(c.parent < 0)
    BY <2>1, DimensionsAssumption DEF BeamId
  <2>3. beams'[k] = [raw |-> c.raw, len |-> c.length,
                     ended |-> parent.ended \/ (EOS >= 0 /\ c.token = EOS),
                     seq |-> IF c.fromLogprob = 1 /\ c.token >= 0
                             THEN Append(parent.seq, c.token) ELSE parent.seq]
    BY <1>2, <2>2 DEF NextBeam
  <2>4. /\ beams'[k].raw = c.raw /\ beams'[k].len = c.length
        /\ beams'[k].seq = IF c.fromLogprob = 1 /\ c.token >= 0
                           THEN Append(parent.seq, c.token) ELSE parent.seq
    <3> HIDE DEF c, parent
    <3>1. QED
      BY <2>3
  <2>5. beams'[k].ended <=> (parent.ended \/ (EOS >= 0 /\ c.token = EOS))
    <3>1. parent.ended \in BOOLEAN
      BY <1>1, <2>1 DEF TypeInv, TypeOK, Beam
    <3> DEFINE now == parent.ended \/ (EOS >= 0 /\ c.token = EOS)
    <3>2. now \in BOOLEAN
      OBVIOUS
    <3>3. beams'[k].ended = now
      <4> HIDE DEF now, c, parent
      <4>1. QED
        BY <2>3, <3>2 DEF now
    <3>4. QED
      BY <3>1, <3>3, Zenon
  <2>6. CASE Finished(parent) /\ c = Carry(beams, c.parent)
    <3>1. c.raw = parent.raw /\ c.fromLogprob = 0 /\ c.length = Carry(beams, c.parent).length
      BY <2>6 DEF Carry
    <3>2. parent.ended
      BY <2>6 DEF Finished
    <3>3. /\ beams'[k].seq = parent.seq /\ beams'[k].raw = parent.raw
          /\ beams'[k].ended /\ beams'[k].len = Carry(beams, c.parent).length
      <4> HIDE DEF c, parent
      <4>1. QED
        BY <2>4, <2>5, <3>1, <3>2
    <3>4. Successor(beams'[k], c)
      BY <2>1, <2>6, <3>3, Zenon DEF Successor
    <3>5. QED
      BY <1>1, <1>2, <3>4
  <2>7. CASE /\ Open(parent) /\ c.token \in Token
             /\ Proposes(cons, t, beams, rows, c.parent, c.token)
             /\ c = Expand(cons, beams, rows, c.parent, c.token)
    <3>1. c.length = parent.len + 1 /\ c.fromLogprob = 1 /\ c.token >= 0
      BY <2>7, DimensionsAssumption DEF Expand, Token
    <3>2. Allowed(cons, t, parent, c.token)
      BY <2>7 DEF Proposes
    <3>3. /\ beams'[k].seq = Append(parent.seq, c.token)
          /\ beams'[k].len = parent.len + 1
          /\ beams'[k].ended <=> (parent.ended \/ (EOS >= 0 /\ c.token = EOS))
      <4> HIDE DEF c, parent
      <4>1. QED
        BY <2>4, <2>5, <3>1
    <3>4. Successor(beams'[k], c)
      BY <2>1, <2>7, <3>2, <3>3, Zenon DEF Successor
    <3>5. QED
      BY <1>1, <1>2, <3>4
  <2>8. QED
    BY <2>1, <2>6, <2>7
<1>6. QED
  BY <1>3, <1>4, <1>5

\* The selection adds a token to every open hypothesis and none to a finished one.
LEMMA SelectLengths ==
  ASSUME HypothesisInv, Select
  PROVE  LengthsMatch'
<1>1. RowInv /\ TypeInv /\ TypeInv' /\ LengthsMatch /\ t' = t + 1 /\ t \in Nat
  BY SelectType DEF HypothesisInv, RowInv, TypeInv, TypeOK, Select
<1> SUFFICES ASSUME NEW k \in BeamId, Live(beams'[k])
             PROVE  LET s == beams'[k].seq
                    IN  /\ beams'[k].len = Len(s)
                        /\ Open(beams'[k]) => Len(s) = t'
                        /\ \A i \in 1 .. Len(s) :
                             s[i] = EOS => i = Len(s) /\ beams'[k].ended
                        /\ beams'[k].ended => Len(s) > 0 /\ s[Len(s)] = EOS
  BY DEF LengthsMatch
<1>2. PICK c : c = top[k]
  OBVIOUS
<1>3. Successor(beams'[k], c)
  BY <1>1, <1>2, SelectedBeams
<1>4. PICK parent : parent = beams[c.parent]
  OBVIOUS
<1>5. c.parent \in BeamId /\ parent \in Beam
  BY <1>1, <1>3, <1>4 DEF Successor, TypeInv, TypeOK
<1>6. CASE /\ Finished(parent) /\ beams'[k].seq = parent.seq /\ beams'[k].ended
           /\ beams'[k].len = Carry(beams, c.parent).length
  <2>1. /\ parent.len = Len(parent.seq)
        /\ \A i \in 1 .. Len(parent.seq) : parent.seq[i] = EOS => i = Len(parent.seq)
        /\ Len(parent.seq) > 0 /\ parent.seq[Len(parent.seq)] = EOS
    BY <1>1, <1>4, <1>5, <1>6 DEF LengthsMatch, Finished
  <2>2. Len(parent.seq) \in Nat
    BY <1>5 DEF Beam
  <2>3. beams'[k].len = Len(parent.seq)
    BY <1>4, <1>6, <2>1, <2>2 DEF Carry
  <2>4. ~Open(beams'[k])
    BY <1>6 DEF Open, Finished
  <2>5. QED
    BY <1>6, <2>1, <2>3, <2>4
<1>7. CASE /\ Open(parent) /\ c.token \in Token
           /\ beams'[k].seq = Append(parent.seq, c.token)
           /\ beams'[k].len = parent.len + 1
           /\ beams'[k].ended <=> (parent.ended \/ (EOS >= 0 /\ c.token = EOS))
  <2>1. /\ ~parent.ended /\ Len(parent.seq) = t /\ parent.len = t
        /\ parent.seq \in Seq(Token) /\ \A i \in 1 .. t : parent.seq[i] # EOS
    BY <1>1, <1>4, <1>5, <1>7, OpenNotEnded
  <2>2. PICK s : s = beams'[k].seq
    OBVIOUS
  <2>3. /\ Len(s) = t + 1 /\ s[t + 1] = c.token
        /\ \A i \in 1 .. t : s[i] = parent.seq[i]
    BY <1>1, <1>7, <2>1, <2>2
  <2>4. beams'[k].ended <=> c.token = EOS
    BY <1>7, <2>1, DimensionsAssumption DEF Token
  <2>5. \A i \in 1 .. t + 1 : s[i] = EOS => i = t + 1 /\ c.token = EOS
    BY <1>1, <2>1, <2>3
  <2>6. QED
    BY <1>1, <1>7, <2>1, <2>2, <2>3, <2>4, <2>5
<1>8. QED
  BY <1>3, <1>4, <1>6, <1>7 DEF Successor

\* Equal sequences were extended from equal ones by equal tokens.
LEMMA SameExtension ==
  ASSUME NEW r \in Seq(Token), NEW s \in Seq(Token), NEW x \in Token, NEW y \in Token,
         Append(r, x) = Append(s, y)
  PROVE  r = s /\ x = y
<1>1. Len(r) \in Nat /\ Len(s) \in Nat /\ Len(r) + 1 = Len(s) + 1
  BY AppendProperties
<1>2. Len(r) = Len(s)
  BY <1>1
<1>3. ASSUME NEW i \in 1 .. Len(r) PROVE r[i] = s[i]
  <2>1. Append(r, x)[i] = r[i] /\ Append(s, y)[i] = s[i]
    BY <1>2, <1>3, AppendProperties
  <2>2. QED
    BY <2>1
<1>4. r = s
  BY <1>2, <1>3, SeqEqual
<1>5. Append(r, x)[Len(r) + 1] = x /\ Append(s, y)[Len(s) + 1] = y
  BY AppendProperties
<1>6. QED
  BY <1>2, <1>4, <1>5

\* Two selected candidates spell the same hypothesis only when they are one.
LEMMA SelectDistinct ==
  ASSUME HypothesisInv, Select
  PROVE  DistinctHypotheses'
<1>1. RowInv /\ TypeInv /\ LengthsMatch /\ DistinctHypotheses /\ t \in Nat /\ pc = "scan"
  BY DEF HypothesisInv, RowInv, TypeInv, TypeOK, Select
<1> SUFFICES ASSUME NEW j \in BeamId, NEW k \in BeamId, Live(beams'[j]), Live(beams'[k]),
                    beams'[j].seq = beams'[k].seq
             PROVE  j = k
  BY DEF DistinctHypotheses
<1>2. PICK x, y : x = top[j] /\ y = top[k]
  OBVIOUS
<1>3. /\ Successor(beams'[j], x) /\ Successor(beams'[k], y)
      /\ j \in Slot /\ k \in Slot /\ x # Placeholder
  <2>1. Placeholder.parent \notin BeamId
    BY DimensionsAssumption DEF Placeholder, BeamId
  <2>2. Successor(beams'[j], x) /\ Successor(beams'[k], y) /\ j \in Slot /\ k \in Slot
    BY <1>1, <1>2, SelectedBeams
  <2>3. QED
    BY <2>1, <2>2 DEF Successor
<1>4. PICK p, q : p = beams[x.parent] /\ q = beams[y.parent]
  OBVIOUS
<1>5. x.parent \in BeamId /\ y.parent \in BeamId /\ p \in Beam /\ q \in Beam
  BY <1>1, <1>3, <1>4 DEF Successor, TypeInv, TypeOK
<1>6. x = y => j = k
  BY <1>1, <1>2, <1>3, PAssumption DEF RowInv, NoDuplicate, Slot
<1>7. p.seq = q.seq /\ Live(p) /\ Live(q) => x.parent = y.parent
  BY <1>1, <1>4, <1>5 DEF DistinctHypotheses
<1>8. /\ Finished(p) => Live(p) /\ p.len = Len(p.seq) /\ p.len <= t
      /\ Finished(q) => Live(q) /\ q.len = Len(q.seq) /\ q.len <= t
  BY <1>1, <1>4, <1>5 DEF LengthsMatch, Finished, TypeInv
<1>9. /\ Open(p) => Live(p) /\ p.seq \in Seq(Token) /\ Len(p.seq) = t
      /\ Open(q) => Live(q) /\ q.seq \in Seq(Token) /\ Len(q.seq) = t
  BY <1>1, <1>4, <1>5, OpenNotEnded DEF Open
<1>10. CASE /\ Finished(p) /\ x = Carry(beams, x.parent) /\ beams'[j].seq = p.seq
            /\ Finished(q) /\ y = Carry(beams, y.parent) /\ beams'[k].seq = q.seq
  <2>1. Live(p) /\ Live(q) /\ p.seq = q.seq
    BY <1>8, <1>10
  <2>2. x.parent = y.parent
    BY <1>7, <2>1
  <2>3. QED
    BY <1>6, <1>10, <2>2
<1>11. CASE /\ Open(p) /\ x.token \in Token /\ x = Expand(cons, beams, rows, x.parent, x.token)
            /\ beams'[j].seq = Append(p.seq, x.token)
            /\ Open(q) /\ y.token \in Token /\ y = Expand(cons, beams, rows, y.parent, y.token)
            /\ beams'[k].seq = Append(q.seq, y.token)
  <2>1. PICK r, s, u, w : r = p.seq /\ s = q.seq /\ u = x.token /\ w = y.token
    OBVIOUS
  <2>2. r \in Seq(Token) /\ s \in Seq(Token) /\ u \in Token /\ w \in Token
    BY <1>9, <1>11, <2>1
  <2>3. Append(r, u) = Append(s, w)
    BY <1>11, <2>1, Zenon
  <2>4. r = s /\ u = w
    BY <2>2, <2>3, SameExtension
  <2>5. Live(p) /\ Live(q)
    BY <1>9, <1>11
  <2>6. x.parent = y.parent
    BY <1>7, <2>1, <2>4, <2>5
  <2>7. QED
    BY <1>6, <1>11, <2>1, <2>4, <2>6
<1>12. CASE /\ Finished(p) /\ beams'[j].seq = p.seq
            /\ Open(q) /\ y.token \in Token /\ beams'[k].seq = Append(q.seq, y.token)
  <2>1. Len(beams'[k].seq) = t + 1
    <3>1. q.seq \in Seq(Token) /\ Len(q.seq) = t /\ y.token \in Token
      BY <1>9, <1>12
    <3>2. Len(Append(q.seq, y.token)) = t + 1
      BY <3>1, AppendProperties
    <3>3. QED
      BY <1>12, <3>2
  <2>2. QED
    BY <1>1, <1>8, <1>12, <2>1
<1>13. CASE /\ Finished(q) /\ beams'[k].seq = q.seq
            /\ Open(p) /\ x.token \in Token /\ beams'[j].seq = Append(p.seq, x.token)
  <2>1. Len(beams'[j].seq) = t + 1
    <3>1. p.seq \in Seq(Token) /\ Len(p.seq) = t /\ x.token \in Token
      BY <1>9, <1>13
    <3>2. Len(Append(p.seq, x.token)) = t + 1
      BY <3>1, AppendProperties
    <3>3. QED
      BY <1>13, <3>2
  <2>2. QED
    BY <1>1, <1>8, <1>13, <2>1
<1>14. QED
  BY <1>3, <1>4, <1>10, <1>11, <1>12, <1>13 DEF Successor

\* A prefix stays what it is when a token is appended.
LEMMA PrefixOfAppend ==
  ASSUME NEW S, NEW s \in Seq(S), NEW x \in S, NEW n \in 0 .. Len(s)
  PROVE  SubSeq(Append(s, x), 1, n) = SubSeq(s, 1, n)
<1> PICK a : a = Append(s, x)
  OBVIOUS
<1>1. a \in Seq(S) /\ Len(a) = Len(s) + 1 /\ \A i \in 1 .. Len(s) : a[i] = s[i]
  BY AppendProperties
<1>2. Len(s) \in Nat /\ n \in Nat /\ n <= Len(s) /\ \A i \in 1 .. n : s[i] \in S
  BY LenProperties, ElementOfSeq
<1>3. \A i \in 1 .. n : a[i] = s[i] /\ a[i] \in S /\ 1 + i - 1 = i
  BY <1>1, <1>2
<1> PICK x1, y1 : x1 = SubSeq(a, 1, n) /\ y1 = SubSeq(s, 1, n)
  OBVIOUS
<1>4. /\ x1 \in Seq(S) /\ Len(x1) = IF 1 <= n THEN n - 1 + 1 ELSE 0
      /\ \A i \in 1 .. n - 1 + 1 : x1[i] = a[1 + i - 1]
  BY <1>2, <1>3, SubSeqProperties
<1>5. /\ y1 \in Seq(S) /\ Len(y1) = IF 1 <= n THEN n - 1 + 1 ELSE 0
      /\ \A i \in 1 .. n - 1 + 1 : y1[i] = s[1 + i - 1]
  BY <1>2, SubSeqProperties
<1>6. Len(x1) = n /\ Len(y1) = n /\ \A i \in 1 .. n : x1[i] = y1[i]
  BY <1>2, <1>3, <1>4, <1>5
<1>7. x1 = y1
  BY <1>4, <1>5, <1>6, SeqEqual
<1> QED  BY <1>7

\* What the scan checks of one token at a time holds of the whole hypothesis.
LEMMA SelectConstraints ==
  ASSUME HypothesisInv, Select
  PROVE  ConstraintsHonoured'
<1>1. /\ RowInv /\ TypeInv /\ LengthsMatch /\ ConstraintsHonoured /\ t \in Nat
      /\ cons' = cons /\ cons \in Constraint
  BY ConstraintAssumption DEF HypothesisInv, RowInv, TypeInv, TypeOK, Select
<1> SUFFICES ASSUME NEW k \in BeamId, Live(beams'[k])
             PROVE  LET s == beams'[k].seq
                    IN  /\ \A i \in 1 .. Len(s) :
                             /\ s[i] \notin cons.banned
                             /\ <<i - 1, SubSeq(s, 1, i - 1), s[i]>> \notin cons.rejects
                             /\ cons.forced[i - 1] >= 0 => s[i] = cons.forced[i - 1]
                        /\ Finished(beams'[k]) => Len(s) >= EffectiveMinLength(cons)
                        /\ cons.ngram > 0 => NoNgramTwice(s, cons.ngram)
  BY <1>1 DEF ConstraintsHonoured
<1>2. PICK c : c = top[k]
  OBVIOUS
<1>3. Successor(beams'[k], c)
  BY <1>1, <1>2, SelectedBeams
<1>4. PICK parent : parent = beams[c.parent]
  OBVIOUS
<1>5. c.parent \in BeamId /\ parent \in Beam
  BY <1>1, <1>3, <1>4 DEF Successor, TypeInv, TypeOK
<1>6. Live(parent) =>
        /\ \A i \in 1 .. Len(parent.seq) :
             /\ parent.seq[i] \notin cons.banned
             /\ <<i - 1, SubSeq(parent.seq, 1, i - 1), parent.seq[i]>> \notin cons.rejects
             /\ cons.forced[i - 1] >= 0 => parent.seq[i] = cons.forced[i - 1]
        /\ Finished(parent) => Len(parent.seq) >= EffectiveMinLength(cons)
        /\ cons.ngram > 0 => NoNgramTwice(parent.seq, cons.ngram)
  BY <1>1, <1>4, <1>5 DEF ConstraintsHonoured
<1>7. CASE Finished(parent) /\ beams'[k].seq = parent.seq
  BY <1>6, <1>7 DEF Finished
<1>8. CASE /\ Open(parent) /\ c.token \in Token
           /\ Allowed(cons, t, parent, c.token)
           /\ beams'[k].seq = Append(parent.seq, c.token)
           /\ beams'[k].ended <=> (parent.ended \/ (EOS >= 0 /\ c.token = EOS))
  <2>1. /\ ~parent.ended /\ Len(parent.seq) = t /\ parent.len = t
        /\ parent.seq \in Seq(Token) /\ Live(parent)
    BY <1>1, <1>4, <1>5, <1>8, OpenNotEnded DEF Open
  <2>2. PICK s : s = beams'[k].seq
    OBVIOUS
  <2>3. /\ Len(s) = t + 1 /\ s[t + 1] = c.token
        /\ \A i \in 1 .. t : s[i] = parent.seq[i]
    BY <1>1, <1>8, <2>1, <2>2
  <2>4. /\ cons.forced[t] < 0 \/ c.token = cons.forced[t]
        /\ c.token \notin cons.banned /\ <<t, parent.seq, c.token>> \notin cons.rejects
        /\ ~(c.token = EOS /\ TooShortToEnd(cons, parent))
        /\ ~RepeatsNgram(parent.seq, c.token, cons.ngram)
    BY <1>8 DEF Allowed
  <2>5. ASSUME NEW i \in 1 .. Len(s)
        PROVE  /\ s[i] \notin cons.banned
               /\ <<i - 1, SubSeq(s, 1, i - 1), s[i]>> \notin cons.rejects
               /\ cons.forced[i - 1] >= 0 => s[i] = cons.forced[i - 1]
    <3>1. CASE i \in 1 .. t
      <4>1. i - 1 \in 0 .. t /\ s[i] = parent.seq[i]
        BY <1>1, <2>3, <3>1
      <4>2. SubSeq(s, 1, i - 1) = SubSeq(parent.seq, 1, i - 1)
        BY <1>8, <2>1, <2>2, <4>1, PrefixOfAppend
      <4> QED  BY <1>6, <2>1, <3>1, <4>1, <4>2
    <3>2. CASE i = t + 1
      <4>1. cons.forced[i - 1] = cons.forced[t] /\ s[i] = c.token
        BY <1>1, <2>3, <3>2
      <4>2. t < T
        BY DEF HypothesisInv, RowInv, TypeInv, TypeOK, Select
      <4>3. cons.forced[t] \in Int
        BY <1>1, <4>2, DimensionsAssumption DEF Constraint
      <4>4. i - 1 = t /\ SubSeq(s, 1, i - 1) = parent.seq
        <5>1. i - 1 = t /\ t \in 0 .. t
          BY <1>1, <3>2
        <5>2. SubSeq(s, 1, t) = SubSeq(parent.seq, 1, t)
          BY <1>8, <2>1, <2>2, <5>1, PrefixOfAppend
        <5>3. SubSeq(parent.seq, 1, t) = parent.seq
          BY <2>1, SubSeqFull
        <5> QED  BY <5>1, <5>2, <5>3
      <4>5. <<i - 1, SubSeq(s, 1, i - 1), s[i]>> = <<t, parent.seq, c.token>>
        BY <4>1, <4>4
      <4>6. s[i] \notin cons.banned /\ <<i - 1, SubSeq(s, 1, i - 1), s[i]>> \notin cons.rejects
        BY <2>4, <4>1, <4>5, Zenon
      <4>7. cons.forced[i - 1] >= 0 => s[i] = cons.forced[i - 1]
        BY <2>4, <4>1, <4>3
      <4> QED  BY <4>6, <4>7
    <3>3. QED
      BY <1>1, <2>3, <3>1, <3>2
  <2>6. Finished(beams'[k]) => Len(s) >= EffectiveMinLength(cons)
    <3>1. EffectiveMinLength(cons) \in Int
      BY <1>1, OptionsAssumption DEF EffectiveMinLength, Constraint
    <3>2. QED
      BY <1>1, <1>8, <2>1, <2>3, <2>4, <3>1 DEF Finished, TooShortToEnd
  <2>7. cons.ngram > 0 => NoNgramTwice(s, cons.ngram)
    <3>1. cons.ngram \in Nat
      BY <1>1 DEF Constraint
    <3>2. QED
      BY <1>6, <1>8, <2>1, <2>2, <2>4, <3>1, NgramAppended
  <2>8. QED
    BY <2>2, <2>5, <2>6, <2>7
<1>9. QED
  BY <1>3, <1>4, <1>7, <1>8 DEF Successor

\* The decoder starts with one empty hypothesis.
LEMMA InitHypothesis == Init => HypothesisInv
<1> SUFFICES ASSUME Init PROVE HypothesisInv
  OBVIOUS
<1>1. RowInv /\ beams = InitialBeams /\ t = 0 /\ cons \in Constraint
  BY InitRow, ConstraintAssumption DEF Init
<1>2. \A k \in BeamId : beams[k].seq = << >> /\ beams[k].len = 0 /\ beams[k].ended = FALSE
  BY <1>1 DEF InitialBeams, DeadBeam
<1>3. \A k \in BeamId : Live(beams[k]) => k = 0
  BY <1>1, InfAssumption DEF InitialBeams, DeadBeam, Live, IsFinite
<1>4. Len(<< >>) = 0 /\ 1 .. 0 = {}
  OBVIOUS
<1>5. LengthsMatch
  BY <1>1, <1>2, <1>4 DEF LengthsMatch
<1>6. DistinctHypotheses
  BY <1>3 DEF DistinctHypotheses
<1>7. ConstraintsHonoured
  <2>1. \A n \in Nat : n > 0 => 1 .. 0 - n + 1 = {}
    OBVIOUS
  <2>2. \A n \in Nat : n > 0 => NoNgramTwice(<< >>, n)
    BY <1>4, <2>1 DEF NoNgramTwice
  <2>3. cons.ngram \in Nat /\ \A k \in BeamId : ~Finished(beams[k])
    BY <1>1, <1>2 DEF Finished, Constraint
  <2>4. QED
    BY <1>2, <1>4, <2>2, <2>3 DEF ConstraintsHonoured
<1>8. QED
  BY <1>1, <1>5, <1>6, <1>7 DEF HypothesisInv

\* Only the selection touches the hypotheses.
LEMMA ScanKeepsBeams ==
  (BeginStep \/ SkipDead \/ CarryFinished \/ ScanToken \/ UNCHANGED vars) =>
    UNCHANGED <<cons, t, beams>>
BY DEF BeginStep, SkipDead, CarryFinished, ScanToken, NextRow, vars

LEMMA HypothesisStep == HypothesisInv /\ [Next]_vars => HypothesisInv'
<1> SUFFICES ASSUME HypothesisInv, [Next]_vars PROVE HypothesisInv'
  OBVIOUS
<1>1. RowInv'
  BY RowStep DEF HypothesisInv
<1>2. CASE Select
  BY <1>1, <1>2, SelectLengths, SelectDistinct, SelectConstraints DEF HypothesisInv
<1>3. CASE UNCHANGED <<cons, t, beams>>
  BY <1>1, <1>3
     DEF HypothesisInv, LengthsMatch, DistinctHypotheses, ConstraintsHonoured
<1>4. QED
  BY <1>2, <1>3, ScanKeepsBeams DEF Next

LEMMA HypothesisInvariant == Spec => []HypothesisInv
BY InitHypothesis, HypothesisStep, PTL DEF Spec

\* Whatever is dropped, no two live beams ever hold the same hypothesis.
THEOREM DecodeDistinctHypotheses == Spec => []DistinctHypotheses
<1>1. HypothesisInv => DistinctHypotheses
  BY DEF HypothesisInv
<1>2. QED
  BY <1>1, HypothesisInvariant, PTL

\* The length a beam is ranked by is the length of its hypothesis, and the end
\* token is exactly what closes one.
THEOREM DecodeLengthsMatch == Spec => []LengthsMatch
<1>1. HypothesisInv => LengthsMatch
  BY DEF HypothesisInv
<1>2. QED
  BY <1>1, HypothesisInvariant, PTL

\* Every hypothesis that comes out respects every constraint of the call.
THEOREM DecodeConstraintsHonoured == Spec => []ConstraintsHonoured
<1>1. HypothesisInv => ConstraintsHonoured
  BY DEF HypothesisInv
<1>2. QED
  BY <1>1, HypothesisInvariant, PTL

\* A finished hypothesis is carried unchanged, raw score included, to the end.
THEOREM DecodeFinishedFrozen == Spec => FinishedFrozen
<1> DEFINE Frozen ==
      \A k \in BeamId : Finished(beams'[k]) =>
        \E j \in BeamId :
          \/ /\ Finished(beams[j])
             /\ beams'[k].seq = beams[j].seq
             /\ beams'[k].raw = beams[j].raw
          \/ Open(beams[j]) /\ beams'[k].seq = Append(beams[j].seq, EOS)
<1>1. ASSUME HypothesisInv, [Next]_vars PROVE [Frozen]_vars
  <2>1. CASE Select
    <3> SUFFICES ASSUME NEW k \in BeamId, Finished(beams'[k])
                 PROVE  \E j \in BeamId :
                          \/ /\ Finished(beams[j])
                             /\ beams'[k].seq = beams[j].seq
                             /\ beams'[k].raw = beams[j].raw
                          \/ Open(beams[j]) /\ beams'[k].seq = Append(beams[j].seq, EOS)
      OBVIOUS
    <3>1. Successor(beams'[k], top[k])
      BY <1>1, <2>1, SelectedBeams DEF HypothesisInv, Finished
    <3>2. PICK j \in BeamId : j = top[k].parent
      BY <3>1 DEF Successor
    <3>3. CASE /\ Finished(beams[j])
               /\ beams'[k].seq = beams[j].seq /\ beams'[k].raw = beams[j].raw
      BY <3>3
    <3>4. CASE /\ Open(beams[j]) /\ beams'[k].seq = Append(beams[j].seq, top[k].token)
               /\ beams'[k].ended <=>
                    (beams[j].ended \/ (EOS >= 0 /\ top[k].token = EOS))
      <4>1. ~beams[j].ended /\ beams'[k].ended
        BY <1>1, <3>4, OpenNotEnded DEF HypothesisInv, RowInv, Finished
      <4>2. QED
        BY <3>4, <4>1
    <3>5. QED
      BY <3>1, <3>2, <3>3, <3>4 DEF Successor
  <2>2. CASE UNCHANGED <<cons, t, beams>>
    BY <2>2
  <2>3. QED
    BY <1>1, <2>1, <2>2, ScanKeepsBeams DEF Next
<1>2. QED
  BY <1>1, HypothesisInvariant, PTL DEF Spec, FinishedFrozen
-----------------------------------------------------------------------------
(***************************************************************************)
(* Beam search.  decode_constrained implements it whenever its scan is     *)
(* exact: with the scalar kernel always, and with a vector kernel as long  *)
(* as the ranking score is the raw score (length_penalty_alpha = 0).       *)
(***************************************************************************)

\* Without a length penalty the ranking score is the raw score.
RankIsRaw ==
  \A raw \in Score, n \in 1 .. T : Rank(raw, n) = raw /\ CarryRank(raw, n) = raw

\* When the strict threshold test of a vector kernel cannot drop a tie.
ExactScan == Width = 1 \/ RankIsRaw

(***************************************************************************)
(* The pool invariant.  A threshold read before a vector is no higher than *)
(* the last slot is now, because insertions only improve that slot.        *)
(***************************************************************************)
PoolInv ==
  /\ TypeInv
  /\ PoolHoldsBest
  /\ pc = "scan" => thr <= top[P - 1].score

-----------------------------------------------------------------------------
\* Inserting never lowers the score of the last slot.
LEMMA LastSlotImproves ==
  ASSUME top \in Buffer, NEW S, HoldsBest(top, P, S), NEW c \in Candidate
  PROVE  top[P - 1].score <= Insert(top, c)[P - 1].score
<1>0. P \in Nat \ {0} /\ P - 1 \in Slot /\ top[P - 1] \in Candidate
  BY PAssumption DEF Buffer, Slot
<1>1. CASE Better(c, top[P - 1])
  <2>1. PICK pos \in Slot : Insert(top, c) = ShiftIn(top, c, pos)
    BY <1>1, SomeFirstBeaten DEF Insert
  <2>2. CASE pos = P - 1
    <3>1. Insert(top, c)[P - 1] = c
      BY <1>0, <2>1, <2>2 DEF ShiftIn
    <3>2. c.score \in Int /\ top[P - 1].score \in Int
      BY <1>0, CandidateFields
    <3>3. QED
      BY <1>1, <3>1, <3>2 DEF Better
  <2>3. CASE pos # P - 1
    <3>1. P - 2 \in Slot /\ Insert(top, c)[P - 1] = top[P - 2]
      BY <1>0, <2>1, <2>3 DEF ShiftIn, Slot
    <3>2. ~Better(top[P - 1], top[P - 2]) /\ top[P - 2] \in Candidate
      BY <3>1, <1>0 DEF HoldsBest, Sorted, Slot, Buffer
    <3>3. top[P - 1].score \in Int /\ top[P - 2].score \in Int
      BY <1>0, <3>2, CandidateFields
    <3>4. QED
      BY <3>1, <3>2, <3>3 DEF Better
  <2>4. QED
    BY <2>2, <2>3
<1>2. CASE ~Better(c, top[P - 1])
  <2>1. top[P - 1].score \in Int
    BY <1>0, CandidateFields
  <2>2. QED
    BY <1>2, <2>1 DEF Insert
<1>3. QED
  BY <1>1, <1>2

-----------------------------------------------------------------------------
\* Without a length penalty a candidate is ranked by its raw score.
LEMMA RankedByRaw ==
  ASSUME RankIsRaw, TypeInv, t < T, NEW d \in Scanned \cup {Placeholder}
  PROVE  d.score = d.raw
<1>1. CASE d = Placeholder
  BY <1>1 DEF Placeholder
<1>2. CASE d \in Scanned
  <2>1. PICK k \in BeamId : \/ d = Carry(beams, k)
                            \/ \E u \in Token : d = Expand(cons, beams, rows, k, u)
    BY <1>2, ScannedLegal
  <2>2. beams[k].len \in 0 .. t /\ t \in 0 .. T /\ T \in Nat \ {0}
    BY DimensionsAssumption DEF TypeInv, TypeOK, Beam
  <2>3. d.raw \in Score
    BY <1>2, ScannedLegal, CandidateFields
  <2>4. CASE d = Carry(beams, k)
    <3> DEFINE len == IF beams[k].len < 1 THEN 1 ELSE beams[k].len
    <3>1. len \in 1 .. T
      BY <2>2
    <3>2. d.raw = beams[k].raw /\ d.score = CarryRank(beams[k].raw, len)
      BY <2>4 DEF Carry
    <3> HIDE DEF len
    <3>3. QED
      BY <2>3, <3>1, <3>2 DEF RankIsRaw
  <2>5. ASSUME NEW u \in Token, d = Expand(cons, beams, rows, k, u)
        PROVE  d.score = d.raw
    <3> DEFINE len == beams[k].len + 1
    <3>1. len \in 1 .. T
      BY <2>2
    <3>2. d.score = Rank(d.raw, len)
      BY <2>5 DEF Expand
    <3> HIDE DEF len
    <3>3. QED
      BY <2>3, <3>1, <3>2 DEF RankIsRaw
  <2>6. QED
    BY <2>1, <2>4, <2>5
<1>3. QED
  BY <1>1, <1>2

\* A candidate a vector drops for not exceeding the threshold would not have
\* entered the buffer: it ties with the last slot at best, and loses the tie.
LEMMA DroppedLoses ==
  ASSUME ExactScan, PoolInv, pc = "scan", b < K, t < T, Open(beams[b]), InVector,
         ~(Expand(cons, beams, rows, b, v).score > Threshold)
  PROVE  ~Better(Expand(cons, beams, rows, b, v), top[P - 1])
<1> USE DEF PoolInv, TypeInv, TypeOK
<1> DEFINE c == Expand(cons, beams, rows, b, v)
           d == top[P - 1]
<1>1. b \in BeamId /\ v \in Token /\ b \in Int /\ v \in Int
  BY DimensionsAssumption DEF BeamId, Token
<1>2. c \in Candidate /\ d \in Candidate
  BY <1>1, ExpandProper, PAssumption DEF Slot, Buffer
<1>3. /\ c.score \in Int /\ c.raw \in Int /\ d.score \in Int /\ d.raw \in Int
      /\ c.raw \in Score /\ d.raw \in Score
      /\ d.parent \in Int /\ d.token \in Int
  BY <1>2, CandidateFields
<1>4. thr \in Int /\ thr <= d.score
  BY DEF Score
<1>5. c.score <= d.score
  BY <1>3, <1>4 DEF Threshold
<1>6. c.parent = b /\ c.token = v
  BY DEF Expand
<1>7. RankIsRaw
  BY KernelAssumption DEF ExactScan, InVector, VectorRow
<1>8. c.score = c.raw
  <2>1. beams[b].len + 1 \in 1 .. T
    BY <1>1, DimensionsAssumption DEF Beam
  <2>2. c.score = Rank(c.raw, beams[b].len + 1)
    BY DEF Expand
  <2>3. QED
    BY <1>3, <1>7, <2>1, <2>2 DEF RankIsRaw
<1>9. d \in Scanned \cup {Placeholder}
  BY PAssumption DEF PoolHoldsBest, HoldsBest, OnlyFrom
<1>10. d.score = d.raw
  BY <1>7, <1>9, RankedByRaw
<1>11. d.parent < b \/ (d.parent = b /\ d.token < v)
  <2>1. CASE d = Placeholder
    BY <1>1, <2>1 DEF Placeholder, BeamId
  <2>2. CASE d \in Scanned
    BY <2>2, ScannedOrigin
  <2>3. QED
    BY <1>9, <2>1, <2>2
<1>12. QED
  BY <1>1, <1>3, <1>5, <1>6, <1>8, <1>10, <1>11 DEF Better

-----------------------------------------------------------------------------
\* Before the first step nothing is scanned and the pool is empty.
LEMMA InitPool == Init => PoolInv
BY InitTypeInv DEF Init, PoolInv, PoolHoldsBest

\* A step starts with an empty pool and nothing scanned.
LEMMA BeginStepPool == PoolInv /\ BeginStep => PoolInv'
<1> SUFFICES ASSUME PoolInv, BeginStep PROVE PoolInv'
  OBVIOUS
<1>1. TypeInv' /\ top' = EmptyBuffer /\ Scanned' = {}
  BY BeginStepType, BeginPasses DEF PoolInv
<1>2. HoldsBest(top', P, Scanned')
  BY <1>1, EmptyHoldsBest
<1>3. thr' <= top'[P - 1].score
  BY <1>1, PAssumption, InfAssumption DEF BeginStep, EmptyBuffer, Placeholder, Slot
<1>4. QED
  BY <1>1, <1>2, <1>3 DEF PoolInv, PoolHoldsBest

\* A dead beam offers no candidate.
LEMMA SkipDeadPool == PoolInv /\ SkipDead => PoolInv'
<1> SUFFICES ASSUME PoolInv, SkipDead PROVE PoolInv'
  OBVIOUS
<1>1. TypeInv' /\ TypeInv /\ UNCHANGED <<top, thr, pc>>
  BY SkipDeadType DEF PoolInv, SkipDead, NextRow
<1>2. Scanned' = Scanned
  BY <1>1, DeadPasses
<1>3. QED
  BY <1>1, <1>2 DEF PoolInv, PoolHoldsBest

\* A finished beam offers its carry, and the pool takes it if it is good enough.
LEMMA CarryFinishedPool == PoolInv /\ CarryFinished => PoolInv'
<1> SUFFICES ASSUME PoolInv, CarryFinished PROVE PoolInv'
  OBVIOUS
<1> DEFINE c == Carry(beams, b)
<1>1. TypeInv' /\ TypeInv /\ UNCHANGED <<thr, pc>> /\ t < T /\ pc = "scan"
  BY CarryFinishedType DEF PoolInv, CarryFinished, NextRow, TypeInv, TypeOK
<1>2. top \in Buffer
  BY <1>1 DEF TypeInv, TypeOK
<1>3. /\ c \in Candidate /\ Scanned \subseteq Candidate /\ c \notin Scanned
      /\ Scanned' = Scanned \cup {c}
  BY <1>1, CarryPasses
<1>4. HoldsBest(top, P, Scanned) /\ thr <= top[P - 1].score
  BY <1>1 DEF PoolInv, PoolHoldsBest
<1>5. top' = Insert(top, c)
  BY DEF CarryFinished
<1> HIDE DEF c
<1>6. HoldsBest(top', P, Scanned')
  BY <1>2, <1>3, <1>4, <1>5, InsertKeepsBest
<1>7. thr' <= top'[P - 1].score
  <2>1. top[P - 1].score <= top'[P - 1].score
    BY <1>2, <1>3, <1>4, <1>5, LastSlotImproves
  <2>2. thr \in Int /\ top[P - 1].score \in Int /\ top'[P - 1].score \in Int
    BY <1>1, PAssumption, CandidateFields DEF TypeInv, TypeOK, Buffer, Slot, Score
  <2>3. QED
    BY <1>1, <1>4, <2>1, <2>2
<1>8. QED
  BY <1>1, <1>6, <1>7 DEF PoolInv, PoolHoldsBest

\* A scanned token enters the pool if it is good enough, and never when the
\* threshold of a vector kernel turns it away.
LEMMA ScanTokenPool ==
  ASSUME ExactScan
  PROVE  PoolInv /\ ScanToken => PoolInv'
<1> SUFFICES ASSUME PoolInv, ScanToken PROVE PoolInv'
  OBVIOUS
<1> DEFINE c == Expand(cons, beams, rows, b, v)
<1>1. TypeInv' /\ TypeInv /\ t < T /\ pc = "scan" /\ b < K /\ Open(beams[b])
  BY ScanTokenType DEF PoolInv, ScanToken, TypeInv, TypeOK
<1>2. top \in Buffer
  BY <1>1 DEF TypeInv, TypeOK
<1>3. /\ c \in Candidate /\ Scanned \subseteq Candidate /\ c \notin Scanned
      /\ Scanned' = Scanned \cup (IF Proposes(cons, t, beams, rows, b, v)
                                  THEN {c} ELSE {})
  BY <1>1, TokenPasses
<1>4. HoldsBest(top, P, Scanned) /\ thr <= top[P - 1].score
  BY <1>1 DEF PoolInv, PoolHoldsBest
<1>5. HoldsBest(top', P, Scanned') /\ top[P - 1].score <= top'[P - 1].score
  <2>0. top[P - 1].score \in Int
    BY <1>2, PAssumption, CandidateFields DEF Buffer, Slot
  <2>1. CASE ~Proposes(cons, t, beams, rows, b, v)
    BY <1>3, <1>4, <2>0, <2>1 DEF ScanToken
  <2>2. CASE Proposes(cons, t, beams, rows, b, v) /\ (InVector => c.score > Threshold)
    <3>1. top' = Insert(top, c)
      BY <2>2 DEF ScanToken
    <3> HIDE DEF c
    <3>2. QED
      BY <1>2, <1>3, <1>4, <2>2, <3>1, InsertKeepsBest, LastSlotImproves
  <2>3. CASE Proposes(cons, t, beams, rows, b, v) /\ ~(InVector => c.score > Threshold)
    <3>1. top' = top
      BY <2>3 DEF ScanToken
    <3>2. ~Better(c, top[P - 1])
      BY <1>1, <2>3, DroppedLoses
    <3> HIDE DEF c
    <3>3. QED
      BY <1>3, <1>4, <2>0, <2>3, <3>1, <3>2, SkipKeepsBest
  <2>4. QED
    BY <2>1, <2>2, <2>3
<1>6. thr' <= top'[P - 1].score
  <2>1. thr \in Int /\ top[P - 1].score \in Int
        /\ top'[P - 1].score \in Int /\ NegInf <= top'[P - 1].score
    BY <1>1, PAssumption, CandidateFields DEF TypeInv, TypeOK, Buffer, Slot, Score
  <2>2. Threshold <= top[P - 1].score /\ Threshold \in Int
    BY <1>4, <2>1 DEF Threshold
  <2>3. thr' = Threshold \/ thr' = NegInf
    BY DEF ScanToken
  <2>4. QED
    BY <1>5, <2>1, <2>2, <2>3, InfAssumption
<1>7. QED
  BY <1>1, <1>5, <1>6 DEF PoolInv, PoolHoldsBest

\* After the selection the next step has not begun.
LEMMA SelectPool == PoolInv /\ Select => PoolInv'
BY SelectType DEF PoolInv, PoolHoldsBest, Select

\* The pool invariant holds in every reachable state.
LEMMA PoolInvariant ==
  ASSUME ExactScan
  PROVE  Spec => []PoolInv
<1>1. ASSUME PoolInv, UNCHANGED vars PROVE PoolInv'
  BY <1>1 DEF vars, PoolInv, PoolHoldsBest, TypeInv, TypeOK, Proper, Scanned
<1>2. PoolInv /\ [Next]_vars => PoolInv'
  BY <1>1, BeginStepPool, SkipDeadPool, CarryFinishedPool, ScanTokenPool, SelectPool
     DEF Next
<1>3. QED
  BY <1>2, InitPool, PTL DEF Spec

\* With an exact scan the buffer is, at every point of a step, the sorted
\* list of the best P of the continuations passed so far.
THEOREM DecodePoolHoldsBest ==
  ASSUME ExactScan
  PROVE  Spec => []PoolHoldsBest
<1>1. PoolInv => PoolHoldsBest
  BY DEF PoolInv
<1>2. QED
  BY <1>1, PoolInvariant, PTL

-----------------------------------------------------------------------------
\* The first slots of a buffer that holds the best P hold the best K.
LEMMA PrefixHoldsBest ==
  ASSUME top \in Buffer, NEW S, S \subseteq Candidate, HoldsBest(top, P, S)
  PROVE  HoldsBest([k \in BeamId |-> top[k]], K, S)
<1> DEFINE row == [k \in BeamId |-> top[k]]
<1>0. /\ K \in Nat \ {0} /\ P \in Nat \ {0} /\ K <= P
      /\ BeamId = 0 .. K - 1 /\ \A k \in 0 .. K - 1 : k \in 0 .. P - 1 /\ row[k] = top[k]
      /\ \A k \in 0 .. P - 1 : top[k] \in Candidate
  BY DimensionsAssumption, PAssumption DEF BeamId, Buffer, Slot
<1>1. Sorted(row, K) /\ OnlyFrom(row, K, S) /\ NoDuplicate(row, K)
  BY <1>0 DEF HoldsBest, Sorted, OnlyFrom, NoDuplicate
<1>2. NothingBetterLeftOut(row, K, S)
  <2> SUFFICES ASSUME NEW c \in S, Better(c, row[K - 1])
               PROVE  \E k \in 0 .. K - 1 : row[k] = c
    BY DEF NothingBetterLeftOut
  <2>1. row[K - 1] = top[K - 1] /\ K - 1 \in 0 .. P - 1 /\ P - 1 \in 0 .. P - 1
        /\ c \in Candidate
    BY <1>0
  <2>2. ~Better(top[P - 1], top[K - 1])
    BY <1>0, <2>1, BetterAsymmetric DEF HoldsBest, Sorted
  <2>3. Better(c, top[P - 1])
    BY <1>0, <2>1, <2>2, BetterWeakTransitive
  <2>4. PICK k \in 0 .. P - 1 : top[k] = c
    BY <2>3 DEF HoldsBest, NothingBetterLeftOut
  <2>5. k < K
    <3>1. CASE K - 1 < k
      BY <1>0, <2>1, <2>4, <3>1 DEF HoldsBest, Sorted
    <3>2. CASE k = K - 1
      BY <1>0, <2>1, <2>4, <3>2, BetterAsymmetric
    <3>3. QED
      BY <1>0, <3>1, <3>2
  <2>6. QED
    BY <1>0, <2>4, <2>5
<1>3. QED
  BY <1>1, <1>2 DEF HoldsBest

\* At the end of the scan every continuation has been passed.
LEMMA ScanComplete ==
  ASSUME TypeInv, b = K
  PROVE  Scanned = Continuations(cons, t, beams, rows)
BY DimensionsAssumption DEF Scanned, Continuations, BeamId

\* The selection a step makes is one that beam search allows.
LEMMA SelectIsBest ==
  ASSUME PoolInv, Select
  PROVE  LET all == Continuations(cons, t, beams, rows)
             row == [k \in BeamId |-> top[k]]
         IN  /\ row \in [BeamId -> all \cup {Placeholder}]
             /\ HoldsBest(row, K, all)
             /\ beams' = Advance(beams, row)
<1> DEFINE all == Continuations(cons, t, beams, rows)
           row == [k \in BeamId |-> top[k]]
<1>1. top \in Buffer /\ t < T /\ TypeInv /\ pc = "scan" /\ b = K
  BY DEF PoolInv, TypeInv, TypeOK, Select
<1>2. Scanned = all /\ Scanned \subseteq Candidate
  BY <1>1, ScanComplete, ScannedOrigin
<1>3. HoldsBest(top, P, all)
  BY <1>1, <1>2 DEF PoolInv, PoolHoldsBest
<1>4. HoldsBest(row, K, all)
  BY <1>1, <1>2, <1>3, PrefixHoldsBest
<1>5. row \in [BeamId -> all \cup {Placeholder}]
  <2>1. \A k \in BeamId : k \in 0 .. P - 1
    BY DimensionsAssumption, PAssumption DEF BeamId
  <2>2. QED
    BY <1>3, <2>1 DEF HoldsBest, OnlyFrom
<1>6. beams' = Advance(beams, row)
  BY DEF Select
<1>7. QED
  BY <1>4, <1>5, <1>6

\* The abstract module's vocabulary is this module's own.
LEMMA SameVocabulary ==
  /\ \A c, n, bs, rs : Abstract!Continuations(c, n, bs, rs) = Continuations(c, n, bs, rs)
  /\ \A row, n, S : Abstract!HoldsBest(row, n, S) = HoldsBest(row, n, S)
  /\ \A bs, row : Abstract!Advance(bs, row) = Advance(bs, row)
  /\ \A bs : Abstract!Rows(bs) = Rows(bs)
  /\ Abstract!InitialBeams = InitialBeams
  /\ Abstract!BeamId = BeamId /\ Abstract!Token = Token
  /\ Abstract!Placeholder = Placeholder
<1>1. Abstract!BeamId = BeamId /\ Abstract!Token = Token
      /\ Abstract!Placeholder = Placeholder /\ Abstract!DeadBeam = DeadBeam
  BY DEF BeamId, Abstract!BeamId, Token, Abstract!Token, Placeholder,
         Abstract!Placeholder, DeadBeam, Abstract!DeadBeam
<1>2. \A row, n, S : Abstract!HoldsBest(row, n, S) = HoldsBest(row, n, S)
  BY DEF Better, Abstract!Better, HoldsBest, Abstract!HoldsBest, Sorted,
         Abstract!Sorted, OnlyFrom, Abstract!OnlyFrom, NoDuplicate,
         Abstract!NoDuplicate, NothingBetterLeftOut, Abstract!NothingBetterLeftOut,
         Placeholder, Abstract!Placeholder
<1>3. \A bs, row : Abstract!Advance(bs, row) = Advance(bs, row)
  BY DEF Advance, Abstract!Advance, NextBeam, Abstract!NextBeam, BeamId,
         Abstract!BeamId, DeadBeam, Abstract!DeadBeam
<1>4. \A bs : Abstract!Rows(bs) = Rows(bs)
  BY DEF Rows, Abstract!Rows, IsFinite, Abstract!IsFinite, Live, Abstract!Live,
         Finished, Abstract!Finished, Open, Abstract!Open, BeamId, Abstract!BeamId,
         Token, Abstract!Token
<1>5. Abstract!InitialBeams = InitialBeams
  BY DEF InitialBeams, Abstract!InitialBeams, BeamId, Abstract!BeamId, DeadBeam,
         Abstract!DeadBeam
<1>6. \A c, n, bs, rs, k, m :
         Abstract!Proposals(c, n, bs, rs, k, m) = Proposals(c, n, bs, rs, k, m)
  BY DEF Proposals, Abstract!Proposals, Proposes, Abstract!Proposes, IsFinite,
         Abstract!IsFinite, Live, Abstract!Live, Finished, Abstract!Finished,
         Carry, Abstract!Carry, Allowed, Abstract!Allowed, TooShortToEnd,
         Abstract!TooShortToEnd, EffectiveMinLength, Abstract!EffectiveMinLength,
         RepeatsNgram, Abstract!RepeatsNgram, ContainsToken, Abstract!ContainsToken,
         Expand, Abstract!Expand, FloatAdd, Abstract!FloatAdd, Penalised,
         Abstract!Penalised
<1>7. \A c, n, bs, rs : Abstract!Continuations(c, n, bs, rs) = Continuations(c, n, bs, rs)
  BY <1>1, <1>6 DEF Continuations, Abstract!Continuations
<1>8. QED
  BY <1>1, <1>2, <1>3, <1>4, <1>5, <1>7, Zenon

\* Every step of the decoder is a step of beam search or invisible to it: the
\* loops over beams and tokens, the buffer and (with an exact scan) the vector
\* kernels together pick the best K of all legal continuations.
THEOREM DecodeImplementsBeamSearch ==
  ASSUME ExactScan
  PROVE  Spec => ImplementsBeamSearch
<1>1. Init => Abstract!Init
  BY SameVocabulary DEF Init, Abstract!Init
<1>2. ASSUME PoolInv, [Next]_vars PROVE [Abstract!Next]_(Abstract!vars)
  <2>1. CASE UNCHANGED vars
    BY <2>1 DEF vars, Abstract!vars
  <2>2. CASE BeginStep
    <3>1. t < T
      BY <1>2, <2>2 DEF PoolInv, TypeInv, TypeOK, BeginStep
    <3>2. Abstract!Feed
      BY <2>2, <3>1, SameVocabulary DEF BeginStep, Abstract!Feed
    <3>3. QED
      BY <3>2 DEF Abstract!Next
  <2>3. CASE SkipDead
    BY <2>3 DEF SkipDead, NextRow, Abstract!vars
  <2>4. CASE CarryFinished
    BY <2>4 DEF CarryFinished, NextRow, Abstract!vars
  <2>5. CASE ScanToken
    BY <2>5 DEF ScanToken, NextRow, Abstract!vars
  <2>6. CASE Select
    <3> DEFINE all == Continuations(cons, t, beams, rows)
               row == [k \in BeamId |-> top[k]]
    <3>1. /\ row \in [BeamId -> all \cup {Placeholder}]
          /\ HoldsBest(row, K, all)
          /\ beams' = Advance(beams, row)
      BY <1>2, <2>6, SelectIsBest
    <3>2. /\ pc = "scan" /\ pc' # "scan" /\ t' = t + 1
          /\ UNCHANGED <<cons, rows>>
      BY <2>6 DEF Select
    <3> HIDE DEF all, row
    <3>3. \E r \in [BeamId -> all \cup {Placeholder}] :
            HoldsBest(r, K, all) /\ beams' = Advance(beams, r)
      BY <3>1
    <3>4. Abstract!Select
      BY <3>2, <3>3, SameVocabulary, Zenon DEF Abstract!Select, all
    <3>5. QED
      BY <3>4 DEF Abstract!Next
  <2>7. QED
    BY <1>2, <2>1, <2>2, <2>3, <2>4, <2>5, <2>6 DEF Next
<1>3. QED
  BY <1>1, <1>2, PoolInvariant, PTL
     DEF Spec, ImplementsBeamSearch, Abstract!Spec

-----------------------------------------------------------------------------
(***************************************************************************)
(* The order check.  Every selected row is sorted by Better; the validator *)
(* compares scores, parents and tokens only, which is the same as long as  *)
(* the raw scores Better looks at in between are the ranking scores.       *)
(***************************************************************************)
OrderInv ==
  /\ RowInv
  /\ \A s \in 1 .. Len(sel) :
       /\ Sorted(sel[s], K)
       /\ \A k \in BeamId : sel[s][k].score = sel[s][k].raw

\* The selection appends a sorted row.
LEMMA SelectOrder ==
  ASSUME RankIsRaw, OrderInv, Select
  PROVE  OrderInv'
<1> DEFINE row == [k \in BeamId |-> top[k]]
<1>1. /\ RowInv /\ RowInv' /\ TypeInv /\ t < T /\ pc = "scan"
      /\ sel \in Seq([BeamId -> Candidate]) /\ sel' = Append(sel, row)
  BY SelectRow DEF OrderInv, RowInv, TypeInv, TypeOK, Select
<1>2. /\ \A k \in 0 .. K - 1 : k \in 0 .. P - 1 /\ row[k] = top[k]
      /\ BeamId = 0 .. K - 1 /\ K \in Nat /\ P \in Nat
  BY DimensionsAssumption, PAssumption DEF BeamId
<1>3. Sorted(row, K)
  BY <1>1, <1>2 DEF RowInv, Sorted
<1>4. \A k \in BeamId : row[k].score = row[k].raw
  <2>1. \A k \in BeamId : row[k] \in Scanned \cup {Placeholder}
    BY <1>1, <1>2 DEF RowInv, OnlyFrom
  <2>2. QED
    BY <1>1, <2>1, RankedByRaw
<1> HIDE DEF row
<1>5. ASSUME NEW s \in 1 .. Len(sel')
      PROVE  Sorted(sel'[s], K) /\ \A k \in BeamId : sel'[s][k].score = sel'[s][k].raw
  <2>1. Len(sel) \in Nat /\ Len(sel') = Len(sel) + 1 /\ sel'[Len(sel) + 1] = row
        /\ \A r \in 1 .. Len(sel) : sel'[r] = sel[r]
    <3>1. row \in [BeamId -> Candidate]
      BY <1>1, <1>2 DEF TypeInv, TypeOK, Buffer, Slot, row
    <3>2. QED
      BY <1>1, <3>1, AppendProperties
  <2>2. CASE s \in 1 .. Len(sel)
    BY <2>1, <2>2 DEF OrderInv
  <2>3. CASE s = Len(sel) + 1
    BY <1>3, <1>4, <2>1, <2>3
  <2>4. QED
    BY <2>1, <2>2, <2>3
<1>6. QED
  BY <1>1, <1>5 DEF OrderInv

\* Without a length penalty a finished decode passes its own order check.
\* (With one it need not: the run ResultPenalty has a counterexample.)
THEOREM DecodePassesValidation ==
  ASSUME RankIsRaw
  PROVE  Spec => []ResultPassesValidation
<1>1. Init => OrderInv
  <2>1. Len(<< >>) = 0 /\ 1 .. 0 = {}
    OBVIOUS
  <2>2. QED
    BY <2>1, InitRow DEF Init, OrderInv
<1>2. ASSUME OrderInv, [Next]_vars PROVE OrderInv'
  <2>1. RowInv'
    BY <1>2, RowStep DEF OrderInv
  <2>2. CASE Select
    BY <1>2, <2>2, SelectOrder
  <2>3. CASE UNCHANGED sel
    BY <1>2, <2>1, <2>3 DEF OrderInv
  <2>4. QED
    BY <1>2, <2>2, <2>3
       DEF Next, BeginStep, SkipDead, CarryFinished, ScanToken, NextRow, vars
<1>3. OrderInv => ResultPassesValidation
  <2> SUFFICES ASSUME OrderInv, NEW s \in 1 .. Len(sel), NEW k \in 1 .. K - 1
               PROVE  OrderFault(sel[s][k - 1], sel[s][k]) = 0
    BY DEF ResultPassesValidation, ValidatesOrder
  <2>1. PICK x, y : x = sel[s][k - 1] /\ y = sel[s][k]
    OBVIOUS
  <2>2. k \in BeamId /\ k - 1 \in BeamId
    BY DimensionsAssumption DEF BeamId
  <2>3. x \in Candidate /\ y \in Candidate
    BY <2>1, <2>2 DEF OrderInv, RowInv, TypeInv, TypeOK
  <2>4. ~Better(y, x)
    BY <2>1, <2>2, DimensionsAssumption DEF OrderInv, Sorted, BeamId
  <2>5. x.score = x.raw /\ y.score = y.raw
    BY <2>1, <2>2 DEF OrderInv
  <2>6. OrderFault(x, y) = 0
    BY <2>3, <2>4, <2>5, CandidateFields DEF OrderFault, Better
  <2>7. QED
    BY <2>1, <2>6
<1>4. QED
  BY <1>1, <1>2, <1>3, PTL DEF Spec

-----------------------------------------------------------------------------
(***************************************************************************)
(* The walk over the parents.  Path is defined by recursion from the last  *)
(* step down, and every step of the decoder adds one at that end: that a   *)
(* path exists, and what every path spells, is an invariant of the decode. *)
(***************************************************************************)

\* f is a path to beam k through the selected rows in list.
IsPath(list, f, k) ==
  f = [s \in 1 .. Len(list) |->
         IF s = Len(list) THEN k
         ELSE IF f[s + 1] < 0 THEN -1 ELSE list[s + 1][f[s + 1]].parent]

\* Where a path to beam k of the row enters the rows before.
Entrance(row, k) == IF k < 0 THEN -1 ELSE row[k].parent

TokenAt(list, f, s) == IF f[s] < 0 THEN -1 ELSE list[s][f[s]].token

\* The tokens on a path are unset, or the hypothesis and then only end tokens.
Spells(list, f, beam) ==
  \/ /\ beam.seq = << >> /\ ~beam.ended
     /\ \A s \in 1 .. Len(list) : TokenAt(list, f, s) = -1
  \/ /\ Len(beam.seq) <= Len(list)
     /\ \A s \in 1 .. Len(beam.seq) :
          /\ TokenAt(list, f, s) = beam.seq[s]
          /\ beam.seq[s] = EOS => s = Len(beam.seq) /\ beam.ended
     /\ \A s \in Len(beam.seq) + 1 .. Len(list) : TokenAt(list, f, s) = EOS
     /\ beam.ended \/ Len(beam.seq) = Len(list)
     /\ beam.ended => Len(beam.seq) > 0 /\ beam.seq[Len(beam.seq)] = EOS

TraceInv ==
  /\ HypothesisInv
  /\ \A k \in BeamId \cup {-1} : \E f : IsPath(sel, f, k)
  /\ \A f : IsPath(sel, f, -1) => \A s \in 1 .. Len(sel) : f[s] = -1
  /\ \A k \in BeamId : \A f : IsPath(sel, f, k) => Spells(sel, f, beams[k])

\* A path is extended by the next row.
LEMMA PathExtended ==
  ASSUME NEW R, NEW list \in Seq(R), NEW row \in R, NEW k \in Int,
         NEW g, IsPath(list, g, Entrance(row, k))
  PROVE  IsPath(Append(list, row),
                [s \in 1 .. Len(list) + 1 |-> IF s = Len(list) + 1 THEN k ELSE g[s]], k)
<1> DEFINE n == Len(list)
           more == Append(list, row)
           f == [s \in 1 .. n + 1 |-> IF s = n + 1 THEN k ELSE g[s]]
<1>1. /\ n \in Nat /\ Len(more) = n + 1 /\ more[n + 1] = row
      /\ \A s \in 1 .. n : more[s] = list[s]
  BY AppendProperties
<1>2. /\ f[n + 1] = k /\ \A s \in 1 .. n : f[s] = g[s]
  BY <1>1
<1>3. \A s \in 1 .. n :
        g[s] = IF s = n THEN Entrance(row, k)
               ELSE IF g[s + 1] < 0 THEN -1 ELSE list[s + 1][g[s + 1]].parent
  BY DEF IsPath
<1> HIDE DEF n, more
<1>4. ASSUME NEW s \in 1 .. n + 1
      PROVE  (IF s = n + 1 THEN k ELSE g[s]) =
                IF s = n + 1 THEN k
                ELSE IF f[s + 1] < 0 THEN -1 ELSE more[s + 1][f[s + 1]].parent
  <2> HIDE DEF f
  <2>1. CASE s = n + 1
    BY <2>1
  <2>2. CASE s = n
    <3>1. s # n + 1 /\ s + 1 = n + 1 /\ s \in 1 .. n
      BY <1>1, <2>2
    <3>2. g[s] = Entrance(row, k) /\ f[s + 1] = k /\ more[s + 1] = row
      BY <1>1, <1>2, <1>3, <2>2, <3>1
    <3>3. QED
      BY <3>1, <3>2 DEF Entrance
  <2>3. CASE s \in 1 .. n - 1
    <3>1. s \in 1 .. n /\ s + 1 \in 1 .. n /\ s # n /\ s # n + 1
      BY <1>1, <2>3
    <3>2. f[s + 1] = g[s + 1] /\ more[s + 1] = list[s + 1]
      BY <1>1, <1>2, <3>1
    <3>3. g[s] = IF g[s + 1] < 0 THEN -1 ELSE list[s + 1][g[s + 1]].parent
      BY <1>3, <3>1
    <3>4. QED
      BY <3>1, <3>2, <3>3
  <2>4. QED
    BY <1>1, <2>1, <2>2, <2>3
<1>5. f = [s \in 1 .. n + 1 |-> IF s = n + 1 THEN k
             ELSE IF f[s + 1] < 0 THEN -1 ELSE more[s + 1][f[s + 1]].parent]
  BY <1>4, Zenon
<1>6. IsPath(more, f, k)
  BY <1>1, <1>5 DEF IsPath
<1>7. QED
  BY <1>6 DEF n, more

\* A path through one more row is a path through the rows before, and ends in
\* that row.
LEMMA PathRestricted ==
  ASSUME NEW R, NEW list \in Seq(R), NEW row \in R, NEW k \in Int,
         NEW f, IsPath(Append(list, row), f, k)
  PROVE  /\ IsPath(list, [s \in 1 .. Len(list) |-> f[s]], Entrance(row, k))
         /\ f[Len(list) + 1] = k
<1> DEFINE n == Len(list)
           more == Append(list, row)
           g == [s \in 1 .. n |-> f[s]]
<1>1. /\ n \in Nat /\ Len(more) = n + 1 /\ more[n + 1] = row
      /\ \A s \in 1 .. n : more[s] = list[s]
  BY AppendProperties
<1>2. \A s \in 1 .. n + 1 :
        f[s] = IF s = n + 1 THEN k
               ELSE IF f[s + 1] < 0 THEN -1 ELSE more[s + 1][f[s + 1]].parent
  BY <1>1 DEF IsPath
<1>3. f[n + 1] = k
  BY <1>1, <1>2
<1>4. \A s \in 1 .. n : g[s] = f[s]
  OBVIOUS
<1> HIDE DEF n, more
<1>5. ASSUME NEW s \in 1 .. n
      PROVE  f[s] = IF s = n THEN Entrance(row, k)
                    ELSE IF g[s + 1] < 0 THEN -1 ELSE list[s + 1][g[s + 1]].parent
  <2> HIDE DEF g
  <2>1. CASE s = n
    <3>1. s # n + 1 /\ s + 1 = n + 1 /\ s \in 1 .. n + 1
      BY <1>1, <2>1
    <3>2. f[s + 1] = k /\ more[s + 1] = row
      BY <1>1, <1>3, <3>1
    <3>3. f[s] = IF f[s + 1] < 0 THEN -1 ELSE more[s + 1][f[s + 1]].parent
      BY <1>2, <3>1
    <3>4. QED
      BY <2>1, <3>2, <3>3 DEF Entrance
  <2>2. CASE s # n
    <3>1. s + 1 \in 1 .. n /\ s # n + 1 /\ s \in 1 .. n + 1
      BY <1>1, <2>2
    <3>2. g[s + 1] = f[s + 1] /\ more[s + 1] = list[s + 1]
      BY <1>1, <1>4, <3>1
    <3>3. QED
      BY <1>2, <2>2, <3>1, <3>2
  <2>3. QED
    BY <2>1, <2>2
<1>6. g = [s \in 1 .. n |-> IF s = n THEN Entrance(row, k)
             ELSE IF g[s + 1] < 0 THEN -1 ELSE list[s + 1][g[s + 1]].parent]
  BY <1>5, Zenon
<1>7. IsPath(list, g, Entrance(row, k))
  BY <1>6 DEF IsPath, n
<1>8. QED
  BY <1>3, <1>7 DEF n

\* Along the rows before, a path names the same tokens as its restriction.
LEMMA TokensRestricted ==
  ASSUME NEW R, NEW list \in Seq(R), NEW row \in R, NEW f,
         NEW s \in 1 .. Len(list)
  PROVE  TokenAt(Append(list, row), f, s) =
           TokenAt(list, [r \in 1 .. Len(list) |-> f[r]], s)
BY AppendProperties DEF TokenAt

\* What a path to a beam spells after a selection.
LEMMA SelectSpells ==
  ASSUME TraceInv, Select, NEW k \in BeamId, NEW f, IsPath(sel', f, k)
  PROVE  Spells(sel', f, beams'[k])
<1> DEFINE row == [i \in BeamId |-> top[i]]
           R == [BeamId -> Candidate]
           n == Len(sel)
           g == [s \in 1 .. n |-> f[s]]
<1>1. /\ HypothesisInv /\ RowInv /\ TypeInv /\ LengthsMatch /\ n = t /\ t \in Nat
      /\ sel \in Seq(R) /\ sel' = Append(sel, row) /\ row[k] = top[k]
  BY DEF TraceInv, HypothesisInv, RowInv, TypeInv, TypeOK, Select
<1>2. \A i \in BeamId : i \in Slot /\ top[i] \in Candidate
  BY <1>1, SelectedBeams
<1>3. row \in R
  BY <1>2
<1>4. k \in Int /\ k >= 0
  BY DimensionsAssumption DEF BeamId
<1> HIDE DEF row, R
<1>5. IsPath(sel, g, Entrance(row, k)) /\ f[n + 1] = k
  BY <1>1, <1>3, <1>4, PathRestricted
<1>6. Len(sel') = n + 1 /\ sel'[n + 1] = row
  BY <1>1, <1>3, AppendProperties
<1>7. \A s \in 1 .. n : TokenAt(sel', f, s) = TokenAt(sel, g, s)
  BY <1>1, <1>3, TokensRestricted
<1>8. TokenAt(sel', f, n + 1) = top[k].token
  BY <1>1, <1>4, <1>5, <1>6 DEF TokenAt
<1>9. Entrance(row, k) = top[k].parent
  BY <1>1, <1>4 DEF Entrance
<1>10. CASE top[k] = Placeholder /\ beams'[k].seq = << >> /\ ~beams'[k].ended
  <2>1. top[k].parent = -1 /\ top[k].token = -1
    BY <1>10 DEF Placeholder
  <2>2. \A s \in 1 .. n : g[s] = -1
    BY <1>5, <1>9, <2>1 DEF TraceInv
  <2>3. \A s \in 1 .. n : TokenAt(sel, g, s) = -1
    BY <2>2 DEF TokenAt
  <2>4. ASSUME NEW s \in 1 .. n + 1 PROVE TokenAt(sel', f, s) = -1
    <3>1. CASE s \in 1 .. n
      BY <1>7, <2>3, <3>1
    <3>2. CASE s = n + 1
      BY <1>8, <2>1, <3>2
    <3>3. QED
      BY <1>1, <3>1, <3>2
  <2>5. QED
    BY <1>6, <1>10, <2>4 DEF Spells
<1>11. CASE Successor(beams'[k], top[k])
  <2>1. PICK q \in BeamId : q = top[k].parent
    BY <1>11 DEF Successor
  <2>2. PICK old, seq : old = beams[q] /\ seq = old.seq
    OBVIOUS
  <2>3. Spells(sel, g, old)
    BY <1>5, <1>9, <2>1, <2>2 DEF TraceInv
  <2>4. seq \in Seq(Token) /\ Len(seq) \in Nat
    BY <1>1, <2>2 DEF TypeInv, TypeOK, Beam
  <2>5. Len(<< >>) = 0
    OBVIOUS
  <2>6. CASE /\ Finished(old) /\ beams'[k].seq = seq /\ beams'[k].ended
             /\ top[k] = Carry(beams, q)
    <3>1. Live(old) /\ old.ended /\ Len(seq) > 0
      BY <1>1, <2>2, <2>6 DEF Finished, LengthsMatch
    <3>2. /\ Len(seq) <= n
          /\ \A s \in 1 .. Len(seq) :
               TokenAt(sel, g, s) = seq[s] /\ (seq[s] = EOS => s = Len(seq))
          /\ \A s \in Len(seq) + 1 .. n : TokenAt(sel, g, s) = EOS
          /\ seq[Len(seq)] = EOS
      BY <2>2, <2>3, <2>5, <3>1 DEF Spells
    <3>3. TokenAt(sel', f, n + 1) = EOS
      BY <1>8, <2>6 DEF Carry
    <3>4. ASSUME NEW s \in 1 .. Len(seq) PROVE TokenAt(sel', f, s) = seq[s]
      <4>1. s \in 1 .. n
        BY <1>1, <2>4, <3>2
      <4>2. QED
        BY <1>7, <3>2, <4>1
    <3>5. \A s \in Len(seq) + 1 .. n + 1 : TokenAt(sel', f, s) = EOS
      <4>1. ASSUME NEW s \in Len(seq) + 1 .. n + 1
            PROVE  s = n + 1 \/ (s \in 1 .. n /\ s \in Len(seq) + 1 .. n)
        BY <1>1, <2>4
      <4>2. QED
        BY <1>7, <3>2, <3>3, <4>1
    <3>6. Len(seq) <= n + 1
      BY <1>1, <2>4, <3>2
    <3>7. QED
      BY <1>6, <2>6, <3>1, <3>2, <3>4, <3>5, <3>6 DEF Spells
  <2>7. CASE /\ Open(old) /\ top[k].token \in Token
             /\ beams'[k].seq = Append(seq, top[k].token)
             /\ beams'[k].ended <=> (old.ended \/ (EOS >= 0 /\ top[k].token = EOS))
    <3>1. PICK u \in Token : u = top[k].token
      BY <2>7
    <3>2. ~old.ended /\ Len(seq) = n /\ \A i \in 1 .. n : seq[i] # EOS
      BY <1>1, <2>2, <2>7, OpenNotEnded
    <3>3. \A s \in 1 .. n : TokenAt(sel, g, s) = seq[s]
      <4>1. CASE seq = << >>
        BY <1>1, <2>5, <3>2, <4>1
      <4>2. CASE seq # << >>
        BY <2>2, <2>3, <3>2, <4>2 DEF Spells
      <4>3. QED
        BY <4>1, <4>2
    <3>4. PICK more : more = Append(seq, u)
      OBVIOUS
    <3>5. Len(more) = n + 1 /\ more[n + 1] = u /\ \A s \in 1 .. n : more[s] = seq[s]
      BY <2>4, <3>2, <3>4, AppendProperties
    <3>6. beams'[k].seq = more /\ (beams'[k].ended <=> u = EOS)
      BY <2>7, <3>1, <3>2, <3>4, DimensionsAssumption DEF Token
    <3>7. ASSUME NEW s \in 1 .. n + 1
          PROVE  /\ TokenAt(sel', f, s) = more[s]
                 /\ more[s] = EOS => s = n + 1 /\ u = EOS
      <4>1. CASE s \in 1 .. n
        BY <1>7, <3>2, <3>3, <3>5, <4>1
      <4>2. CASE s = n + 1
        BY <1>8, <3>1, <3>5, <4>2
      <4>3. QED
        BY <1>1, <4>1, <4>2
    <3>8. (n + 1) + 1 .. n + 1 = {} /\ n + 1 > 0 /\ n + 1 <= n + 1
      BY <1>1
    <3>9. QED
      BY <1>6, <3>5, <3>6, <3>7, <3>8 DEF Spells
  <2>8. QED
    BY <1>11, <2>1, <2>2, <2>6, <2>7 DEF Successor
<1>12. QED
  BY <1>1, <1>10, <1>11, SelectedBeams

\* A path to every beam exists after a selection, and one that has left the
\* beam stays outside.
LEMMA SelectPaths ==
  ASSUME TraceInv, Select
  PROVE  /\ \A k \in BeamId \cup {-1} : \E f : IsPath(sel', f, k)
         /\ \A f : IsPath(sel', f, -1) => \A s \in 1 .. Len(sel') : f[s] = -1
<1> DEFINE row == [i \in BeamId |-> top[i]]
           R == [BeamId -> Candidate]
           n == Len(sel)
<1>1. /\ HypothesisInv /\ RowInv /\ TypeInv /\ n \in Nat
      /\ sel \in Seq(R) /\ sel' = Append(sel, row)
  BY DEF TraceInv, HypothesisInv, RowInv, TypeInv, TypeOK, Select
<1>2. \A i \in BeamId : i \in Slot /\ top[i] \in Candidate
                        /\ top[i].parent \in BeamId \cup {-1}
  <2>1. Placeholder.parent = -1
    BY DEF Placeholder
  <2>2. QED
    BY <1>1, <2>1, SelectedBeams DEF Successor
<1>3. row \in R
  BY <1>2
<1>4. Len(sel') = n + 1
  BY <1>1, <1>3, AppendProperties
<1>5. \A k \in BeamId \cup {-1} : k \in Int /\ Entrance(row, k) \in BeamId \cup {-1}
  BY <1>2, DimensionsAssumption DEF Entrance, BeamId
<1> HIDE DEF row, R, n
<1>6. ASSUME NEW k \in BeamId \cup {-1} PROVE \E f : IsPath(sel', f, k)
  <2>1. PICK g : IsPath(sel, g, Entrance(row, k))
    BY <1>5 DEF TraceInv
  <2>2. IsPath(sel', [s \in 1 .. Len(sel) + 1 |-> IF s = Len(sel) + 1 THEN k ELSE g[s]], k)
    BY <1>1, <1>3, <1>5, <2>1, PathExtended
  <2>3. QED
    BY <2>2
<1>7. ASSUME NEW f, IsPath(sel', f, -1), NEW s \in 1 .. Len(sel') PROVE f[s] = -1
  <2>1. Entrance(row, -1) = -1
    BY DEF Entrance
  <2>2. IsPath(sel, [r \in 1 .. Len(sel) |-> f[r]], -1) /\ f[n + 1] = -1
    BY <1>1, <1>3, <1>7, <2>1, PathRestricted DEF n
  <2>3. \A r \in 1 .. n : f[r] = -1
    BY <2>2 DEF TraceInv, n
  <2>4. QED
    BY <1>1, <1>4, <2>2, <2>3
<1>8. QED
  BY <1>6, <1>7

LEMMA InitTrace == Init => TraceInv
<1> SUFFICES ASSUME Init PROVE TraceInv
  OBVIOUS
<1>1. HypothesisInv /\ sel = << >> /\ beams = InitialBeams
  BY InitHypothesis DEF Init
<1>2. Len(<< >>) = 0 /\ 1 .. 0 = {} /\ 0 + 1 .. 0 = {}
  OBVIOUS
<1>3. \A k : IsPath(sel, << >>, k)
  <2>1. << >> = [s \in 1 .. 0 |-> 0]
    <3>1. << >> \in Seq({}) /\ [s \in 1 .. 0 |-> 0] \in Seq({})
      BY <1>2
    <3>2. Len([s \in 1 .. 0 |-> 0]) = 0
      BY <1>2
    <3>3. QED
      BY <1>2, <3>1, <3>2, SeqEqual
  <2>2. ASSUME NEW k
        PROVE  << >> = [s \in 1 .. 0 |->
                          IF s = 0 THEN k
                          ELSE IF << >>[s + 1] < 0 THEN -1
                          ELSE sel[s + 1][<< >>[s + 1]].parent]
    BY <1>2, <2>1
  <2>3. QED
    BY <1>1, <1>2, <2>2 DEF IsPath
<1>4. \A k \in BeamId : \A f : Spells(sel, f, beams[k])
  <2>1. \A k \in BeamId : beams[k].seq = << >> /\ beams[k].ended = FALSE
    BY <1>1 DEF InitialBeams, DeadBeam
  <2>2. QED
    BY <1>1, <1>2, <2>1 DEF Spells
<1>5. QED
  BY <1>1, <1>2, <1>3, <1>4 DEF TraceInv

LEMMA TraceInvariant == Spec => []TraceInv
<1>1. ASSUME TraceInv, [Next]_vars PROVE TraceInv'
  <2>1. HypothesisInv'
    BY <1>1, HypothesisStep DEF TraceInv
  <2>2. CASE Select
    BY <1>1, <2>1, <2>2, SelectPaths, SelectSpells DEF TraceInv
  <2>3. CASE UNCHANGED <<sel, beams>>
    BY <1>1, <2>1, <2>3 DEF TraceInv
  <2>4. QED
    BY <1>1, <2>2, <2>3
       DEF Next, BeginStep, SkipDead, CarryFinished, ScanToken, NextRow, vars
<1>2. QED
  BY <1>1, InitTrace, PTL DEF Spec

-----------------------------------------------------------------------------
(***************************************************************************)
(* build_sequences: the path from a beam, cut at the first end token and   *)
(* from the first token that is set.                                       *)
(***************************************************************************)

\* Path is a path as soon as there is one.
LEMMA PathIsPath ==
  ASSUME NEW k, \E f : IsPath(sel, f, k)
  PROVE  IsPath(sel, Path(k), k)
BY DEF Path, IsPath

\* Without an end token nothing is cut.
LEMMA CutWithoutEnd ==
  ASSUME NEW seq, \A i \in 1 .. Len(seq) : ~(EOS >= 0 /\ seq[i] = EOS)
  PROVE  CutAtEnd(seq) = seq
BY DEF CutAtEnd, SelectInSeq

\* The least element of a set is the one Min returns.
LEMMA LeastIsMin ==
  ASSUME NEW I, NEW m \in I, \A i \in I : i \in Int /\ m <= i
  PROVE  Min(I) = m
<1>1. \E x \in I : \A y \in I : x <= y
  OBVIOUS
<1>2. Min(I) \in I /\ \A y \in I : Min(I) <= y
  BY <1>1 DEF Min
<1>3. QED
  BY <1>2

LEMMA CutAt ==
  ASSUME NEW seq, NEW I, I = {i \in 1 .. Len(seq) : EOS >= 0 /\ seq[i] = EOS},
         I # {}, Min(I) # 0
  PROVE  CutAtEnd(seq) = SubSeq(seq, 1, Min(I) - 1)
BY Zenon DEF CutAtEnd, SelectInSeq

LEMMA CutAtFirstEnd ==
  ASSUME NEW seq, Len(seq) \in Nat, NEW m \in 1 .. Len(seq),
         EOS >= 0, seq[m] = EOS, \A i \in 1 .. m - 1 : seq[i] # EOS
  PROVE  CutAtEnd(seq) = SubSeq(seq, 1, m - 1)
<1> DEFINE I == {i \in 1 .. Len(seq) : EOS >= 0 /\ seq[i] = EOS}
<1>1. m \in I /\ I # {} /\ \A i \in I : i \in Int /\ m <= i
  OBVIOUS
<1>2. Min(I) = m
  BY <1>1, LeastIsMin
<1> HIDE DEF I
<1>3. I = {i \in 1 .. Len(seq) : EOS >= 0 /\ seq[i] = EOS}
  BY DEF I
<1>4. I # {} /\ Min(I) # 0
  BY <1>1, <1>2
<1>5. CutAtEnd(seq) = SubSeq(seq, 1, Min(I) - 1)
  BY <1>3, <1>4, CutAt, Zenon
<1>6. QED
  BY <1>2, <1>5

LEMMA DropBefore ==
  ASSUME NEW seq, NEW I, I = {i \in 1 .. Len(seq) : seq[i] >= 0}, I # {}, Min(I) # 0
  PROVE  DropUnset(seq) = SubSeq(seq, Min(I), Len(seq))
BY Zenon DEF DropUnset, SelectInSeq

LEMMA DropToFirstSet ==
  ASSUME NEW seq, Len(seq) \in Nat, NEW m \in 1 .. Len(seq),
         seq[m] >= 0, \A i \in 1 .. m - 1 : ~(seq[i] >= 0)
  PROVE  DropUnset(seq) = SubSeq(seq, m, Len(seq))
<1> DEFINE I == {i \in 1 .. Len(seq) : seq[i] >= 0}
<1>1. m \in I /\ I # {} /\ \A i \in I : i \in Int /\ m <= i
  OBVIOUS
<1>2. Min(I) = m
  BY <1>1, LeastIsMin
<1> HIDE DEF I
<1>3. I = {i \in 1 .. Len(seq) : seq[i] >= 0}
  BY DEF I
<1>4. I # {} /\ Min(I) # 0
  BY <1>1, <1>2
<1>5. DropUnset(seq) = SubSeq(seq, Min(I), Len(seq))
  BY <1>3, <1>4, DropBefore, Zenon
<1>6. QED
  BY <1>2, <1>5

LEMMA DropAll ==
  ASSUME NEW seq, \A i \in 1 .. Len(seq) : ~(seq[i] >= 0)
  PROVE  DropUnset(seq) = << >>
BY DEF DropUnset, SelectInSeq

LEMMA DropNone ==
  ASSUME NEW S, NEW seq \in Seq(S), Len(seq) > 0 => seq[1] >= 0
  PROVE  DropUnset(seq) = seq
<1>1. CASE Len(seq) > 0
  <2>1. 1 \in 1 .. Len(seq) /\ 1 .. 1 - 1 = {}
    BY <1>1
  <2>2. DropUnset(seq) = SubSeq(seq, 1, Len(seq))
    BY <1>1, <2>1, DropToFirstSet
  <2>3. QED
    BY <2>2, SubSeqFull
<1>2. CASE Len(seq) = 0
  <2>1. seq = << >> /\ 1 .. Len(seq) = {}
    BY <1>2
  <2>2. DropUnset(seq) = << >>
    BY <2>1, DropAll
  <2>3. QED
    BY <2>1, <2>2
<1>3. QED
  BY <1>1, <1>2

\* The tokens of the walk are those on a path to the beam.
LEMMA TraceReads ==
  ASSUME TraceInv, NEW k \in BeamId
  PROVE  /\ Spells(sel, Path(k), beams[k])
         /\ Trace(k) \in Seq({TokenAt(sel, Path(k), s) : s \in 1 .. Len(sel)})
         /\ Len(Trace(k)) = Len(sel)
         /\ \A s \in 1 .. Len(sel) : Trace(k)[s] = TokenAt(sel, Path(k), s)
<1>1. IsPath(sel, Path(k), k)
  BY PathIsPath DEF TraceInv
<1>2. Spells(sel, Path(k), beams[k])
  BY <1>1 DEF TraceInv
<1>3. Trace(k) = [s \in 1 .. Len(sel) |-> TokenAt(sel, Path(k), s)]
  BY DEF Trace, TokenAt
<1>4. Len(sel) \in Nat
  BY DEF TraceInv, HypothesisInv, RowInv, TypeInv, TypeOK
<1>5. QED
  BY <1>2, <1>3, <1>4

\* What a walk gives that left the beam, that met no end token, and that met
\* its first one at m.
LEMMA BuildDead ==
  ASSUME NEW walk, \A s \in 1 .. Len(walk) : walk[s] = -1
  PROVE  DropUnset(CutAtEnd(walk)) = << >>
<1>1. \A s \in 1 .. Len(walk) : ~(EOS >= 0 /\ walk[s] = EOS) /\ ~(walk[s] >= 0)
  OBVIOUS
<1>2. CutAtEnd(walk) = walk
  BY <1>1, CutWithoutEnd
<1>3. QED
  BY <1>1, <1>2, DropAll

LEMMA TokensAreInts == EOS \in Int /\ Token \subseteq Int /\ \A u \in Token : u >= 0
BY DimensionsAssumption, OptionsAssumption DEF Token

LEMMA BuildOpen ==
  ASSUME NEW walk \in Seq(Token), \A s \in 1 .. Len(walk) : walk[s] # EOS
  PROVE  DropUnset(CutAtEnd(walk)) = walk
<1>1. CutAtEnd(walk) = walk
  BY CutWithoutEnd
<1>2. Len(walk) > 0 => walk[1] >= 0
  <2>1. Len(walk) \in Nat /\ \A i \in 1 .. Len(walk) : walk[i] \in Token
    OBVIOUS
  <2>2. \A i \in 1 .. Len(walk) : walk[i] >= 0
    BY <2>1, DimensionsAssumption DEF Token
  <2>3. QED
    BY <2>1, <2>2
<1>3. QED
  BY <1>1, <1>2, DropNone

LEMMA BuildEnded ==
  ASSUME NEW walk, Len(walk) \in Nat, NEW seq \in Seq(Token),
         NEW m, m = Len(seq), m \in 1 .. Len(walk), seq[m] = EOS, walk[m] = EOS,
         \A s \in 1 .. m - 1 : walk[s] = seq[s] /\ walk[s] # EOS
  PROVE  DropUnset(CutAtEnd(walk)) = SubSeq(seq, 1, m - 1)
<1>1. EOS >= 0 /\ m \in Nat \ {0} /\ m - 1 \in Nat
  BY TokensAreInts
<1>2. CutAtEnd(walk) = SubSeq(walk, 1, m - 1)
  BY <1>1, CutAtFirstEnd
<1>3. PICK cut, kept : cut = SubSeq(walk, 1, m - 1) /\ kept = SubSeq(seq, 1, m - 1)
  OBVIOUS
<1>4. \A i \in 1 .. m - 1 : seq[i] \in Token /\ walk[i] \in Token
  BY <1>1
<1>5. /\ cut \in Seq(Token) /\ Len(cut) = m - 1
      /\ \A i \in 1 .. m - 1 : cut[i] = walk[i]
  <2>1. /\ cut \in Seq(Token) /\ Len(cut) = IF 1 <= m - 1 THEN m - 1 - 1 + 1 ELSE 0
        /\ \A i \in 1 .. m - 1 - 1 + 1 : cut[i] = walk[1 + i - 1]
    BY <1>1, <1>3, <1>4, SubSeqProperties
  <2>2. QED
    BY <1>1, <2>1
<1>6. /\ kept \in Seq(Token) /\ Len(kept) = m - 1
      /\ \A i \in 1 .. m - 1 : kept[i] = seq[i]
  <2>1. /\ kept \in Seq(Token) /\ Len(kept) = IF 1 <= m - 1 THEN m - 1 - 1 + 1 ELSE 0
        /\ \A i \in 1 .. m - 1 - 1 + 1 : kept[i] = seq[1 + i - 1]
    BY <1>1, <1>3, <1>4, SubSeqProperties
  <2>2. QED
    BY <1>1, <2>1
<1>7. cut = kept
  BY <1>1, <1>5, <1>6, SeqEqual
<1>8. Len(kept) > 0 => kept[1] >= 0
  <2>1. \A i \in 1 .. m - 1 : kept[i] \in Token
    BY <1>4, <1>6
  <2>2. \A i \in 1 .. m - 1 : kept[i] >= 0
    BY <2>1, DimensionsAssumption DEF Token
  <2>3. QED
    BY <1>1, <1>6, <2>2
<1>9. DropUnset(kept) = kept
  BY <1>6, <1>8, DropNone
<1>10. QED
  BY <1>2, <1>3, <1>7, <1>9

\* A walk over rows that spell a hypothesis rebuilds it.
LEMMA BuildFromSpelling ==
  ASSUME NEW list, Len(list) \in Nat \ {0}, NEW f, NEW beam, Spells(list, f, beam),
         beam.seq \in Seq(Token), beam.ended \in BOOLEAN,
         NEW S, NEW walk \in Seq(S), Len(walk) = Len(list),
         \A s \in 1 .. Len(list) : walk[s] = TokenAt(list, f, s)
  PROVE  \/ /\ beam.ended
            /\ DropUnset(CutAtEnd(walk)) = SubSeq(beam.seq, 1, Len(beam.seq) - 1)
         \/ ~beam.ended /\ DropUnset(CutAtEnd(walk)) = beam.seq
<1>1. PICK n, seq : n = Len(list) /\ seq = beam.seq
  OBVIOUS
<1>2. n \in Nat \ {0} /\ seq \in Seq(Token) /\ Len(seq) \in Nat
  BY <1>1
<1>3. Len(walk) = n /\ \A s \in 1 .. n : walk[s] = TokenAt(list, f, s)
  BY <1>1, <1>2
<1>4. CASE /\ seq = << >> /\ ~beam.ended
           /\ \A s \in 1 .. n : TokenAt(list, f, s) = -1
  <2>1. \A s \in 1 .. Len(walk) : walk[s] = -1
    BY <1>3, <1>4
  <2>2. DropUnset(CutAtEnd(walk)) = << >>
    BY <2>1, BuildDead
  <2>3. QED
    BY <1>1, <1>4, <2>2
<1>5. CASE /\ Len(seq) <= n
           /\ \A s \in 1 .. Len(seq) :
                /\ TokenAt(list, f, s) = seq[s]
                /\ seq[s] = EOS => s = Len(seq) /\ beam.ended
           /\ beam.ended \/ Len(seq) = n
           /\ beam.ended => Len(seq) > 0 /\ seq[Len(seq)] = EOS
  <2>1. \A s \in 1 .. Len(seq) : s \in 1 .. n /\ walk[s] = seq[s] /\ seq[s] \in Token
    BY <1>2, <1>3, <1>5
  <2>2. CASE beam.ended
    <3>1. PICK m : m = Len(seq)
      OBVIOUS
    <3>2. m \in 1 .. Len(walk) /\ Len(walk) \in Nat /\ seq[m] = EOS /\ walk[m] = EOS
      BY <1>2, <1>3, <1>5, <2>1, <2>2, <3>1
    <3>3. ASSUME NEW s \in 1 .. m - 1 PROVE walk[s] = seq[s] /\ walk[s] # EOS
      <4>1. s \in 1 .. Len(seq) /\ s # Len(seq)
        BY <1>2, <3>1
      <4>2. QED
        BY <1>5, <2>1, <4>1
    <3>4. DropUnset(CutAtEnd(walk)) = SubSeq(seq, 1, m - 1)
      BY <1>2, <3>1, <3>2, <3>3, BuildEnded
    <3>5. QED
      BY <1>1, <2>2, <3>1, <3>4
  <2>3. CASE ~beam.ended
    <3>1. Len(seq) = n /\ \A s \in 1 .. n : walk[s] # EOS
      BY <1>5, <2>1, <2>3
    <3>2. walk \in Seq(Token)
      <4>1. walk = [s \in 1 .. n |-> walk[s]]
        BY <1>3
      <4>2. \A s \in 1 .. n : walk[s] \in Token
        BY <2>1, <3>1
      <4>3. QED
        BY <1>2, <4>1, <4>2
    <3>3. walk = seq
      BY <1>2, <1>3, <2>1, <3>1, <3>2, SeqEqual
    <3>4. DropUnset(CutAtEnd(walk)) = walk
      BY <1>3, <3>1, <3>2, BuildOpen
    <3>5. QED
      BY <1>1, <2>3, <3>3, <3>4
  <2>4. QED
    BY <2>2, <2>3
<1>6. QED
  BY <1>1, <1>4, <1>5 DEF Spells

\* What a caller reads by walking the parents backwards is the hypothesis the
\* decoder built forwards, for every kernel, penalty and set of constraints
\* (TraceMatchesPrefix).
THEOREM DecodeTraceMatchesPrefix == Spec => []TraceMatchesPrefix
<1>1. TraceInv => TraceMatchesPrefix
  <2> SUFFICES ASSUME TraceInv, pc # "scan", t > 0, NEW k \in BeamId
               PROVE  BuildSequence(k) =
                        IF beams[k].ended
                          THEN SubSeq(beams[k].seq, 1, Len(beams[k].seq) - 1)
                          ELSE beams[k].seq
    BY DEF TraceMatchesPrefix
  <2>1. /\ Len(sel) = t /\ t \in Nat /\ beams[k].seq \in Seq(Token)
        /\ beams[k].ended \in BOOLEAN
    BY DEF TraceInv, HypothesisInv, RowInv, TypeInv, TypeOK, Beam
  <2>2. PICK S : Trace(k) \in Seq(S)
    BY TraceReads
  <2>3. /\ Spells(sel, Path(k), beams[k]) /\ Len(Trace(k)) = Len(sel)
        /\ \A s \in 1 .. Len(sel) : Trace(k)[s] = TokenAt(sel, Path(k), s)
    BY TraceReads, Zenon
  <2>4. PICK walk, f, beam : walk = Trace(k) /\ f = Path(k) /\ beam = beams[k]
    OBVIOUS
  <2>5. /\ Spells(sel, f, beam) /\ Len(walk) = Len(sel) /\ Len(sel) \in Nat \ {0}
        /\ walk \in Seq(S) /\ beam.seq \in Seq(Token) /\ beam.ended \in BOOLEAN
    BY <2>1, <2>2, <2>3, <2>4
  <2>6. \A s \in 1 .. Len(sel) : walk[s] = TokenAt(sel, f, s)
    BY <2>3, <2>4
  <2>7. \/ /\ beam.ended
           /\ DropUnset(CutAtEnd(walk)) = SubSeq(beam.seq, 1, Len(beam.seq) - 1)
        \/ ~beam.ended /\ DropUnset(CutAtEnd(walk)) = beam.seq
    BY <2>5, <2>6, BuildFromSpelling
  <2>8. QED
    BY <2>4, <2>7 DEF BuildSequence
<1>2. QED
  BY <1>1, TraceInvariant, PTL

-----------------------------------------------------------------------------
(***************************************************************************)
(* The soft weights of a pool.  From one finite theta to a higher one the  *)
(* sum of the sigmoids falls by at most P for each grid point; the bracket *)
(* keeps the sum's way down to the beam size between its ends while it     *)
(* halves, unless its middle is infinite.                                  *)
(***************************************************************************)
\* A sigmoid saturates, and its points are whole.
LEMMA ReachFacts ==
  /\ Reach \in Nat \ {0} /\ Unit \in Nat \ {0} /\ One = 2 * Reach /\ One \in Nat \ {0}
  /\ Infinity \in Nat \ {0}
BY GridAssumption, InfAssumption DEF One, Infinity

\* A sigmoid is a share, rises with its argument, and by no more than it.
LEMMA SigmoidRises ==
  /\ \A x \in Int : Sigmoid(x) \in 0 .. One
  /\ \A x, y \in Int : x <= y => Sigmoid(x) <= Sigmoid(y)
  /\ \A x \in Int, d \in Nat : Sigmoid(x + d) <= Sigmoid(x) + d
  /\ \A x \in Int : x <= -Reach => Sigmoid(x) = 0
  /\ \A x \in Int : x >= Reach => Sigmoid(x) = One
BY ReachFacts DEF Sigmoid

\* The ranking scores of a pool.
Scores == [Slot -> Score]

\* Products with a number keep the order.
LEMMA ProductOrdered ==
  ASSUME NEW n \in Nat, NEW x \in Int, NEW y \in Int
  PROVE  n * x \in Int /\ (x >= y => n * x >= n * y)
<1>1. n * x \in Int /\ n * y \in Int
  OBVIOUS
<1>2. ASSUME x >= y PROVE n * x >= n * y
  <2>1. PICK d \in Nat : x = y + d
    <3>1. x - y \in Nat /\ x = y + (x - y)
      BY <1>2
    <3> QED  BY <3>1
  <2>2. n * x = n * y + n * d /\ n * d \in Nat
    BY <1>1, <2>1
  <2> QED  BY <1>1, <2>2
<1> QED  BY <1>1, <1>2

\* The points of two scores are in the order of the scores.
LEMMA PointsOrdered ==
  \A x, y \in Int : /\ Unit * x \in Int
                    /\ x >= y => Unit * x >= Unit * y
BY ReachFacts, ProductOrdered

\* The greater of two numbers.
LEMMA GreaterOfTwo ==
  ASSUME NEW x \in Int, NEW y \in Int
  PROVE  Max({x, y}) \in Int /\ x <= Max({x, y}) /\ y <= Max({x, y})
<1>1. \E m \in {x, y} : \A n \in {x, y} : m >= n
  OBVIOUS
<1>2. Max({x, y}) \in {x, y} /\ \A n \in {x, y} : Max({x, y}) >= n
  BY <1>1 DEF Max
<1> QED  BY <1>2

\* A bracket is never asked to be narrower than the grid.
LEMMA NarrowFacts ==
  ASSUME NEW th \in Int
  PROVE  NarrowAt(th) \in Nat /\ 1 <= NarrowAt(th)
<1> PICK far : far = Max({Unit, th, -th})
  OBVIOUS
<1>1. far \in Int
  <2>1. Unit \in Int /\ -th \in Int
    BY ReachFacts
  <2>2. \E m \in {Unit, th, -th} : \A n \in {Unit, th, -th} : m >= n
    BY <2>1
  <2>3. far \in {Unit, th, -th}
    BY <2>2 DEF Max
  <2> QED  BY <2>1, <2>3
<1>2. Tolerance * far \in Int
  BY <1>1, GridAssumption
<1>3. PICK q \in Int : q = (Tolerance * far) \div One
  BY <1>2, ReachFacts
<1>4. PICK n \in Int : n = 1
  OBVIOUS
<1>5. NarrowAt(th) = Max({n, q})
  BY <1>3, <1>4 DEF NarrowAt
<1>6. Max({n, q}) \in Int /\ n <= Max({n, q})
  BY GreaterOfTwo
<1> QED  BY <1>4, <1>5, <1>6

\* A slot's weight is a share, falls by no more than theta rises as long as that
\* is finite, and is nothing in an empty slot or below an infinite theta.
LEMMA WeightFalls ==
  ASSUME NEW scores \in Scores, NEW i \in Slot
  PROVE  /\ \A th \in Int : Weights(scores, th)[i] \in 0 .. One
         /\ i \notin Active(scores) => \A th \in Int : Weights(scores, th)[i] = 0
         /\ Weights(scores, Infinity)[i] = 0
         /\ \A th \in Int, d \in Nat :
              th + d < Infinity => Weights(scores, th)[i] <= Weights(scores, th + d)[i] + d
<1>1. scores[i] \in Int
  BY InfAssumption DEF Scores, Score
<1>2. PICK u \in Int : u = Unit * scores[i]
  BY <1>1, PointsOrdered
<1>3. \A th : Weights(scores, th)[i] =
               IF i \in Active(scores) /\ th < Infinity THEN Sigmoid(u - th) ELSE 0
  BY <1>2 DEF Weights
<1>4. ASSUME NEW th \in Int PROVE Weights(scores, th)[i] \in 0 .. One
  <2>1. PICK x \in Int : x = u - th
    OBVIOUS
  <2>2. Sigmoid(x) \in 0 .. One /\ 0 \in 0 .. One
    BY SigmoidRises, ReachFacts
  <2> QED  BY <1>3, <2>1, <2>2
<1>5. Weights(scores, Infinity)[i] = 0
  BY <1>3, ReachFacts
<1>6. ASSUME NEW th \in Int, NEW d \in Nat, th + d < Infinity
      PROVE  Weights(scores, th)[i] <= Weights(scores, th + d)[i] + d
  <2>1. u - (th + d) \in Int /\ u - th = (u - (th + d)) + d /\ th < Infinity
    BY <1>6, ReachFacts
  <2>2. Sigmoid(u - th) <= Sigmoid(u - (th + d)) + d
    BY <2>1, SigmoidRises
  <2> QED  BY <1>3, <1>6, <2>1, <2>2
<1>7. i \notin Active(scores) => \A th \in Int : Weights(scores, th)[i] = 0
  BY <1>3
<1> QED  BY <1>4, <1>5, <1>6, <1>7

\* A better score has no smaller weight.
LEMMA WeightFollowsScore ==
  ASSUME NEW scores \in Scores, NEW i \in Slot, NEW j \in Slot, scores[i] > scores[j],
         NEW th \in Int
  PROVE  Weights(scores, th)[i] >= Weights(scores, th)[j]
<1>1. /\ scores[i] \in Int /\ scores[j] \in Int /\ NegGuard \in Int
      /\ \A k \in Slot : k \in Active(scores) <=> scores[k] > NegGuard
  BY InfAssumption, GuardAssumption DEF Scores, Score, Active
<1>2. PICK u \in Int, w \in Int : u = Unit * scores[i] /\ w = Unit * scores[j] /\ u >= w
  <2>1. PICK x \in Int, y \in Int : x = scores[i] /\ y = scores[j] /\ x >= y
    BY <1>1
  <2>2. Unit * x \in Int /\ Unit * y \in Int /\ Unit * x >= Unit * y
    BY <2>1, PointsOrdered
  <2> QED  BY <2>1, <2>2
<1>3. PICK x \in Int, y \in Int : x = u - th /\ y = w - th /\ y <= x
  BY <1>2
<1>4. Sigmoid(x) \in 0 .. One /\ Sigmoid(y) \in 0 .. One /\ Sigmoid(y) <= Sigmoid(x)
  BY <1>3, SigmoidRises
<1>5. j \in Active(scores) => i \in Active(scores)
  BY <1>1
<1>6. /\ Weights(scores, th)[i] = IF i \in Active(scores) /\ th < Infinity THEN Sigmoid(x) ELSE 0
      /\ Weights(scores, th)[j] = IF j \in Active(scores) /\ th < Infinity THEN Sigmoid(y) ELSE 0
  BY <1>2, <1>3 DEF Weights
<1> QED  BY <1>4, <1>5, <1>6, ReachFacts

\* There are P slots.
LEMMA SlotsFinite == IsFiniteSet(Slot) /\ Cardinality(Slot) = P /\ P \in Nat \ {0}
BY PAssumption, FS_Interval DEF Slot

\* The sum of the code is a sum of terms.
LEMMA SumIsTotal ==
  \A scores, th : SumShifted(scores, th) = Total(Weights(scores, th), Slot)
BY DEF SumShifted, Total

\* As theta rises the sum falls by no more than that for each slot, and below an
\* infinite theta there is nothing to add.
LEMMA SumFalls ==
  ASSUME NEW scores \in Scores
  PROVE  /\ \A th \in Int : SumShifted(scores, th) \in Int
         /\ SumShifted(scores, Infinity) = 0
         /\ \A th, ze \in Int :
              th <= ze /\ ze < Infinity =>
                SumShifted(scores, th) <= SumShifted(scores, ze) + P * (ze - th)
<1>1. \A th \in Int, i \in Slot : Weights(scores, th)[i] \in Int
  BY WeightFalls, ReachFacts
<1>2. ASSUME NEW th \in Int PROVE SumShifted(scores, th) \in Int
  BY <1>1, SlotsFinite, SumIsTotal, TotalType
<1>3. SumShifted(scores, Infinity) = 0
  <2>1. \A i \in Slot : Weights(scores, Infinity)[i] = 0
    BY WeightFalls
  <2> QED  BY <2>1, SlotsFinite, SumIsTotal, TotalOfZeros
<1>4. ASSUME NEW th \in Int, NEW ze \in Int, th <= ze, ze < Infinity
      PROVE  SumShifted(scores, th) <= SumShifted(scores, ze) + P * (ze - th)
  <2> PICK e, f : e = Weights(scores, th) /\ f = Weights(scores, ze)
    OBVIOUS
  <2> PICK d \in Nat : ze = th + d /\ d = ze - th
    BY <1>4
  <2>1. \A x \in Slot : e[x] \in Int /\ f[x] \in Int /\ e[x] <= f[x] + d
    BY <1>1, <1>4, WeightFalls
  <2>2. Total(e, Slot) <= Total(f, Slot) + d * Cardinality(Slot)
    BY <2>1, SlotsFinite, TotalAtMost
  <2>3. d * Cardinality(Slot) = P * d
    BY SlotsFinite
  <2> QED  BY <2>2, <2>3, SumIsTotal
<1> QED  BY <1>2, <1>3, <1>4

-----------------------------------------------------------------------------
(***************************************************************************)
(* The bisection.                                                          *)
(***************************************************************************)

\* Among scores there is a least and a greatest one.
LEMMA ExtremeScores ==
  ASSUME NEW S \in SUBSET Score, S # {}
  PROVE  /\ Min(S) \in S /\ \A x \in S : Min(S) <= x
         /\ Max(S) \in S /\ \A x \in S : x <= Max(S)
<1>1. \A x \in S : x \in Int /\ x - NegInf \in Nat /\ PosInf - x \in Nat
  BY InfAssumption DEF Score
<1>2. \E x \in S : \A y \in S : x <= y
  <2> DEFINE D == {x - NegInf : x \in S}
  <2>1. D \subseteq Nat /\ D # {}
    BY <1>1
  <2>2. PICK n \in D : \A m \in D : ~(<<m, n>> \in OpToRel(<, Nat))
    <3> HIDE DEF D
    <3> QED  BY <2>1, SmallestNumber
  <2>3. PICK x \in S : n = x - NegInf
    OBVIOUS
  <2>4. ASSUME NEW y \in S PROVE x <= y
    <3>1. y - NegInf \in D
      OBVIOUS
    <3>2. ~(y - NegInf < n)
      BY <1>1, <2>1, <2>2, <3>1 DEF OpToRel
    <3> QED  BY <1>1, <2>3, <3>2, InfAssumption
  <2> QED  BY <2>4
<1>3. \E x \in S : \A y \in S : x >= y
  <2> DEFINE D == {PosInf - x : x \in S}
  <2>1. D \subseteq Nat /\ D # {}
    BY <1>1
  <2>2. PICK n \in D : \A m \in D : ~(<<m, n>> \in OpToRel(<, Nat))
    <3> HIDE DEF D
    <3> QED  BY <2>1, SmallestNumber
  <2>3. PICK x \in S : n = PosInf - x
    OBVIOUS
  <2>4. ASSUME NEW y \in S PROVE x >= y
    <3>1. PosInf - y \in D
      OBVIOUS
    <3>2. ~(PosInf - y < n)
      BY <1>1, <2>1, <2>2, <3>1 DEF OpToRel
    <3> QED  BY <1>1, <2>3, <3>2, InfAssumption
  <2> QED  BY <2>4
<1>4. Min(S) \in S /\ \A x \in S : Min(S) <= x
  BY <1>2 DEF Min
<1>5. Max(S) \in S /\ \A x \in S : Max(S) >= x
  BY <1>3 DEF Max
<1> QED  BY <1>1, <1>4, <1>5

\* theta is right: the sum is off by no more than the tolerance, or by what the
\* width at which the search stops makes of P sigmoids.
Close(scores, th) ==
  LET slack == Max({Tolerance, P * NarrowAt(th)})
  IN  SumShifted(scores, th) - One * K \in -slack .. slack

LEMMA SlackFacts ==
  ASSUME NEW th \in Int
  PROVE  LET slack == Max({Tolerance, P * NarrowAt(th)})
         IN  slack \in Int /\ Tolerance <= slack /\ P * NarrowAt(th) <= slack
<1> PICK x \in Int, y \in Int : x = Tolerance /\ y = P * NarrowAt(th)
  <2>1. NarrowAt(th) \in Int /\ P \in Int /\ Tolerance \in Int
    BY NarrowFacts, PAssumption, GridAssumption
  <2> QED  BY <2>1
<1>1. Max({x, y}) \in Int /\ x <= Max({x, y}) /\ y <= Max({x, y})
  BY GreaterOfTwo
<1> QED  BY <1>1

(***************************************************************************)
(* The bracket reaches no further than the highest score, unless it        *)
(* reaches for infinity, as it does when a score is there already.  The    *)
(* sum comes down to the beam size within it, or the bracket has collapsed *)
(* to a theta that is right or infinite.                                   *)
(***************************************************************************)
Brackets(scores, bracket) ==
  /\ bracket \in [lo : Int, hi : Int]
  /\ bracket.lo <= bracket.hi /\ bracket.hi <= Infinity
  /\ bracket.hi <= Highest(scores) + Reach \/ MayOverflow(scores)
  /\ (\E i \in Slot : scores[i] = PosInf) => bracket.hi = Infinity
  /\ \/ /\ bracket.lo < Infinity
        /\ SumShifted(scores, bracket.lo) >= One * K
        /\ SumShifted(scores, bracket.hi) <= One * K
     \/ /\ bracket.lo = bracket.hi
        /\ bracket.lo < Infinity => Close(scores, bracket.lo)

\* The width that a bracket may have after each of the halvings of the code.
Narrows(width) ==
  /\ width \in [0 .. MaxIters -> Nat]
  /\ width[0] = Unit * (PosInf - NegInf) + 2 * Reach
  /\ \A n \in 1 .. MaxIters : width[n] = (width[n - 1] + 1) \div 2

\* The first bracket holds the threshold, if there are more candidates than beams.
LEMMA FirstBrackets ==
  ASSUME NEW scores \in Scores, K < Cardinality(Active(scores))
  PROVE  /\ Brackets(scores, FirstBracket(scores)) /\ Highest(scores) \in Int
         /\ FirstBracket(scores).hi - FirstBracket(scores).lo
              <= Unit * (PosInf - NegInf) + 2 * Reach
<1> DEFINE S == {scores[i] : i \in Active(scores)}
<1>0. K \in Nat \ {0} /\ InfAssumption /\ NegInf \in Int /\ PosInf \in Int
  BY DimensionsAssumption, InfAssumption
<1>1. Active(scores) \in SUBSET Slot /\ IsFiniteSet(Active(scores))
      /\ Cardinality(Active(scores)) \in Nat /\ Active(scores) # {}
  <2>1. Active(scores) \in SUBSET Slot
    BY DEF Active
  <2>2. IsFiniteSet(Active(scores))
    BY <2>1, SlotsFinite, FS_Subset
  <2> QED  BY <1>0, <2>1, <2>2, FS_CardinalityType, FS_EmptySet
<1>2. S \in SUBSET Score /\ S # {}
  BY <1>1 DEF Scores
<1> PICK mn, mx : mn = Min(S) /\ mx = Max(S)
  OBVIOUS
<1>3. /\ mn \in Score /\ mx \in Score
      /\ \A i \in Active(scores) : mn <= scores[i] /\ scores[i] <= mx
  <2>1. S \in SUBSET Score /\ \A i \in Active(scores) : scores[i] \in S
    BY <1>2
  <2> HIDE DEF S
  <2> QED  BY <1>2, <2>1, ExtremeScores
<1>4. mn \in Int /\ mx \in Int /\ mn <= mx /\ mx - mn <= PosInf - NegInf
  <2>1. PICK x \in Int : mn <= x /\ x <= mx
    <3>1. PICK i \in Active(scores) : TRUE
      BY <1>1
    <3>2. scores[i] \in Int
      BY <1>0, <1>1 DEF Scores, Score
    <3> QED  BY <1>3, <3>1, <3>2
  <2>2. mn \in Int /\ mx \in Int /\ NegInf <= mn /\ mx <= PosInf
    BY <1>0, <1>3 DEF Score
  <2> QED  BY <1>0, <2>1, <2>2
<1> PICK a \in Int, z \in Int : a = Unit * mn /\ z = Unit * mx
  BY <1>4, PointsOrdered
<1> PICK bracket : bracket = FirstBracket(scores)
  OBVIOUS
<1>5. /\ Lowest(scores) = a /\ Highest(scores) = z
      /\ bracket = [lo |-> GridAdd(a, -Reach), hi |-> GridAdd(z, Reach)]
  BY DEF FirstBracket, Lowest, Highest
<1>6. z - a <= Unit * (PosInf - NegInf) /\ a <= z /\ z <= Infinity
  <2>1. PosInf - NegInf \in Int /\ mx - mn \in Int
    BY <1>0, <1>4
  <2>2. Unit * (mx - mn) <= Unit * (PosInf - NegInf)
    BY <1>4, <2>1, PointsOrdered
  <2>3. Unit * (mx - mn) = z - a
    BY <1>4, ReachFacts
  <2>4. Unit * (PosInf - NegInf) \in Int /\ Unit * mn <= Unit * mx
    BY <1>4, <2>1, PointsOrdered
  <2>5. mx <= PosInf
    BY <1>3 DEF Score
  <2>6. Unit * mx <= Unit * PosInf
    BY <1>0, <1>4, <2>5, PointsOrdered
  <2> QED  BY <2>2, <2>3, <2>4, <2>6 DEF Infinity
<1> PICK left, right : left = GridAdd(a, -Reach) /\ right = GridAdd(z, Reach)
  OBVIOUS
<1>7. /\ a = Infinity => left = Infinity
      /\ a # Infinity => left = a - Reach /\ left < Infinity
  BY <1>6, ReachFacts DEF GridAdd
<1>8. /\ z + Reach >= Infinity => right = Infinity
      /\ z + Reach < Infinity => right = z + Reach
  <2>1. Reach < Infinity
    BY GridAssumption DEF Infinity
  <2> QED  BY <1>6, <2>1, ReachFacts DEF GridAdd
<1>9. /\ left \in Int /\ right \in Int /\ left <= right /\ right <= Infinity
      /\ a = Infinity => left = right
  BY <1>6, <1>7, <1>8, ReachFacts
<1>10. ASSUME a # Infinity PROVE SumShifted(scores, left) >= One * K
  <2> PICK w : w = Weights(scores, left)
    OBVIOUS
  <2>1. ASSUME NEW i \in Active(scores) PROVE w[i] = One
    <3>1. i \in Slot /\ scores[i] \in Int /\ mn <= scores[i]
      BY <1>0, <1>1, <1>3 DEF Scores, Score
    <3>2. PICK u \in Int : u = Unit * scores[i] /\ a <= u
      BY <1>4, <3>1, PointsOrdered
    <3>3. w[i] = Sigmoid(u - left)
      BY <1>7, <1>10, <3>1, <3>2 DEF Weights
    <3>4. u - left \in Int /\ u - left >= Reach
      BY <1>7, <1>10, <3>2, ReachFacts
    <3> QED  BY <3>3, <3>4, SigmoidRises
  <2>2. ASSUME NEW i \in Slot \ Active(scores) PROVE w[i] = 0
    BY <2>2 DEF Weights
  <2>3. Total(w, Active(scores)) = One * Cardinality(Active(scores))
    BY <1>1, <2>1, ReachFacts, TotalOfEqual
  <2>4. Total(w, Slot \ Active(scores)) = 0
    BY <2>2, SlotsFinite, FS_Subset, TotalOfZeros
  <2>5. Total(w, Slot) = Total(w, Active(scores)) + Total(w, Slot \ Active(scores))
    <3>1. \A i \in Slot : w[i] \in Int
      BY <2>1, <2>2, ReachFacts
    <3> QED  BY <1>1, <3>1, SlotsFinite, TotalSplit
  <2>6. One * Cardinality(Active(scores)) >= One * K
    BY <1>0, <1>1, ReachFacts, ProductOrdered
  <2>7. SumShifted(scores, left) = One * Cardinality(Active(scores))
    <3>1. One * Cardinality(Active(scores)) \in Int
      BY <1>1, ReachFacts
    <3> QED  BY <2>3, <2>4, <2>5, <3>1, SumIsTotal
  <2> QED  BY <2>6, <2>7
<1>11. SumShifted(scores, right) = 0 /\ One * K >= 0
  <2> PICK w : w = Weights(scores, right)
    OBVIOUS
  <2>1. ASSUME NEW i \in Slot PROVE w[i] = 0
    <3>1. CASE i \in Active(scores) /\ right < Infinity
      <4>1. scores[i] \in Int /\ scores[i] <= mx
        BY <1>0, <1>3, <3>1 DEF Scores, Score
      <4>2. PICK u \in Int : u = Unit * scores[i] /\ u <= z
        BY <1>4, <4>1, PointsOrdered
      <4>3. w[i] = Sigmoid(u - right)
        BY <3>1, <4>2 DEF Weights
      <4>4. u - right \in Int /\ u - right <= -Reach
        BY <1>8, <3>1, <4>2, ReachFacts
      <4> QED  BY <4>3, <4>4, SigmoidRises
    <3>2. CASE ~(i \in Active(scores) /\ right < Infinity)
      BY <3>2 DEF Weights
    <3> QED  BY <3>1, <3>2
  <2>2. Total(w, Slot) = 0
    BY <2>1, SlotsFinite, TotalOfZeros
  <2>3. One * K \in Nat
    BY <1>0, ReachFacts
  <2> QED  BY <2>2, <2>3, SumIsTotal
<1>12. right <= z + Reach \/ MayOverflow(scores)
  BY <1>5, <1>8, ReachFacts DEF MayOverflow
<1>13. (\E i \in Slot : scores[i] = PosInf) => right = Infinity
  <2> SUFFICES ASSUME NEW i \in Slot, scores[i] = PosInf PROVE right = Infinity
    OBVIOUS
  <2>1. i \in Active(scores)
    BY <1>0, GuardAssumption DEF Active
  <2>2. mx = PosInf
    BY <1>0, <1>3, <2>1 DEF Score
  <2>3. z = Infinity
    BY <2>2 DEF Infinity
  <2> QED  BY <1>8, <2>3, ReachFacts
<1>14. Brackets(scores, bracket)
  <2>1. bracket = [lo |-> left, hi |-> right]
    BY <1>5
  <2>2. CASE a # Infinity
    BY <1>5, <1>7, <1>9, <1>10, <1>11, <1>12, <1>13, <2>1, <2>2 DEF Brackets
  <2>3. CASE a = Infinity
    BY <1>5, <1>7, <1>9, <1>12, <1>13, <2>1, <2>3, ReachFacts DEF Brackets
  <2> QED  BY <2>2, <2>3
<1>15. bracket.hi - bracket.lo <= Unit * (PosInf - NegInf) + 2 * Reach
  <2>1. Unit * (PosInf - NegInf) \in Nat
    <3>1. PosInf - NegInf \in Nat
      BY <1>0
    <3> QED  BY <3>1, ReachFacts
  <2>2. right - left <= Unit * (PosInf - NegInf) + 2 * Reach
    <3>1. CASE a = Infinity
      BY <1>9, <2>1, <3>1, ReachFacts
    <3>2. CASE a # Infinity
      <4>1. right <= z + Reach /\ left = a - Reach
        BY <1>7, <1>8, <3>2, ReachFacts
      <4> QED  BY <1>6, <1>9, <2>1, <4>1, ReachFacts
    <3> QED  BY <3>1, <3>2
  <2> QED  BY <1>5, <2>2
<1> QED  BY <1>5, <1>14, <1>15

\* The middle of a bracket.
LEMMA MiddleWithin ==
  ASSUME NEW left \in Int, NEW right \in Int, left <= right
  PROVE  LET mid == (left + right) \div 2
         IN  /\ mid \in Int /\ left <= mid /\ mid <= right
             /\ mid - left <= (right - left + 1) \div 2
             /\ right - mid <= (right - left + 1) \div 2
             /\ (right - left + 1) \div 2 \in Int /\ 0 <= (right - left + 1) \div 2
<1> DEFINE mid == (left + right) \div 2
           half == (right - left + 1) \div 2
<1>1. mid \in Int /\ 2 * mid <= left + right /\ left + right <= 2 * mid + 1
  OBVIOUS
<1>2. half \in Int /\ 2 * half <= right - left + 1 /\ right - left <= 2 * half
  OBVIOUS
<1> HIDE DEF mid, half
<1>3. left <= mid /\ mid <= right
  BY <1>1
<1>4. mid - left <= half /\ right - mid <= half /\ 0 <= half
  BY <1>1, <1>2
<1> QED  BY <1>1, <1>2, <1>3, <1>4 DEF mid, half

\* The middle of the code is that, or infinite because the ends add up to more
\* than a float holds.
LEMMA MiddleOfBracket ==
  ASSUME NEW scores \in Scores, NEW bracket, Brackets(scores, bracket), Highest(scores) \in Int
  PROVE  \/ /\ Middle(bracket) = Infinity
            /\ MayOverflow(scores)
         \/ /\ Middle(bracket) = (bracket.lo + bracket.hi) \div 2
            /\ bracket.hi < Infinity /\ ~\E i \in Slot : scores[i] = PosInf
<1> PICK left \in Int, right \in Int : left = bracket.lo /\ right = bracket.hi
  BY DEF Brackets
<1>1. left <= right /\ right <= Infinity
  BY DEF Brackets
<1>2. CASE Infinity \in {left, right} \/ left + right >= Infinity
  <2>1. Middle(bracket) = Infinity
    BY <1>2 DEF Middle, GridAdd
  <2>2. 2 * right >= Infinity
    BY <1>1, <1>2, ReachFacts
  <2>3. right <= Highest(scores) + Reach \/ MayOverflow(scores)
    BY DEF Brackets
  <2> QED  BY <2>1, <2>2, <2>3, ReachFacts DEF MayOverflow
<1>3. CASE ~(Infinity \in {left, right} \/ left + right >= Infinity)
  <2>1. Middle(bracket) = (left + right) \div 2
    BY <1>3, ReachFacts DEF Middle, GridAdd
  <2>2. right < Infinity
    BY <1>1, <1>3, ReachFacts
  <2> QED  BY <2>1, <2>2, ReachFacts DEF Brackets
<1> QED  BY <1>2, <1>3

\* A narrow bracket has a middle that is right.
LEMMA NarrowIsClose ==
  ASSUME NEW scores \in Scores, NEW bracket, Brackets(scores, bracket),
         bracket.hi < Infinity, NEW mid \in Int, mid = (bracket.lo + bracket.hi) \div 2,
         bracket.hi - bracket.lo <= NarrowAt(mid)
  PROVE  Close(scores, mid)
<1> PICK left \in Int, right \in Int : left = bracket.lo /\ right = bracket.hi
  BY DEF Brackets
<1>1. left <= right /\ left <= mid /\ mid <= right /\ mid < Infinity
  <2>1. left <= right
    BY DEF Brackets
  <2>2. left <= mid /\ mid <= right
    BY <2>1, MiddleWithin
  <2> QED  BY <2>1, <2>2, ReachFacts
<1>2. CASE left = right /\ Close(scores, left)
  BY <1>1, <1>2
<1>3. CASE SumShifted(scores, left) >= One * K /\ SumShifted(scores, right) <= One * K
  <2>0. P \in Nat /\ Tolerance \in Nat
    BY PAssumption, GridAssumption
  <2> PICK n \in Nat : n = NarrowAt(mid)
    BY NarrowFacts
  <2>1. PICK u \in Int, w \in Int, x \in Int, due \in Int :
          /\ u = SumShifted(scores, left) /\ w = SumShifted(scores, mid)
          /\ x = SumShifted(scores, right) /\ due = One * K
    BY <1>1, SumFalls, ReachFacts, DimensionsAssumption
  <2>2. u <= w + P * (mid - left) /\ w <= x + P * (right - mid)
    BY <1>1, <2>1, SumFalls
  <2>3. PICK e \in Int : e = P * n
    BY <2>0
  <2>4. P * (mid - left) \in Int /\ P * (mid - left) <= e
    <3>1. mid - left \in Int /\ mid - left <= n
      BY <1>1
    <3> QED  BY <2>0, <2>3, <3>1, ProductOrdered
  <2>5. P * (right - mid) \in Int /\ P * (right - mid) <= e
    <3>1. right - mid \in Int /\ right - mid <= n
      BY <1>1
    <3> QED  BY <2>0, <2>3, <3>1, ProductOrdered
  <2>6. due <= w + e /\ w <= due + e
    BY <1>3, <2>1, <2>2, <2>4, <2>5
  <2>7. PICK slack \in Int : slack = Max({Tolerance, P * NarrowAt(mid)}) /\ e <= slack
    BY <2>3, SlackFacts
  <2>8. w - due \in -slack .. slack
    BY <2>6, <2>7
  <2> QED  BY <2>1, <2>3, <2>7, <2>8 DEF Close
<1> QED  BY <1>1, <1>2, <1>3 DEF Brackets

\* A halving keeps the threshold in the bracket, and halves it.
LEMMA HalveBrackets ==
  ASSUME NEW scores \in Scores, NEW bracket, Brackets(scores, bracket), Highest(scores) \in Int
  PROVE  LET next == Halve(scores, bracket)
         IN  /\ Brackets(scores, next)
             /\ next.hi - next.lo <= (bracket.hi - bracket.lo + 1) \div 2
<1> PICK left \in Int, right \in Int : left = bracket.lo /\ right = bracket.hi
  BY DEF Brackets
<1> PICK mid, next : mid = Middle(bracket) /\ next = Halve(scores, bracket)
  OBVIOUS
<1>1. left <= right /\ bracket = [lo |-> left, hi |-> right]
  BY DEF Brackets
<1> PICK half \in Int : half = (right - left + 1) \div 2 /\ 0 <= half
  BY <1>1, MiddleWithin
<1>2. CASE mid = Infinity /\ MayOverflow(scores)
  <2>1. next = [lo |-> mid, hi |-> mid]
    BY <1>2 DEF Halve, Stops
  <2> QED  BY <1>2, <2>1, ReachFacts DEF Brackets
<1>3. CASE /\ mid = (left + right) \div 2
           /\ right < Infinity /\ ~\E i \in Slot : scores[i] = PosInf
  <2>1. /\ mid \in Int /\ left <= mid /\ mid <= right
        /\ mid - left <= half /\ right - mid <= half
    BY <1>1, <1>3, MiddleWithin
  <2>2. mid < Infinity /\ left < Infinity /\ right < Infinity
    BY <1>1, <1>3, <2>1, ReachFacts
  <2>3. right <= Highest(scores) + Reach \/ MayOverflow(scores)
    BY DEF Brackets
  <2>4. mid <= Highest(scores) + Reach \/ MayOverflow(scores)
    BY <2>1, <2>3, ReachFacts
  <2>5. CASE Stops(scores, bracket)
    <3>1. next = [lo |-> mid, hi |-> mid]
      BY <2>5 DEF Halve
    <3>2. Close(scores, mid)
      <4>1. CASE SumShifted(scores, mid) - One * K \in -Tolerance .. Tolerance
        <5>1. PICK slack \in Int :
                slack = Max({Tolerance, P * NarrowAt(mid)}) /\ Tolerance <= slack
          BY <2>1, SlackFacts
        <5>2. SumShifted(scores, mid) - One * K \in -slack .. slack
          BY <4>1, <5>1, GridAssumption
        <5> QED  BY <5>1, <5>2 DEF Close
      <4>2. CASE right - left <= NarrowAt(mid)
        BY <1>3, <2>1, <4>2, NarrowIsClose
      <4> QED  BY <2>2, <2>5, <4>1, <4>2, ReachFacts DEF Stops
    <3> QED  BY <1>3, <2>1, <2>2, <2>4, <3>1, <3>2, ReachFacts DEF Brackets
  <2>6. CASE ~Stops(scores, bracket)
    <3>1. left # right
      <4>1. ~(right - left <= NarrowAt(mid))
        BY <2>6 DEF Stops
      <4> QED  BY <2>1, <4>1, NarrowFacts
    <3>2. SumShifted(scores, left) >= One * K /\ SumShifted(scores, right) <= One * K
      BY <3>1 DEF Brackets
    <3>3. SumShifted(scores, mid) \in Int /\ One * K \in Int
      BY <2>1, SumFalls, ReachFacts, DimensionsAssumption
    <3>4. CASE SumShifted(scores, mid) > One * K
      <4>1. next = [lo |-> mid, hi |-> right]
        BY <1>1, <2>6, <3>4 DEF Halve
      <4> QED  BY <1>3, <2>1, <2>2, <2>3, <3>2, <3>3, <3>4, <4>1, ReachFacts DEF Brackets
    <3>5. CASE ~(SumShifted(scores, mid) > One * K)
      <4>1. next = [lo |-> left, hi |-> mid]
        BY <1>1, <2>6, <3>5 DEF Halve
      <4> QED  BY <1>3, <2>1, <2>2, <2>4, <3>2, <3>3, <3>5, <4>1, ReachFacts DEF Brackets
    <3> QED  BY <3>4, <3>5
  <2> QED  BY <2>5, <2>6
<1> QED  BY <1>2, <1>3, MiddleOfBracket

-----------------------------------------------------------------------------
\* f lists the brackets of the search.
Bisects(scores, f) ==
  f = [n \in 0 .. MaxIters |->
         IF n = 0 THEN FirstBracket(scores) ELSE Halve(scores, f[n - 1])]

\* There is such a list.
LEMMA BisectionExists ==
  ASSUME NEW scores
  PROVE  \E f : Bisects(scores, f)
<1> DEFINE Link(f, n) == IF n = 0 THEN FirstBracket(scores) ELSE Halve(scores, f[n - 1])
           Upto(f, m) == \A n \in 0 .. m : f[n] = Link(f, n)
           Good == {m \in Nat : \E f : Upto(f, m)}
<1>1. 0 \in Good
  <2> DEFINE f == [n \in {0} |-> FirstBracket(scores)]
  <2>1. Upto(f, 0)
    OBVIOUS
  <2>2. \E e : Upto(e, 0)
    <3> HIDE DEF f, Upto
    <3> QED  BY <2>1
  <2> QED  BY <2>2
<1>2. ASSUME NEW m \in Nat, m \in Good PROVE m + 1 \in Good
  <2>1. PICK f : Upto(f, m)
    BY <1>2
  <2> DEFINE g == [n \in 0 .. m + 1 |-> IF n <= m THEN f[n] ELSE Halve(scores, f[m])]
  <2>2. ASSUME NEW n \in 0 .. m + 1 PROVE g[n] = Link(g, n)
    <3>1. CASE n = 0
      BY <2>1, <3>1
    <3>2. CASE n \in 1 .. m
      <4>1. g[n] = f[n] /\ g[n - 1] = f[n - 1] /\ f[n] = Halve(scores, f[n - 1])
        BY <2>1, <3>2
      <4> HIDE DEF g
      <4> QED  BY <3>2, <4>1
    <3>3. CASE n = m + 1
      <4>1. g[n] = Halve(scores, f[m]) /\ g[n - 1] = f[m] /\ n # 0
        BY <3>3
      <4> HIDE DEF g
      <4> QED  BY <4>1
    <3> QED  BY <2>2, <3>1, <3>2, <3>3
  <2>3. Upto(g, m + 1)
    BY <2>2
  <2>4. \E e : Upto(e, m + 1)
    <3> HIDE DEF g, Upto
    <3> QED  BY <2>3
  <2> QED  BY <2>4
<1>3. MaxIters \in Good
  <2>1. MaxIters \in Nat
    BY GridAssumption
  <2> HIDE DEF Good
  <2> QED  BY <1>1, <1>2, <2>1, NumberInduction
<1>4. PICK f : Upto(f, MaxIters)
  BY <1>3
<1> DEFINE g == [n \in 0 .. MaxIters |-> f[n]]
<1>5. ASSUME NEW n \in 0 .. MaxIters PROVE g[n] = Link(g, n)
  <2>1. CASE n = 0
    BY <1>4, <2>1
  <2>2. CASE n # 0
    <3>1. n - 1 \in 0 .. MaxIters
      BY <2>2, GridAssumption
    <3>2. g[n] = f[n] /\ g[n - 1] = f[n - 1] /\ f[n] = Halve(scores, f[n - 1])
      BY <1>4, <2>2, <3>1
    <3> HIDE DEF g
    <3> QED  BY <2>2, <3>2
  <2> QED  BY <2>1, <2>2
<1>6. Bisects(scores, g)
  <2>1. \A n \in 0 .. MaxIters : g[n] = Link(g, n)
    BY <1>5
  <2>2. g = [n \in 0 .. MaxIters |-> g[n]]
    OBVIOUS
  <2> HIDE DEF g
  <2> QED  BY <2>1, <2>2 DEF Bisects
<1> QED
  <2> HIDE DEF g
  <2> QED  BY <1>6

\* theta is the middle of the last of them.
LEMMA ThetaIsLast ==
  ASSUME NEW scores
  PROVE  \E f : Bisects(scores, f) /\ Theta(scores) = Middle(f[MaxIters])
<1> DEFINE F == CHOOSE f : Bisects(scores, f)
<1>1. Bisects(scores, F)
  BY BisectionExists
<1>2. Theta(scores) = Middle(F[MaxIters])
  BY DEF Theta, Bisects
<1> QED  BY <1>1, <1>2

\* Enough halvings to bring the widest bracket down to the grid.
EnoughHalvings == \E width : Narrows(width) /\ width[MaxIters] <= 1

\* So theta is right, or infinite as it must be with an infinite score.
LEMMA ThetaIsClose ==
  ASSUME EnoughHalvings, NEW scores \in Scores, K < Cardinality(Active(scores))
  PROVE  \/ /\ Theta(scores) \in Int /\ Close(scores, Theta(scores))
            /\ ~\E i \in Slot : scores[i] = PosInf
         \/ Theta(scores) = Infinity /\ MayOverflow(scores)
<1> PICK f : Bisects(scores, f) /\ Theta(scores) = Middle(f[MaxIters])
  BY ThetaIsLast
<1> PICK width : Narrows(width) /\ width[MaxIters] <= 1
  BY DEF EnoughHalvings
<1>0. MaxIters \in Nat /\ Highest(scores) \in Int
  BY GridAssumption, FirstBrackets
<1>1. f[0] = FirstBracket(scores) /\ \A n \in 1 .. MaxIters : f[n] = Halve(scores, f[n - 1])
  BY <1>0 DEF Bisects
<1> DEFINE Fits(n) == Brackets(scores, f[n]) /\ f[n].hi - f[n].lo <= width[n]
           Good == {n \in Nat : n <= MaxIters => Fits(n)}
<1>2. 0 \in Good
  BY <1>1, FirstBrackets DEF Narrows
<1>3. ASSUME NEW n \in Nat, n \in Good PROVE n + 1 \in Good
  <2> SUFFICES ASSUME n + 1 <= MaxIters PROVE Fits(n + 1)
    OBVIOUS
  <2>1. n + 1 \in 1 .. MaxIters /\ n \in 0 .. MaxIters /\ (n + 1) - 1 = n /\ n <= MaxIters
    BY <1>0
  <2>2. /\ f[n + 1] = Halve(scores, f[n]) /\ Fits(n)
        /\ width[n + 1] = (width[n] + 1) \div 2 /\ width[n] \in Nat
    BY <1>1, <1>3, <2>1 DEF Narrows
  <2> PICK bracket, next, w : bracket = f[n] /\ next = f[n + 1] /\ w = width[n]
    OBVIOUS
  <2>3. /\ Brackets(scores, next)
        /\ next.hi - next.lo <= (bracket.hi - bracket.lo + 1) \div 2
    BY <1>0, <2>2, HalveBrackets
  <2>4. PICK p \in Int, q \in Int :
          p = bracket.hi - bracket.lo /\ q = next.hi - next.lo /\ p <= w
    BY <2>2, <2>3 DEF Brackets
  <2>5. q <= (w + 1) \div 2
    <3>1. q <= (p + 1) \div 2 /\ p <= w /\ w \in Int
      BY <2>2, <2>3, <2>4
    <3> QED  BY <3>1
  <2> QED  BY <2>2, <2>3, <2>4, <2>5
<1>4. MaxIters \in Good
  <2> HIDE DEF Good
  <2> QED  BY <1>0, <1>2, <1>3, NumberInduction
<1>5. Brackets(scores, f[MaxIters]) /\ f[MaxIters].hi - f[MaxIters].lo <= 1
  <2>1. Brackets(scores, f[MaxIters]) /\ f[MaxIters].hi - f[MaxIters].lo <= width[MaxIters]
    BY <1>0, <1>4
  <2>2. width[MaxIters] \in Nat
    BY <1>0 DEF Narrows
  <2> QED  BY <2>1, <2>2 DEF Brackets
<1> PICK bracket : bracket = f[MaxIters]
  OBVIOUS
<1>6. CASE /\ Middle(bracket) = (bracket.lo + bracket.hi) \div 2
           /\ bracket.hi < Infinity /\ ~\E i \in Slot : scores[i] = PosInf
  <2> PICK mid \in Int : mid = (bracket.lo + bracket.hi) \div 2
    BY <1>5 DEF Brackets
  <2>1. bracket.hi - bracket.lo <= NarrowAt(mid)
    BY <1>5, NarrowFacts DEF Brackets
  <2>2. Close(scores, mid)
    BY <1>5, <1>6, <2>1, NarrowIsClose
  <2> QED  BY <1>6, <2>2
<1> QED  BY <1>0, <1>5, <1>6, MiddleOfBracket

\* The weights are as promised whatever the pool.
LEMMA InclusionFills ==
  ASSUME EnoughHalvings, NEW scores \in Scores
  PROVE  LET weight == Inclusion(scores)
             count == Cardinality(Active(scores))
             crowded == K < count
             due == One * (IF crowded THEN K ELSE count)
             slack == IF crowded THEN Max({Tolerance, P * NarrowAt(Theta(scores))}) ELSE 0
         IN  /\ \/ Total(weight, Slot) - due \in -slack .. slack
                \/ crowded /\ MayOverflow(scores) /\ Total(weight, Slot) = 0
             /\ crowded /\ (\E i \in Slot : scores[i] = PosInf) => Total(weight, Slot) = 0
             /\ \A i \in Slot :
                  /\ weight[i] \in 0 .. One
                  /\ i \notin Active(scores) => weight[i] = 0
                  /\ \A j \in Slot : scores[i] > scores[j] => weight[i] >= weight[j]
<1> PICK weight, count : weight = Inclusion(scores) /\ count = Cardinality(Active(scores))
  OBVIOUS
<1>1. Active(scores) \in SUBSET Slot /\ IsFiniteSet(Active(scores)) /\ count \in Nat
  <2>1. Active(scores) \in SUBSET Slot
    BY DEF Active
  <2> QED  BY <2>1, SlotsFinite, FS_Subset, FS_CardinalityType
<1>2. K \in Nat /\ One \in Nat
  BY DimensionsAssumption, ReachFacts
<1>3. CASE K < count
  <2> PICK th : th = Theta(scores)
    OBVIOUS
  <2> DEFINE slack == Max({Tolerance, P * NarrowAt(th)})
  <2>1. weight = Weights(scores, th)
    BY <1>3 DEF Inclusion
  <2>2. ASSUME th \in Int, NEW i \in Slot
        PROVE  /\ weight[i] \in 0 .. One
               /\ i \notin Active(scores) => weight[i] = 0
               /\ \A j \in Slot : scores[i] > scores[j] => weight[i] >= weight[j]
    BY <2>1, <2>2, WeightFalls, WeightFollowsScore
  <2>3. CASE th \in Int /\ Close(scores, th) /\ ~\E i \in Slot : scores[i] = PosInf
    <3>1. Total(weight, Slot) - One * K \in -slack .. slack
      BY <2>1, <2>3, SumIsTotal DEF Close
    <3> HIDE DEF slack
    <3>2. Total(weight, Slot) - One * (IF K < count THEN K ELSE count)
            \in -(IF K < count THEN slack ELSE 0) .. (IF K < count THEN slack ELSE 0)
      BY <1>3, <3>1
    <3> QED  BY <2>2, <2>3, <3>2, Zenon DEF slack
  <2>4. CASE th = Infinity /\ MayOverflow(scores)
    <3>1. Total(weight, Slot) = 0
      BY <2>1, <2>4, SumFalls, SumIsTotal
    <3>2. th \in Int
      BY <2>4, ReachFacts
    <3> QED  BY <1>3, <2>2, <2>4, <3>1, <3>2, Zenon
  <2> QED  BY <1>3, <2>3, <2>4, ThetaIsClose
<1>4. CASE ~(K < count)
  <2>1. weight = [i \in Slot |-> IF i \in Active(scores) THEN One ELSE 0]
    BY <1>4 DEF Inclusion
  <2>2. Total(weight, Slot) = One * count
    <3>1. Total(weight, Active(scores)) = One * count
      BY <1>1, <1>2, <2>1, TotalOfEqual
    <3>2. Total(weight, Slot \ Active(scores)) = 0
      BY <2>1, SlotsFinite, FS_Subset, TotalOfZeros
    <3>3. Total(weight, Slot) = Total(weight, Active(scores)) + Total(weight, Slot \ Active(scores))
      BY <1>1, <1>2, <2>1, SlotsFinite, TotalSplit
    <3>4. One * count \in Int
      BY <1>1, <1>2
    <3> QED  BY <3>1, <3>2, <3>3, <3>4
  <2>3. Total(weight, Slot) - One * count \in -0 .. 0
    <3>1. PICK d \in Int : d = One * count
      BY <1>1, <1>2
    <3> QED  BY <2>2, <3>1
  <2>4. ASSUME NEW i \in Slot
        PROVE  /\ weight[i] \in 0 .. One
               /\ i \notin Active(scores) => weight[i] = 0
               /\ \A j \in Slot : scores[i] > scores[j] => weight[i] >= weight[j]
    <3>1. weight[i] = IF i \in Active(scores) THEN One ELSE 0
      BY <2>1
    <3>2. ASSUME NEW j \in Slot, scores[i] > scores[j] PROVE weight[i] >= weight[j]
      <4>1. j \in Active(scores) => i \in Active(scores)
        BY <3>2, InfAssumption, GuardAssumption DEF Scores, Score, Active
      <4> QED  BY <1>2, <2>1, <4>1
    <3> QED  BY <1>2, <3>1, <3>2
  <2> QED  BY <1>4, <2>3, <2>4
<1> QED  BY <1>3, <1>4

\* With enough halvings the weights of every complete pool add up to the beam
\* size, or to as many candidates as there are, but for the tolerance or what the
\* last width of the search makes of P sigmoids, unless a threshold beyond the
\* range of the floats leaves no weight at all, as every infinite score does; they
\* are shares, and in the order of the scores.
THEOREM DecodeInclusionFillsBeam ==
  ASSUME EnoughHalvings
  PROVE  Spec => []InclusionFillsBeam
<1>1. ASSUME TypeOK PROVE InclusionFillsBeam
  <2> PICK scores : scores = [i \in Slot |-> top[i].score]
    OBVIOUS
  <2>1. scores \in Scores
    BY <1>1 DEF TypeOK, Buffer, Candidate, Scores
  <2>2. \A f : MapThenSumSet(LAMBDA i : f[i], Slot) = Total(f, Slot)
    BY DEF Total
  <2> QED  BY <1>1, <2>1, <2>2, InclusionFills DEF InclusionFillsBeam
<1> QED  BY <1>1, DecodeTypeOK, PTL
=============================================================================
