--------------------------- MODULE CudaForwardProofs ---------------------------
(***************************************************************************)
(* Both CUDA forward kernels for every beam size, vocabulary, number of    *)
(* steps and of lanes: they stay in bounds, the barriers keep the lanes    *)
(* apart, and every step selects the best K continuations, in the order of *)
(* the CPU decoder.                                                        *)
(***************************************************************************)
EXTENDS CudaForward, WellFoundedInduction, TLAPS

(***************************************************************************)
(* Lists.  An entry that stands for a continuation is Real: its flag is    *)
(* determined by its token, so that Precedes tells any two of them apart.  *)
(***************************************************************************)
Real ==
  {e \in Entry : /\ e.parent \in BeamId /\ e.token \in Token
                 /\ e.ended <=> EOS >= 0 /\ e.token = EOS}

Listed == Real \cup {NoCandidate}

Listing == [BeamId -> Listed]

\* The list is the best K of S, in order, padded with NoCandidate.
ListHolds(list, S) ==
  /\ \A i \in BeamId : list[i] \in S \cup {NoCandidate}
  /\ \A i, j \in BeamId : i < j => Precedes(list[i], list[j]) \/ list[j] = NoCandidate
  /\ \A c \in S : (\E i \in BeamId : list[i] = c) \/ Precedes(list[K - 1], c)

-----------------------------------------------------------------------------
(***************************************************************************)
(* Arithmetic of strides.                                                  *)
(***************************************************************************)
\* Division with a remainder, and that it is unique.
LEMMA DivMod ==
  ASSUME NEW x \in Nat, NEW n \in Nat \ {0}
  PROVE  x = n * (x \div n) + (x % n) /\ x % n \in 0 .. n - 1 /\ x \div n \in Nat
OBVIOUS

LEMMA MulStep ==
  ASSUME NEW a \in Nat, NEW b \in Nat, NEW n \in Nat, a < b
  PROVE  n * a + n <= n * b
<1>1. PICK d \in Nat : b = a + 1 + d
  <2>1. b - a - 1 \in Nat /\ b = a + 1 + (b - a - 1)
    OBVIOUS
  <2> QED  BY <2>1
<1>2. n * b = n * a + n + n * d /\ n * d >= 0
  BY <1>1
<1>3. n * a \in Int /\ n * b \in Int /\ n * d \in Int
  OBVIOUS
<1> QED  BY <1>2, <1>3

LEMMA DivModUnique ==
  ASSUME NEW x \in Nat, NEW n \in Nat \ {0}, NEW q \in Nat, NEW r \in 0 .. n - 1,
         x = n * q + r
  PROVE  x \div n = q /\ x % n = r
<1>1. PICK p \in Nat, s \in 0 .. n - 1 : p = x \div n /\ s = x % n /\ x = n * p + s
  BY DivMod
<1>2. n * p \in Int /\ n * q \in Int
  OBVIOUS
<1>3. ~(p < q)
  <2>1. p < q => n * p + n <= n * q
    BY MulStep
  <2> QED  BY <1>1, <1>2, <2>1
<1>4. ~(q < p)
  <2>1. q < p => n * q + n <= n * p
    BY MulStep
  <2> QED  BY <1>1, <1>2, <2>1
<1> QED  BY <1>1, <1>2, <1>3, <1>4

\* Two numbers of the same class that are less than a stride apart are equal.
LEMMA SameClass ==
  ASSUME NEW x \in Nat, NEW y \in Nat, NEW n \in Nat \ {0},
         x % n = y % n, x <= y, y < x + n
  PROVE  x = y
<1>1. PICK p \in Nat, r \in 0 .. n - 1 : r = x % n /\ x = n * p + r
  BY DivMod
<1>2. PICK q \in Nat, s \in 0 .. n - 1 : s = y % n /\ y = n * q + s
  BY DivMod
<1>3. n * p \in Int /\ n * q \in Int
  OBVIOUS
<1>4. p < q => n * p + n <= n * q
  BY MulStep
<1>5. q < p => n * q + n <= n * p
  BY MulStep
<1> QED  BY <1>1, <1>2, <1>3, <1>4, <1>5

\* A stride leads to the same class.
LEMMA NextInClass ==
  ASSUME NEW x \in Nat, NEW n \in Nat \ {0}
  PROVE  (x + n) % n = x % n
<1>1. PICK p \in Nat, s \in 0 .. n - 1 : s = x % n /\ x = n * p + s
  BY DivMod
<1>2. x + n = n * (p + 1) + s
  <2>1. n * (p + 1) = n * p + n /\ n * p \in Int
    OBVIOUS
  <2> QED  BY <1>1, <2>1
<1>3. x + n \in Nat /\ p + 1 \in Nat
  OBVIOUS
<1> QED  BY <1>1, <1>2, <1>3, DivModUnique

LEMMA SmallMod ==
  ASSUME NEW n \in Nat \ {0}, NEW x \in 0 .. n - 1
  PROVE  x % n = x
<1>1. x = n * 0 + x /\ x \in Nat
  OBVIOUS
<1> QED  BY <1>1, DivModUnique
-----------------------------------------------------------------------------
\* The fields of an entry.
LEMMA ListedFields ==
  ASSUME NEW e \in Listed
  PROVE  /\ e.score \in Int /\ e.parent \in Int /\ e.token \in Int
         /\ e.length \in Int /\ e.fromLogprob \in Int
         /\ e.score \in Score /\ e.length \in Nat /\ e.fromLogprob \in {0, 1}
         /\ e.parent \in 0 .. K /\ e.token \in 0 .. V /\ e.ended \in BOOLEAN
         /\ e \in Entry
         /\ e.ended <=> EOS >= 0 /\ e.token = EOS
<1>1. CASE e \in Real
  BY <1>1, DimensionsAssumption DEF Real, Entry, Score, BeamId, Token
<1>2. CASE e = NoCandidate
  BY <1>2, DimensionsAssumption, InfAssumption, OptionsAssumption
     DEF NoCandidate, Entry, Score
<1> QED  BY <1>1, <1>2 DEF Listed

\* Nothing comes after the sentinel, whose indices are beyond the arrays.
LEMMA NoCandidateLast ==
  ASSUME NEW e \in Real
  PROVE  /\ Precedes(e, NoCandidate) /\ ~Precedes(NoCandidate, e)
         /\ e # NoCandidate /\ e \in Listed /\ e.parent \in BeamId
<1>1. e \in Listed /\ NoCandidate.parent = K /\ NoCandidate.score = NegInf
  BY DEF Listed, NoCandidate
<1>2. e.score \in Score /\ e.score \in Int /\ e.parent \in BeamId
  BY <1>1, ListedFields DEF Real
<1>3. e.score >= NegInf /\ e.parent < K /\ e.parent \in Int /\ NegInf \in Int
  BY <1>2, DimensionsAssumption, InfAssumption DEF Score, BeamId
<1> QED  BY <1>1, <1>2, <1>3, DimensionsAssumption DEF Precedes

LEMMA SentinelAlone == NoCandidate \in Listed /\ ~Precedes(NoCandidate, NoCandidate)
<1>1. NoCandidate \in Listed
  BY DEF Listed
<1>2. PICK c \in Listed : c = NoCandidate
  BY <1>1
<1>3. ~Precedes(c, c)
  BY ListedFields DEF Precedes
<1> QED  BY <1>1, <1>2, <1>3

\* better_candidate is a strict total order on the entries of a list.
LEMMA PrecedesAsymmetric ==
  ASSUME NEW x \in Listed, NEW y \in Listed, Precedes(x, y)
  PROVE  ~Precedes(y, x)
BY ListedFields DEF Precedes

LEMMA PrecedesTransitive ==
  ASSUME NEW x \in Listed, NEW y \in Listed, NEW z \in Listed,
         Precedes(x, y), Precedes(y, z)
  PROVE  Precedes(x, z)
BY ListedFields DEF Precedes

LEMMA PrecedesTotal ==
  ASSUME NEW x \in Listed, NEW y \in Listed, ~Precedes(x, y), ~Precedes(y, x)
  PROVE  x = y
<1>1. /\ x.score = y.score /\ x.parent = y.parent /\ x.token = y.token
      /\ x.length = y.length /\ x.fromLogprob = y.fromLogprob
  BY ListedFields DEF Precedes
<1>2. x.ended = y.ended
  BY <1>1, ListedFields
<1>3. x \in Entry /\ y \in Entry
  BY ListedFields
<1> QED  BY <1>1, <1>2, <1>3 DEF Entry

\* What is in a list is in order.
LEMMA ListOrder ==
  ASSUME NEW list \in Listing, NEW S, S \subseteq Real, ListHolds(list, S),
         NEW i \in BeamId, NEW j \in BeamId, i < j
  PROVE  ~Precedes(list[j], list[i])
<1>1. list[i] \in Listed /\ list[j] \in Listed
  BY DEF Listing
<1>2. CASE Precedes(list[i], list[j])
  BY <1>1, <1>2, PrecedesAsymmetric
<1>3. CASE list[j] = NoCandidate
  BY <1>1, <1>3, NoCandidateLast, SentinelAlone DEF Listed
<1> QED  BY <1>2, <1>3 DEF ListHolds

LEMMA EmptyListHolds == EmptyList \in Listing /\ ListHolds(EmptyList, {})
BY DEF EmptyList, Listing, Listed, ListHolds

-----------------------------------------------------------------------------
\* An entry put where the list's entries begin to come after it.
LEMMA PlaceHolds ==
  ASSUME NEW list \in Listing, NEW S, S \subseteq Real, ListHolds(list, S),
         NEW c \in Real, c \notin S, NEW pos \in BeamId, Precedes(c, list[pos]),
         \A j \in 0 .. pos - 1 : ~Precedes(c, list[j])
  PROVE  /\ PlaceAt(list, c, pos) \in Listing
         /\ ListHolds(PlaceAt(list, c, pos), S \cup {c})
<1> DEFINE new == PlaceAt(list, c, pos)
<1>0. /\ BeamId = 0 .. K - 1 /\ K \in Nat /\ K - 1 \in BeamId /\ pos \in Int
      /\ 0 <= pos /\ pos <= K - 1
  BY DimensionsAssumption DEF BeamId
<1>1. \A i \in BeamId : list[i] \in Listed
  BY DEF Listing
<1>2. c \in Listed /\ c # NoCandidate
  BY NoCandidateLast
<1>3. /\ \A i \in BeamId : i < pos => new[i] = list[i]
      /\ new[pos] = c
      /\ \A i \in BeamId : i > pos => new[i] = list[i - 1] /\ i - 1 \in BeamId
  BY <1>0 DEF PlaceAt
<1>4. new \in Listing
  <2>1. \A i \in BeamId : new[i] \in Listed
    BY <1>0, <1>1, <1>2, <1>3
  <2> QED  BY <2>1 DEF Listing, PlaceAt
<1>5. \A i, j \in BeamId : i < j => Precedes(list[i], list[j]) \/ list[j] = NoCandidate
  BY DEF ListHolds
<1>6. \A j \in BeamId : j >= pos => Precedes(c, list[j])
  <2> TAKE j \in BeamId
  <2> HAVE j >= pos
  <2>1. CASE j = pos
    BY <2>1
  <2>2. CASE j > pos /\ list[j] = NoCandidate
    BY <2>2, NoCandidateLast
  <2>3. CASE j > pos /\ Precedes(list[pos], list[j])
    BY <1>1, <1>2, <2>3, PrecedesTransitive
  <2>4. j = pos \/ j > pos
    BY <1>0
  <2> QED  BY <1>0, <1>5, <2>1, <2>2, <2>3, <2>4
<1>7. \A j \in BeamId : j < pos => Precedes(list[j], c)
  <2> TAKE j \in BeamId
  <2> HAVE j < pos
  <2>1. ~Precedes(c, list[j])
    BY <1>0
  <2>2. list[j] # c
    BY <1>2 DEF ListHolds
  <2> QED  BY <1>1, <1>2, <2>1, <2>2, PrecedesTotal
<1>8. ASSUME NEW i \in BeamId, NEW j \in BeamId, i < j
      PROVE  Precedes(new[i], new[j]) \/ new[j] = NoCandidate
  <2>1. CASE j < pos
    <3>1. i < pos
      BY <1>0, <1>8, <2>1
    <3> QED  BY <1>3, <1>5, <1>8, <2>1, <3>1
  <2>2. CASE j = pos
    BY <1>3, <1>7, <1>8, <2>2
  <2>3. CASE j > pos
    <3>1. new[j] = list[j - 1] /\ j - 1 \in BeamId
      BY <1>3, <2>3
    <3>2. CASE i < pos
      <4>1. i < j - 1 /\ new[i] = list[i]
        BY <1>0, <1>3, <2>3, <3>2
      <4> QED  BY <1>5, <3>1, <4>1
    <3>3. CASE i = pos
      <4>1. j - 1 >= pos
        BY <1>0, <2>3
      <4> QED  BY <1>3, <1>6, <3>1, <3>3, <4>1
    <3>4. CASE i > pos
      <4>1. new[i] = list[i - 1] /\ i - 1 \in BeamId /\ i - 1 < j - 1
        BY <1>0, <1>3, <1>8, <3>4
      <4> QED  BY <1>5, <3>1, <4>1
    <3> QED  BY <1>0, <3>2, <3>3, <3>4
  <2> QED  BY <1>0, <2>1, <2>2, <2>3
<1>9. \A i \in BeamId : new[i] \in (S \cup {c}) \cup {NoCandidate}
  BY <1>0, <1>3 DEF ListHolds
<1>10. ASSUME NEW d \in S \cup {c}
       PROVE  (\E i \in BeamId : new[i] = d) \/ Precedes(new[K - 1], d)
  <2>1. CASE d = c
    BY <1>3, <2>1
  <2>2. CASE d # c
    <3>1. d \in S /\ d \in Real
      BY <2>2
    <3>2. CASE \E i \in BeamId : list[i] = d
      <4>1. PICK i \in BeamId : list[i] = d
        BY <3>2
      <4>2. CASE i < pos
        BY <1>3, <4>1, <4>2
      <4>3. CASE pos <= i /\ i < K - 1
        <5>1. PICK n \in BeamId : n = i + 1
          BY <1>0, <4>3
        <5>2. n > pos /\ n - 1 = i
          BY <1>0, <4>3, <5>1
        <5> QED  BY <1>3, <4>1, <5>2
      <4>4. CASE i = K - 1
        <5>1. CASE pos = K - 1
          BY <1>3, <4>1, <4>4, <5>1
        <5>2. CASE pos < K - 1
          <6>1. new[K - 1] = list[K - 1 - 1] /\ K - 1 - 1 \in BeamId /\ K - 1 - 1 < K - 1
            BY <1>0, <1>3, <5>2
          <6>2. d # NoCandidate
            BY <3>1, NoCandidateLast
          <6> QED  BY <1>0, <1>5, <4>1, <4>4, <6>1, <6>2
        <5> QED  BY <1>0, <5>1, <5>2
      <4> QED  BY <1>0, <4>2, <4>3, <4>4
    <3>3. CASE Precedes(list[K - 1], d)
      <4>1. list[K - 1] # NoCandidate /\ d \in Listed
        BY <3>1, <3>3, NoCandidateLast
      <4>2. Precedes(new[K - 1], list[K - 1])
        <5>1. CASE pos = K - 1
          BY <1>3, <5>1
        <5>2. CASE pos < K - 1
          <6>1. new[K - 1] = list[K - 1 - 1] /\ K - 1 - 1 \in BeamId /\ K - 1 - 1 < K - 1
            BY <1>0, <1>3, <5>2
          <6> QED  BY <1>0, <1>5, <4>1, <6>1
        <5> QED  BY <1>0, <5>1, <5>2
      <4>3. new[K - 1] \in Listed /\ list[K - 1] \in Listed
        BY <1>0, <1>1, <1>4 DEF Listing
      <4> QED  BY <3>3, <4>1, <4>2, <4>3, PrecedesTransitive
    <3> QED  BY <3>1, <3>2, <3>3 DEF ListHolds
  <2> QED  BY <2>1, <2>2
<1> QED  BY <1>4, <1>8, <1>9, <1>10 DEF ListHolds

\* An entry that does not precede the last one may be left out.
LEMMA LeaveOutHolds ==
  ASSUME NEW list \in Listing, NEW S, S \subseteq Real, ListHolds(list, S),
         NEW c \in Real, c \notin S, ~Precedes(c, list[K - 1])
  PROVE  ListHolds(list, S \cup {c})
<1>1. K - 1 \in BeamId /\ c \in Listed /\ c # NoCandidate
  BY DimensionsAssumption, NoCandidateLast DEF BeamId
<1>2. list[K - 1] \in Listed /\ list[K - 1] # c
  BY <1>1 DEF Listing, ListHolds
<1>3. Precedes(list[K - 1], c)
  BY <1>1, <1>2, PrecedesTotal
<1> QED  BY <1>3 DEF ListHolds

\* The first slot an entry precedes.
LEMMA FirstPreceded ==
  ASSUME NEW list, NEW c, NEW i \in BeamId, Precedes(c, list[i])
  PROVE  \E pos \in BeamId : /\ Precedes(c, list[pos])
                             /\ \A j \in 0 .. pos - 1 : ~Precedes(c, list[j])
<1> DEFINE L == {j \in BeamId : Precedes(c, list[j])}
<1>1. L \subseteq Nat /\ i \in L
  BY DimensionsAssumption DEF BeamId
<1>2. \E x \in L : \A y \in L : ~(<<y, x>> \in OpToRel(<, Nat))
  <2> HIDE DEF L
  <2> QED  BY <1>1, NatLessThanWellFounded, WFMin, Zenon
<1>3. PICK x \in L : \A y \in L : ~(<<y, x>> \in OpToRel(<, Nat))
  BY <1>2
<1>4. \A y \in L : ~(y < x)
  BY <1>1, <1>3 DEF OpToRel
<1>5. x \in BeamId /\ Precedes(c, list[x]) /\ \A j \in 0 .. x - 1 : ~Precedes(c, list[j])
  BY <1>4, DimensionsAssumption DEF BeamId
<1> QED  BY <1>5

\* The serial kernel's search ends there;
LEMMA FrontIsFirst ==
  ASSUME NEW list, NEW c, NEW pos \in BeamId, Precedes(c, list[pos]),
         \A j \in 0 .. pos - 1 : ~Precedes(c, list[j])
  PROVE  InsertFromFront(list, c) = PlaceAt(list, c, pos)
<1> DEFINE later == {i \in BeamId : Precedes(c, list[i])}
           Least(i) == \A j \in later : i <= j
<1>1. BeamId = 0 .. K - 1 /\ K \in Nat
  BY DimensionsAssumption DEF BeamId
<1>2. pos \in later /\ Least(pos)
  BY <1>1
<1>3. \A i \in later : Least(i) => i = pos
  BY <1>1, <1>2
<1>4. (CHOOSE i \in later : Least(i)) = pos
  <2> HIDE DEF later, Least
  <2> QED  BY <1>2, <1>3
<1> QED  BY <1>2, <1>4 DEF InsertFromFront

\* the search from the back ends there too, because the list is sorted.
LEMMA BackIsFirst ==
  ASSUME NEW list \in Listing, NEW S, S \subseteq Real, ListHolds(list, S),
         NEW c \in Real, NEW pos \in BeamId, Precedes(c, list[pos]),
         \A j \in 0 .. pos - 1 : ~Precedes(c, list[j])
  PROVE  InsertFromBack(list, c) = PlaceAt(list, c, pos)
<1> DEFINE Above(i) == i = 0 \/ ~Precedes(c, list[i - 1])
           Stop(i) == Above(i) /\ \A j \in i .. K - 1 : Precedes(c, list[j])
<1>1. BeamId = 0 .. K - 1 /\ K \in Nat /\ K - 1 \in BeamId /\ pos \in Int
  BY DimensionsAssumption DEF BeamId
<1>2. \A i \in BeamId : list[i] \in Listed
  BY DEF Listing
<1>3. \A j \in BeamId : j >= pos => Precedes(c, list[j])
  <2> TAKE j \in BeamId
  <2> HAVE j >= pos
  <2>1. CASE j = pos
    BY <2>1
  <2>2. CASE j > pos
    <3>1. ~Precedes(list[j], list[pos])
      BY <2>2, ListOrder
    <3>2. c \in Listed /\ list[j] \in Listed /\ list[pos] \in Listed
      BY <1>2, NoCandidateLast
    <3>3. list[j] = list[pos] \/ Precedes(list[pos], list[j])
      BY <3>1, <3>2, PrecedesTotal
    <3> QED  BY <3>2, <3>3, PrecedesTransitive
  <2> QED  BY <1>1, <2>1, <2>2
<1>4. Stop(pos)
  BY <1>1, <1>3
<1>5. \A i \in BeamId : Stop(i) => i = pos
  <2> TAKE i \in BeamId
  <2> HAVE Stop(i)
  <2>1. ~(i < pos)
    BY <1>1
  <2>2. ~(i > pos)
    <3>1. i > pos => i - 1 \in BeamId /\ i - 1 >= pos /\ i # 0
      BY <1>1
    <3> QED  BY <1>3, <3>1
  <2> QED  BY <1>1, <2>1, <2>2
<1>6. (CHOOSE i \in BeamId : Stop(i)) = pos
  <2> HIDE DEF Stop
  <2> QED  BY <1>4, <1>5
<1>7. Precedes(c, list[K - 1])
  BY <1>1, <1>3
<1> QED  BY <1>6, <1>7 DEF InsertFromBack

\* Both ways to insert keep the best K of what was offered.
LEMMA InsertHolds ==
  ASSUME NEW list \in Listing, NEW S, S \subseteq Real, ListHolds(list, S),
         NEW c \in Real, c \notin S
  PROVE  /\ InsertFromBack(list, c) \in Listing
         /\ ListHolds(InsertFromBack(list, c), S \cup {c})
         /\ InsertFromFront(list, c) \in Listing
         /\ ListHolds(InsertFromFront(list, c), S \cup {c})
<1>1. CASE Precedes(c, list[K - 1])
  <2>1. K - 1 \in BeamId
    BY DimensionsAssumption DEF BeamId
  <2>2. PICK pos \in BeamId : /\ Precedes(c, list[pos])
                              /\ \A j \in 0 .. pos - 1 : ~Precedes(c, list[j])
    BY <1>1, <2>1, FirstPreceded
  <2> QED  BY <2>2, PlaceHolds, FrontIsFirst, BackIsFirst
<1>2. CASE ~Precedes(c, list[K - 1])
  <2>1. InsertFromBack(list, c) = list
    BY <1>2 DEF InsertFromBack
  <2>2. \A i \in BeamId : ~Precedes(c, list[i])
    <3> TAKE i \in BeamId
    <3>1. BeamId = 0 .. K - 1 /\ K - 1 \in BeamId
      BY DimensionsAssumption DEF BeamId
    <3>2. i = K - 1 \/ i < K - 1
      BY <3>1, DimensionsAssumption
    <3>3. ~Precedes(list[K - 1], list[i]) \/ i = K - 1
      BY <3>1, <3>2, ListOrder
    <3>4. c \in Listed /\ list[i] \in Listed /\ list[K - 1] \in Listed
      BY <3>1, NoCandidateLast DEF Listing
    <3> QED  BY <1>2, <3>3, <3>4, PrecedesTransitive, PrecedesTotal
  <2>3. InsertFromFront(list, c) = list
    BY <2>2 DEF InsertFromFront
  <2> QED  BY <1>2, <2>1, <2>3, LeaveOutHolds
<1> QED  BY <1>1, <1>2

\* The empty slots of a list that is merged are not inserted.
LEMMA SentinelStaysOut ==
  ASSUME NEW list \in Listing
  PROVE  InsertFromBack(list, NoCandidate) = list
<1>1. list[K - 1] \in Listed
  BY DimensionsAssumption DEF Listing, BeamId
<1>2. ~Precedes(NoCandidate, list[K - 1])
  BY <1>1, NoCandidateLast, SentinelAlone DEF Listed
<1> QED  BY <1>2 DEF InsertFromBack

-----------------------------------------------------------------------------
(***************************************************************************)
(* The best K of the best K of each lane are the best K of all.  What a    *)
(* lane has left out comes after the K entries of its list; if one of      *)
(* these is not in the merged list, the merged list is full of better      *)
(* ones, and otherwise they fill it.                                       *)
(***************************************************************************)
LEMMA BestOfBest ==
  ASSUME NEW all \in Listing, NEW U, U \subseteq Real, ListHolds(all, U),
         NEW list \in Listing, NEW S, S \subseteq Real, ListHolds(list, S),
         \A i \in BeamId : list[i] \in U \cup {NoCandidate},
         NEW c \in S
  PROVE  (\E i \in BeamId : all[i] = c) \/ Precedes(all[K - 1], c)
<1>0. BeamId = 0 .. K - 1 /\ K \in Nat /\ K - 1 \in BeamId
  BY DimensionsAssumption DEF BeamId
<1>1. \A i \in BeamId : list[i] \in Listed /\ all[i] \in Listed
  BY DEF Listing
<1>2. c \in Listed /\ c # NoCandidate
  BY NoCandidateLast
<1>3. CASE \E i \in BeamId : list[i] = c
  BY <1>2, <1>3 DEF ListHolds
<1>4. CASE Precedes(list[K - 1], c)
  <2> SUFFICES ASSUME ~Precedes(all[K - 1], c)  PROVE Precedes(all[K - 1], c)
    OBVIOUS
  <2>1. list[K - 1] # NoCandidate
    BY <1>4, NoCandidateLast
  <2>2. \A i \in BeamId : i = K - 1 \/ Precedes(list[i], list[K - 1])
    BY <1>0, <2>1 DEF ListHolds
  <2>3. \A i \in BeamId : list[i] # NoCandidate
    BY <1>0, <1>1, <2>1, <2>2, NoCandidateLast, SentinelAlone DEF Listed
  <2>4. \A i \in BeamId : Precedes(list[i], c)
    BY <1>0, <1>1, <1>2, <1>4, <2>2, PrecedesTransitive
  <2>5. \A i \in BeamId : \E j \in BeamId : all[j] = list[i]
    <3> TAKE i \in BeamId
    <3>1. list[i] \in U
      BY <2>3
    <3>2. ~Precedes(all[K - 1], list[i])
      BY <1>0, <1>1, <1>2, <2>4, PrecedesTransitive
    <3> QED  BY <3>1, <3>2 DEF ListHolds
  <2> DEFINE Early == {i \in BeamId : \E j \in BeamId : all[j] = list[i] /\ j < i}
  <2>6. Early = {}
    <3> SUFFICES ASSUME NEW e \in Early  PROVE FALSE
      OBVIOUS
    <3>1. Early \subseteq Nat
      BY <1>0
    <3>2. \E x \in Early : \A y \in Early : ~(<<y, x>> \in OpToRel(<, Nat))
      <4> HIDE DEF Early
      <4> QED  BY <3>1, NatLessThanWellFounded, WFMin, Zenon
    <3>3. PICK x \in Early : \A y \in Early : ~(<<y, x>> \in OpToRel(<, Nat))
      BY <3>2
    <3>4. \A y \in Early : ~(y < x)
      BY <3>1, <3>3 DEF OpToRel
    <3>5. PICK j \in BeamId : all[j] = list[x] /\ j < x
      OBVIOUS
    <3>6. x - 1 \in BeamId /\ x \in BeamId
      BY <1>0, <3>5
    <3>7. PICK n \in BeamId : all[n] = list[x - 1]
      BY <2>5, <3>6
    <3>8. n >= x - 1
      BY <1>0, <3>4, <3>6, <3>7
    <3>9. Precedes(list[x - 1], list[x])
      BY <1>0, <2>3, <3>6 DEF ListHolds
    <3>10. ~(j < n)
      BY <1>1, <3>5, <3>7, <3>9, ListOrder
    <3>11. j # n
      BY <1>1, <3>5, <3>6, <3>7, <3>9, PrecedesAsymmetric
    <3> QED  BY <1>0, <3>5, <3>6, <3>8, <3>10, <3>11
  <2>7. PICK j \in BeamId : all[j] = list[K - 1]
    BY <1>0, <2>5
  <2>8. j = K - 1
    BY <1>0, <2>6, <2>7
  <2> QED  BY <1>4, <2>7, <2>8
<1> QED  BY <1>3, <1>4 DEF ListHolds

-----------------------------------------------------------------------------
(***************************************************************************)
(* The continuations of a step, and those that have been passed.           *)
(***************************************************************************)
IsExtension(e) ==
  ~Skipped(e.parent) /\ Offered(e.parent, e.token) /\ e = Extended(e.parent, e.token)

IsCarried(e) ==
  Ended(e.parent) /\ IsFinite(prev[e.parent].score) /\ e = Carried(e.parent)

AllOffered == {e \in Real : IsExtension(e) \/ IsCarried(e)}

\* A scan that stands at token u of beam k has passed e.
Passed(e, k, u) == e.parent < k \/ (e.parent = k /\ e.token < u)

\* What a lane looks at, and what it has looked at.
LaneShare(l) == {e \in Real : IsExtension(e) /\ e.token % Lanes = l}
ScannedBy(l) == {e \in LaneShare(l) : Passed(e, at[l], v[l])}

\* What lane 0 has merged.
CarriedBelow(n) == {e \in Real : IsCarried(e) /\ e.parent < n}
HandedBelow(n) == {e \in Real : \E i \in 0 .. n - 1 : cand[i \div K][i % K] = e}

\* What the serial kernel has looked at.
SerialScanned ==
  {e \in Real : \/ IsExtension(e) /\ Passed(e, at[0], v[0])
                \/ IsCarried(e) /\ e.parent < at[0]}

-----------------------------------------------------------------------------
(***************************************************************************)
(* The invariant.  The barriers divide a run into phases; in each, the     *)
(* lists hold the best of what has been passed so far.                     *)
(***************************************************************************)
Starting  == \A l \in Lane : pc[l] \in {"init", "wait0"}
Scanning  == \A l \in Lane : pc[l] \in {"scan", "wait1"}
Merging   == pc[0] \in {"carry", "merge"} /\ \A l \in Lane \ {0} : pc[l] = "wait2"
Committed == \A l \in Lane : pc[l] = "wait2"
Ending    == \A l \in Lane : pc[l] \in {"final", "done"}
Alone     == /\ pc[0] \in {"start", "step", "serial", "done"}
             /\ \A l \in Lane \ {0} : pc[l] = "absent"

Places == Place \cup {"carry", "merge", "start", "step", "serial", "absent"}

PhaseInv ==
  /\ pc \in [Lane -> Places]
  /\ Starting \/ Scanning \/ Merging \/ Committed \/ Ending \/ Alone
  /\ Starting \/ pc[0] = "start" => t = 0 /\ hyps = [k \in BeamId |-> << >>]
  /\ Scanning \/ Merging \/ pc[0] = "serial" => t < T
  /\ Committed \/ Ending => t <= T

IndexInv ==
  /\ Scanning => \A l \in Lane : v[l] % Lanes = l
  /\ pc[0] = "carry" => m < K
  /\ pc[0] = "serial" => v[0] < V

BeamInv ==
  /\ \A k \in BeamId : /\ prev[k].length <= t
                       /\ prev[k].ended => EOS >= 0 /\ prev[k].length > 0
  /\ Starting => \A l \in Lane \cap BeamId : pc[l] = "wait0" => prev[l] = FirstBeam(l)

ListInv ==
  /\ {local, cand} \subseteq [Lane -> Listing] /\ best \in Listing
  /\ Scanning => \A l \in Lane :
       IF pc[l] = "scan" THEN ListHolds(local[l], ScannedBy(l))
       ELSE ListHolds(cand[l], LaneShare(l))
  /\ Merging => \A l \in Lane : ListHolds(cand[l], LaneShare(l))
  /\ pc[0] = "carry" => ListHolds(best, CarriedBelow(m))
  /\ pc[0] = "merge" => ListHolds(best, CarriedBelow(K) \cup HandedBelow(m))
  /\ pc[0] = "serial" => ListHolds(best, SerialScanned)

KernelInv == TypeOK /\ PhaseInv /\ IndexInv /\ BeamInv /\ ListInv
-----------------------------------------------------------------------------
(***************************************************************************)
(* Facts about the phases and about what is offered.                       *)
(***************************************************************************)
LEMMA LaneFacts == 0 \in Lane /\ Lane \subseteq Nat /\ Lanes \in Nat \ {0}
                   /\ BeamId \subseteq Lane /\ BeamId = 0 .. K - 1 /\ K \in Nat \ {0}
BY LanesAssumption, DimensionsAssumption DEF Lane, BeamId

\* A position tells the phase.
LEMMA PhaseOf ==
  ASSUME PhaseInv, NEW l \in Lane
  PROVE  /\ pc[l] \in {"init", "wait0"} => Starting
         /\ pc[l] \in {"scan", "wait1"} => Scanning
         /\ pc[l] = "final" => Ending
         /\ pc[0] \in {"carry", "merge"} => Merging
         /\ pc[0] \in {"start", "step", "serial"} => Alone
BY LaneFacts DEF PhaseInv, Starting, Scanning, Merging, Committed, Ending, Alone

\* What is offered depends on the beams, the rows and the constraints only.
LEMMA OfferFixed ==
  UNCHANGED <<cons, rows, prev>> =>
    /\ \A l : LaneShare(l)' = LaneShare(l)
    /\ \A n : CarriedBelow(n)' = CarriedBelow(n)
    /\ AllOffered' = AllOffered
    /\ \A e : (IsExtension(e)' <=> IsExtension(e)) /\ (IsCarried(e)' <=> IsCarried(e))
<1> SUFFICES ASSUME UNCHANGED <<cons, rows, prev>>
             PROVE  /\ \A l : LaneShare(l)' = LaneShare(l)
                    /\ \A n : CarriedBelow(n)' = CarriedBelow(n)
                    /\ AllOffered' = AllOffered
                    /\ \A e : (IsExtension(e)' <=> IsExtension(e))
                              /\ (IsCarried(e)' <=> IsCarried(e))
  OBVIOUS
<1>1. \A e : IsExtension(e)' <=> IsExtension(e)
  BY DEF IsExtension, Skipped, Ended, Offered, Extended, EffectiveMinLength
<1>2. \A e : IsCarried(e)' <=> IsCarried(e)
  BY DEF IsCarried, Ended, Carried
<1> QED  BY <1>1, <1>2 DEF LaneShare, CarriedBelow, AllOffered

\* A continuation is a real entry.
LEMMA ExtendedReal ==
  ASSUME TypeOK, NEW k \in BeamId, NEW u \in Token
  PROVE  /\ Extended(k, u) \in Real
         /\ Extended(k, u).parent = k /\ Extended(k, u).token = u
<1>1. rows[k][u] \in Score /\ prev[k].score \in Score /\ prev[k].length \in Nat
  BY LogProbAssumption DEF TypeOK
<1>2. FloatAdd(prev[k].score, rows[k][u]) \in Score
  BY <1>1, InfAssumption DEF FloatAdd, Score
<1>3. k \in 0 .. K /\ u \in -1 .. V
  BY DimensionsAssumption DEF BeamId, Token
<1>4. PICK now \in BOOLEAN : now = (EOS >= 0 /\ u = EOS)
  OBVIOUS
<1>5. PICK sum \in Score : sum = FloatAdd(prev[k].score, rows[k][u])
  BY <1>2
<1>6. Extended(k, u) = [score |-> sum, parent |-> k, token |-> u,
                        length |-> prev[k].length + 1, ended |-> now, fromLogprob |-> 1]
  BY <1>4, <1>5, Zenon DEF Extended
<1>7. prev[k].length + 1 \in Nat /\ 1 \in {0, 1}
  BY <1>1
<1>8. [score |-> sum, parent |-> k, token |-> u,
       length |-> prev[k].length + 1, ended |-> now, fromLogprob |-> 1] \in Real
  BY <1>3, <1>4, <1>7 DEF Real, Entry
<1> QED  BY <1>6, <1>8

LEMMA CarriedReal ==
  ASSUME TypeOK, NEW k \in BeamId, Ended(k)
  PROVE  /\ Carried(k) \in Real /\ Carried(k).parent = k /\ Carried(k).token = EOS
<1>1. prev[k].score \in Score /\ prev[k].length \in Nat
  BY DEF TypeOK
<1>2. k \in 0 .. K /\ EOS \in -1 .. V /\ EOS \in Token /\ EOS >= 0
  BY DimensionsAssumption, OptionsAssumption DEF BeamId, Token, Ended
<1> QED  BY <1>1, <1>2 DEF Carried, Real, Entry

LEMMA OffersReal ==
  /\ \A l : LaneShare(l) \subseteq Real /\ ScannedBy(l) \subseteq Real
  /\ \A n : CarriedBelow(n) \subseteq Real /\ HandedBelow(n) \subseteq Real
  /\ SerialScanned \subseteq Real /\ AllOffered \subseteq Real
BY DEF LaneShare, ScannedBy, CarriedBelow, HandedBelow, SerialScanned, AllOffered

\* The indices of an entry that is offered.
LEMMA RealIndices ==
  ASSUME NEW e \in Real
  PROVE  /\ e.parent \in BeamId /\ e.parent \in Nat /\ e.parent < K
         /\ e.token \in Token /\ e.token \in Nat /\ e.token < V
BY DimensionsAssumption DEF Real, BeamId, Token

-----------------------------------------------------------------------------
(***************************************************************************)
(* The scan of a lane, set by set.                                         *)
(***************************************************************************)

\* A beam that is skipped, or whose tokens are passed, is behind the lane.
LEMMA SkipScans ==
  ASSUME TypeOK, IndexInv, Scanning, NEW l \in Lane, SkipBeam(l)
  PROVE  ScannedBy(l)' = ScannedBy(l)
<1>1. LaneShare(l)' = LaneShare(l)
  BY OfferFixed DEF SkipBeam
<1>2. /\ at'[l] = at[l] + 1 /\ v'[l] = l /\ at[l] \in Nat /\ v[l] \in Nat
      /\ l \in Nat /\ l < Lanes /\ Lanes \in Nat
  BY LaneFacts, DimensionsAssumption DEF SkipBeam, TypeOK, Lane
<1>3. ASSUME NEW e \in LaneShare(l)
      PROVE  Passed(e, at[l], v[l]) <=> Passed(e, at[l] + 1, l)
  <2>1. e \in Real /\ IsExtension(e) /\ e.token % Lanes = l
    BY DEF LaneShare
  <2>2. e.parent \in Nat /\ e.token \in Nat /\ e.token < V
    BY <2>1, RealIndices
  <2>3. ~(e.token < l)
    <3>1. e.token < l => e.token \in 0 .. Lanes - 1
      BY <1>2, <2>2
    <3> QED  BY <1>2, <2>1, <2>2, <3>1, SmallMod, LaneFacts
  <2>4. e.parent = at[l] => e.token < v[l]
    BY <1>2, <2>1, <2>2, DimensionsAssumption DEF SkipBeam, IsExtension
  <2> QED  BY <1>2, <2>2, <2>3, <2>4 DEF Passed
<1>4. ScannedBy(l)' = {e \in LaneShare(l) : Passed(e, at[l] + 1, l)}
  BY <1>1, <1>2 DEF ScannedBy, Passed
<1> QED  BY <1>3, <1>4 DEF ScannedBy

\* One token further on, a stride has passed that token.
LEMMA TokenScans ==
  ASSUME TypeOK, IndexInv, Scanning, NEW l \in Lane, ScanToken(l)
  PROVE  /\ at[l] \in BeamId /\ v[l] \in Token
         /\ Extended(at[l], v[l]) \in Real \ ScannedBy(l)
         /\ ScannedBy(l)' = ScannedBy(l) \cup
              (IF Offered(at[l], v[l]) THEN {Extended(at[l], v[l])} ELSE {})
<1>1. LaneShare(l)' = LaneShare(l)
  BY OfferFixed DEF ScanToken
<1>2. /\ at'[l] = at[l] /\ v'[l] = v[l] + Lanes /\ at[l] \in Nat /\ v[l] \in Nat
      /\ at[l] < K /\ v[l] < V /\ ~Skipped(at[l]) /\ v[l] % Lanes = l
      /\ Lanes \in Nat \ {0}
  BY LaneFacts, DimensionsAssumption DEF ScanToken, TypeOK, IndexInv
<1>3. at[l] \in BeamId /\ v[l] \in Token
  BY <1>2, DimensionsAssumption DEF BeamId, Token
<1>4. PICK x : x = Extended(at[l], v[l])
  OBVIOUS
<1>5. x \in Real /\ x.parent = at[l] /\ x.token = v[l]
  BY <1>3, <1>4, ExtendedReal
<1>6. Offered(at[l], v[l]) <=> x \in LaneShare(l)
  BY <1>2, <1>4, <1>5 DEF LaneShare, IsExtension
<1>7. x \notin ScannedBy(l)
  BY <1>2, <1>5 DEF ScannedBy, Passed
<1>8. ASSUME NEW e \in LaneShare(l)
      PROVE  Passed(e, at[l], v[l] + Lanes) <=> Passed(e, at[l], v[l]) \/ e = x
  <2>1. e \in Real /\ IsExtension(e) /\ e.token % Lanes = l
    BY DEF LaneShare
  <2>2. e.parent \in Nat /\ e.token \in Nat
    BY <2>1, RealIndices
  <2>3. e.token = v[l] \/ ~(v[l] <= e.token /\ e.token < v[l] + Lanes)
    BY <1>2, <2>1, <2>2, SameClass
  <2>4. e.parent = at[l] /\ e.token = v[l] => e = x
    BY <1>4, <2>1 DEF IsExtension
  <2>5. e = x => e.parent = at[l] /\ e.token = v[l]
    BY <1>5
  <2> QED  BY <1>2, <2>2, <2>3, <2>4, <2>5 DEF Passed
<1>9. ScannedBy(l)' = {e \in LaneShare(l) : Passed(e, at[l], v[l] + Lanes)}
  BY <1>1, <1>2 DEF ScannedBy, Passed
<1>10. ScannedBy(l)' = ScannedBy(l) \cup (IF x \in LaneShare(l) THEN {x} ELSE {})
  <2>1. \A e : e \in ScannedBy(l)' <=> e \in LaneShare(l) /\ Passed(e, at[l], v[l] + Lanes)
    BY <1>9
  <2>2. \A e : e \in ScannedBy(l) <=> e \in LaneShare(l) /\ Passed(e, at[l], v[l])
    BY DEF ScannedBy
  <2>3. \A e : e \in ScannedBy(l)' <=> e \in ScannedBy(l) \/ (e = x /\ x \in LaneShare(l))
    BY <1>8, <2>1, <2>2
  <2> QED  BY <2>3
<1> QED  BY <1>3, <1>4, <1>5, <1>6, <1>7, <1>10

\* At the end of its scan a lane has passed its whole share.
LEMMA ShareScanned ==
  ASSUME NEW l, at[l] = K
  PROVE  ScannedBy(l) = LaneShare(l)
<1>1. \A e \in LaneShare(l) : Passed(e, at[l], v[l])
  BY RealIndices DEF Passed, LaneShare
<1> QED  BY <1>1 DEF ScannedBy

\* At its beginning it has passed nothing.
LEMMA NothingScanned ==
  ASSUME NEW l \in Lane, NEW e \in Real, e.token % Lanes = l
  PROVE  ~Passed(e, 0, l)
<1>1. e.parent \in Nat /\ e.token \in Nat /\ l \in Nat /\ l < Lanes /\ Lanes \in Nat
  BY RealIndices, LaneFacts DEF Lane
<1>2. ~(e.token < l)
  <2>1. e.token < l => e.token \in 0 .. Lanes - 1
    BY <1>1, LaneFacts
  <2> QED  BY <1>1, <2>1, SmallMod, LaneFacts
<1> QED  BY <1>1, <1>2 DEF Passed
-----------------------------------------------------------------------------
(***************************************************************************)
(* The merge, slot by slot, and what it and the serial scan end with.      *)
(***************************************************************************)

\* The slot a number between 0 and Lanes * K stands for.
LEMMA SlotOf ==
  ASSUME NEW i \in Nat, i < Lanes * K
  PROVE  /\ i \div K \in Lane /\ i % K \in BeamId
         /\ i = K * (i \div K) + (i % K)
<1>1. PICK q \in Nat, r \in 0 .. K - 1 : q = i \div K /\ r = i % K /\ i = K * q + r
  BY DivMod, LaneFacts
<1>2. q < Lanes
  <2>1. CASE Lanes < q
    <3>1. K * Lanes + K <= K * q
      BY <2>1, MulStep, LaneFacts
    <3>2. K * Lanes = Lanes * K /\ K * Lanes \in Int /\ K * q \in Int
      BY LaneFacts
    <3> QED  BY <1>1, <3>1, <3>2, LaneFacts
  <2>2. CASE Lanes = q
    <3>1. K * q = Lanes * K /\ K * q \in Int
      BY <2>2, LaneFacts
    <3> QED  BY <1>1, <3>1, LaneFacts
  <2> QED  BY <1>1, <2>1, <2>2, LaneFacts
<1>3. q \in Lane /\ r \in BeamId
  BY <1>1, <1>2, LaneFacts DEF Lane
<1> QED  BY <1>1, <1>3

LEMMA SlotNumber ==
  ASSUME NEW l \in Lane, NEW i \in BeamId
  PROVE  \E n \in Nat : n < Lanes * K /\ n \div K = l /\ n % K = i
<1>1. /\ l \in Nat /\ l < Lanes /\ i \in 0 .. K - 1 /\ i \in Nat /\ i < K
      /\ K \in Nat \ {0} /\ Lanes \in Nat
  BY LaneFacts DEF Lane
<1>2. PICK n \in Nat : n = K * l + i
  BY <1>1
<1>3. n \div K = l /\ n % K = i
  BY <1>1, <1>2, DivModUnique
<1>4. K * l + K <= K * Lanes
  BY <1>1, MulStep
<1>5. K * l \in Int /\ K * Lanes = Lanes * K /\ K * Lanes \in Int
  BY <1>1
<1>6. n < Lanes * K
  BY <1>1, <1>2, <1>4, <1>5
<1> QED  BY <1>3, <1>6

\* What lane 0 finds in a list is the lane's own, once.
LEMMA HandedOnce ==
  ASSUME TypeOK, ListInv, Merging, m < Lanes * K, NEW c \in Real,
         c = cand[m \div K][m % K]
  PROVE  c \notin CarriedBelow(K) \cup HandedBelow(m)
<1>1. m \in Nat
  BY DEF TypeOK
<1>2. ASSUME NEW i \in Nat, i < Lanes * K, cand[i \div K][i % K] = c
      PROVE  c \in LaneShare(i \div K)
  <2>1. i \div K \in Lane /\ i % K \in BeamId
    BY <1>2, SlotOf
  <2>2. c # NoCandidate
    BY NoCandidateLast
  <2> QED  BY <1>2, <2>1, <2>2 DEF ListInv, ListHolds
<1>3. c \notin CarriedBelow(K)
  <2>1. c \in LaneShare(m \div K)
    BY <1>1, <1>2
  <2> QED  BY <2>1 DEF LaneShare, CarriedBelow, IsExtension, IsCarried, Skipped
<1>4. ASSUME NEW i \in 0 .. m - 1, cand[i \div K][i % K] = c
      PROVE  FALSE
  <2>1. i \in Nat /\ i < m /\ i < Lanes * K
    BY <1>1, LaneFacts
  <2>2. PICK l : l = m \div K
    OBVIOUS
  <2>3. i \div K = l
    BY <1>1, <1>2, <1>4, <2>1, <2>2 DEF LaneShare
  <2>4. /\ l \in Lane /\ i % K \in BeamId /\ m % K \in BeamId
        /\ i = K * l + (i % K) /\ m = K * l + (m % K)
    BY <1>1, <2>1, <2>2, <2>3, SlotOf
  <2>5. PICK x \in BeamId, y \in BeamId : x = i % K /\ y = m % K
    BY <2>4
  <2>6. x < y
    <3>1. K * l \in Int
      BY <2>4, LaneFacts
    <3> QED  BY <2>1, <2>4, <2>5, <3>1, LaneFacts
  <2>7. cand[l][x] = c /\ cand[l][y] = c
    BY <1>4, <2>2, <2>3, <2>5
  <2>8. c # NoCandidate /\ c \in Listed
    BY NoCandidateLast
  <2>9. Precedes(c, c)
    BY <2>4, <2>6, <2>7, <2>8 DEF ListInv, ListHolds
  <2> QED  BY <2>8, <2>9, PrecedesAsymmetric
<1> QED  BY <1>3, <1>4 DEF HandedBelow

\* The next slot.
LEMMA HandedNext ==
  ASSUME TypeOK, NEW c, c = cand[m \div K][m % K], c \in Listed
  PROVE  HandedBelow(m + 1) = HandedBelow(m) \cup (IF c = NoCandidate THEN {} ELSE {c})
<1>1. m \in Nat
  BY DEF TypeOK
<1>2. \A i : i \in 0 .. m + 1 - 1 <=> i \in 0 .. m - 1 \/ i = m
  BY <1>1
<1>3. \A e \in Real : e \in HandedBelow(m + 1) <=> e \in HandedBelow(m) \/ e = c
  <2> DEFINE At(i) == cand[i \div K][i % K]
  <2>1. ASSUME NEW n, NEW e \in Real
        PROVE  e \in HandedBelow(n) <=> \E i \in 0 .. n - 1 : At(i) = e
    BY Zenon DEF HandedBelow
  <2>2. At(m) = c
    OBVIOUS
  <2> HIDE DEF At
  <2>3. ASSUME NEW e \in Real
        PROVE  e \in HandedBelow(m + 1) <=> \E i \in 0 .. m + 1 - 1 : At(i) = e
    BY <1>1, <2>1
  <2>4. ASSUME NEW e \in Real
        PROVE  e \in HandedBelow(m) <=> \E i \in 0 .. m - 1 : At(i) = e
    BY <2>1
  <2> QED  BY <1>2, <2>2, <2>3, <2>4
<1>4. HandedBelow(m + 1) \subseteq Real /\ HandedBelow(m) \subseteq Real
  BY DEF HandedBelow
<1>5. c = NoCandidate \/ c \in Real
  BY DEF Listed
<1>6. NoCandidate \notin Real
  BY NoCandidateLast
<1> QED  BY <1>3, <1>4, <1>5, <1>6

\* The merged list holds the best of all continuations of the step.
LEMMA MergedHolds ==
  ASSUME TypeOK, ListInv, Merging, pc[0] = "merge", m = Lanes * K
  PROVE  ListHolds(best, AllOffered)
<1> DEFINE U == CarriedBelow(K) \cup HandedBelow(m)
<1>1. ListHolds(best, U) /\ U \subseteq Real /\ best \in Listing
  BY OffersReal DEF ListInv
<1>2. U \subseteq AllOffered
  <2>1. ASSUME NEW e \in HandedBelow(m)
        PROVE  IsExtension(e) /\ e \in Real
    <3>1. PICK i \in 0 .. m - 1 : cand[i \div K][i % K] = e
      BY <2>1 DEF HandedBelow
    <3>2. i \in Nat /\ i < Lanes * K
      BY <3>1, LaneFacts
    <3>3. i \div K \in Lane /\ i % K \in BeamId
      BY <3>2, SlotOf
    <3>4. e \in Real /\ e # NoCandidate
      BY <2>1, NoCandidateLast DEF HandedBelow
    <3>5. e \in LaneShare(i \div K)
      BY <3>1, <3>3, <3>4 DEF ListInv, ListHolds
    <3> QED  BY <3>5 DEF LaneShare
  <2> QED  BY <2>1 DEF CarriedBelow, AllOffered
<1>3. \A l \in Lane, i \in BeamId : cand[l][i] \in U \cup {NoCandidate}
  <2> TAKE l \in Lane, i \in BeamId
  <2>1. PICK n \in Nat : n < Lanes * K /\ n \div K = l /\ n % K = i
    BY SlotNumber
  <2>2. cand[l][i] \in Listed
    BY DEF ListInv, Listing
  <2>3. n \in 0 .. m - 1
    BY <2>1, LaneFacts
  <2> QED  BY <2>1, <2>2, <2>3 DEF HandedBelow, Listed
<1>4. ASSUME NEW c \in AllOffered
      PROVE  (\E i \in BeamId : best[i] = c) \/ Precedes(best[K - 1], c)
  <2>1. c \in Real /\ c.parent < K
    BY RealIndices DEF AllOffered
  <2>2. CASE IsCarried(c)
    <3>1. c \in U
      BY <2>1, <2>2 DEF CarriedBelow
    <3> QED  BY <1>1, <3>1 DEF ListHolds
  <2>3. CASE IsExtension(c)
    <3>1. PICK l \in Lane : l = c.token % Lanes
      BY <2>1, RealIndices, LaneFacts, DivMod DEF Lane
    <3>2. c \in LaneShare(l)
      BY <2>1, <2>3, <3>1 DEF LaneShare
    <3>3. ListHolds(cand[l], LaneShare(l)) /\ LaneShare(l) \subseteq Real /\ cand[l] \in Listing
      BY OffersReal DEF ListInv
    <3> HIDE DEF U
    <3> QED  BY <1>1, <1>3, <3>2, <3>3, BestOfBest
  <2> QED  BY <2>2, <2>3 DEF AllOffered
<1>5. \A i \in BeamId : best[i] \in AllOffered \cup {NoCandidate}
  BY <1>1, <1>2 DEF ListHolds
<1> QED  BY <1>1, <1>4, <1>5 DEF ListHolds

\* The serial scan has passed everything at its end.
LEMMA SerialHolds ==
  ASSUME ListInv, pc[0] = "serial", at[0] = K
  PROVE  ListHolds(best, AllOffered)
<1>1. \A e \in Real : e.parent < at[0]
  BY RealIndices
<1>2. SerialScanned = AllOffered
  BY <1>1 DEF SerialScanned, AllOffered, Passed
<1> QED  BY <1>2 DEF ListInv
-----------------------------------------------------------------------------
(***************************************************************************)
(* The invariant, action by action.                                        *)
(***************************************************************************)
PlaceOK ==
  \A l \in Lane :
    \/ pc[l] \in Place
    \/ l = 0 /\ pc[l] \in {"carry", "merge", "start", "step", "serial"}
    \/ l # 0 /\ pc[l] = "absent"

LEMMA PlacesPrimed == PhaseInv' => PlaceOK'
BY LaneFacts
   DEF PhaseInv, PlaceOK, Place, Starting, Scanning, Merging, Committed, Ending, Alone

LEMMA ListingType == Listing \subseteq [BeamId -> Entry]
BY ListedFields DEF Listing

LEMMA FirstBeamType ==
  \A k \in BeamId : /\ FirstBeam(k) \in [score : Score, length : Nat, ended : BOOLEAN]
                    /\ FirstBeam(k).length = 0 /\ FirstBeam(k).ended = FALSE
BY InfAssumption DEF FirstBeam, Score

LEMMA InitKernel == Init => KernelInv
<1> SUFFICES ASSUME Init  PROVE KernelInv
  OBVIOUS
<1>1. EmptyList \in Listing /\ EmptyList \in [BeamId -> Entry]
  BY EmptyListHolds, ListingType
<1>2. prev \in [BeamId -> [score : Score, length : Nat, ended : BOOLEAN]]
      /\ \A k \in BeamId : prev[k].length = 0 /\ prev[k].ended = FALSE
  <2>1. \A x \in AnyBeam : /\ x \in [score : Score, length : Nat, ended : BOOLEAN]
                           /\ x.length = 0 /\ x.ended = FALSE
    <3>1. 0 \in Score /\ NegInf \in Score /\ 0 \in Nat
      BY InfAssumption DEF Score
    <3>2. FirstBeam(0) = [score |-> 0, length |-> 0, ended |-> FALSE]
      BY DEF FirstBeam
    <3>3. \A x \in AnyBeam : \/ x = [score |-> 0, length |-> 0, ended |-> FALSE]
                            \/ x = [score |-> NegInf, length |-> 0, ended |-> FALSE]
      BY <3>2 DEF AnyBeam
    <3>4. \A y \in Score : LET x == [score |-> y, length |-> 0, ended |-> FALSE]
                          IN  /\ x \in [score : Score, length : Nat, ended : BOOLEAN]
                              /\ x.length = 0 /\ x.ended = FALSE
      BY <3>1
    <3> QED  BY <3>1, <3>3, <3>4
  <2> QED  BY <2>1 DEF Init
<1>3. /\ \/ \A l \in Lane : pc[l] = "init"
         \/ pc[0] = "start" /\ \A l \in Lane \ {0} : pc[l] = "absent"
      /\ pc \in [Lane -> Places]
  BY LaneFacts DEF Init, Places, Place
<1>4. Starting \/ Alone
  BY <1>3 DEF Starting, Alone
<1>5. ~Scanning /\ ~Merging /\ pc[0] \notin {"carry", "merge", "serial"}
  BY <1>3, LaneFacts DEF Scanning, Merging
<1>6. t = 0 /\ 0 \in 0 .. T /\ 0 < T /\ hyps = [k \in BeamId |-> << >>]
  BY DimensionsAssumption DEF Init
<1>7. PhaseInv
  BY <1>3, <1>4, <1>5, <1>6 DEF PhaseInv
<1>8. BeamInv
  BY <1>2, <1>3, <1>6, LaneFacts DEF BeamInv
<1>9. ListInv /\ IndexInv
  BY <1>1, <1>5 DEF Init, ListInv, IndexInv
<1>10. TypeOK
  <2>1. rows \in [BeamId -> [Token -> LogProb]]
    BY LogProbAssumption DEF Init
  <2>2. at \in [Lane -> 0 .. K] /\ v \in [Lane -> 0 .. V + Lanes - 1]
    BY DimensionsAssumption, LanesAssumption DEF Init, Lane
  <2>3. m \in 0 .. Lanes * K
    <3>1. Lanes * K \in Nat
      BY LaneFacts
    <3> QED  BY <3>1 DEF Init
  <2>4. final \in [BeamId -> Score] /\ cons \in ConstraintSpace
    BY InfAssumption DEF Init, Score
  <2>5. hyps \in [BeamId -> Seq(Token)]
    BY <1>6
  <2>6. {local, cand} \subseteq [Lane -> [BeamId -> Entry]] /\ best \in [BeamId -> Entry]
    BY <1>1 DEF Init
  <2>7. \A l \in Lane : \/ pc[l] \in Place
                        \/ l = 0 /\ pc[l] \in {"carry", "merge", "start", "step", "serial"}
                        \/ l # 0 /\ pc[l] = "absent"
    BY <1>3 DEF Place
  <2> QED  BY <1>2, <1>6, <2>1, <2>2, <2>3, <2>4, <2>5, <2>6, <2>7 DEF TypeOK
<1> QED  BY <1>7, <1>8, <1>9, <1>10 DEF KernelInv

LEMMA InitBeamKernel ==
  ASSUME KernelInv, NEW l \in Lane, InitBeam(l)
  PROVE  KernelInv'
<1>1. /\ Starting /\ pc \in [Lane -> Places] /\ pc' = [pc EXCEPT ![l] = "wait0"]
      /\ UNCHANGED <<cons, t, rows, at, v, local, cand, best, m, final, hyps>>
  BY PhaseOf DEF KernelInv, PhaseInv, InitBeam, Go, scanVars
<1>2. Starting' /\ pc' \in [Lane -> Places]
  BY <1>1 DEF Starting, Places, Place
<1>3. ~Scanning' /\ ~Merging' /\ pc'[0] \notin {"carry", "merge", "serial"}
  BY <1>2, LaneFacts DEF Starting, Scanning, Merging
<1>4. /\ t = 0 /\ hyps = [k \in BeamId |-> << >>] /\ 0 < T
      /\ t' = 0 /\ hyps' = [k \in BeamId |-> << >>] /\ t' < T /\ t' <= T
  BY <1>1, DimensionsAssumption DEF KernelInv, PhaseInv
<1>5. PhaseInv'
  BY <1>2, <1>4 DEF PhaseInv
<1>6. /\ prev' \in [BeamId -> [score : Score, length : Nat, ended : BOOLEAN]]
      /\ \A k \in BeamId : prev'[k] = IF k = l THEN FirstBeam(l) ELSE prev[k]
  <2>1. prev \in [BeamId -> [score : Score, length : Nat, ended : BOOLEAN]]
    BY DEF KernelInv, TypeOK
  <2>2. CASE l < K
    <3>1. l \in BeamId /\ prev' = [prev EXCEPT ![l] = FirstBeam(l)]
      BY <2>2, LaneFacts DEF InitBeam, Lane
    <3> QED  BY <2>1, <3>1, FirstBeamType
  <2>3. CASE ~(l < K)
    <3>1. l \notin BeamId /\ prev' = prev
      BY <2>3, LaneFacts DEF InitBeam, Lane
    <3> QED  BY <2>1, <3>1
  <2> QED  BY <2>2, <2>3
<1>7. BeamInv'
  <2>1. \A k \in BeamId : /\ prev[k].length <= t
                          /\ prev[k].ended => EOS >= 0 /\ prev[k].length > 0
    BY DEF KernelInv, BeamInv
  <2>2. \A k \in BeamId : /\ prev'[k].length <= t
                          /\ prev'[k].ended => EOS >= 0 /\ prev'[k].length > 0
    BY <1>4, <1>6, <2>1, FirstBeamType
  <2>3. \A n \in Lane \cap BeamId : pc'[n] = "wait0" => prev'[n] = FirstBeam(n)
    BY <1>1, <1>6 DEF KernelInv, BeamInv
  <2> QED  BY <1>1, <2>2, <2>3 DEF BeamInv
<1>8. ListInv' /\ IndexInv'
  BY <1>1, <1>3 DEF KernelInv, ListInv, IndexInv
<1>9. TypeOK'
  <2>1. PlaceOK'
    BY <1>5, PlacesPrimed
  <2> QED  BY <1>1, <1>6, <2>1 DEF KernelInv, TypeOK, PlaceOK
<1> QED  BY <1>5, <1>7, <1>8, <1>9 DEF KernelInv

\* A step of the scan of one lane.
LEMMA ScanStepKernel ==
  ASSUME KernelInv, NEW l \in Lane, pc[l] = "scan",
         UNCHANGED <<cons, t, rows, prev, best, m, final, hyps>>,
         pc' = pc \/ pc' = [pc EXCEPT ![l] = "wait1"],
         at' \in [Lane -> 0 .. K], v' \in [Lane -> 0 .. V + Lanes - 1],
         local' \in [Lane -> Listing], cand' \in [Lane -> Listing],
         \A n \in Lane \ {l} : /\ at'[n] = at[n] /\ v'[n] = v[n]
                               /\ local'[n] = local[n] /\ cand'[n] = cand[n],
         v'[l] % Lanes = l,
         pc'[l] = "scan" => ListHolds(local'[l], ScannedBy(l)'),
         pc'[l] = "wait1" => ListHolds(cand'[l], LaneShare(l))
  PROVE  KernelInv'
<1>1. Scanning /\ pc \in [Lane -> Places]
  BY PhaseOf DEF KernelInv, PhaseInv
<1>2. /\ Scanning' /\ pc' \in [Lane -> Places]
      /\ \A n \in Lane \ {l} : pc'[n] = pc[n]
  BY <1>1 DEF Scanning, Places, Place
<1>3. ~Starting' /\ ~Merging' /\ pc'[0] \notin {"carry", "merge", "serial", "start"}
      /\ ~Committed' /\ ~Ending'
  BY <1>2, LaneFacts DEF Scanning, Starting, Merging, Committed, Ending
<1>4. t < T
  BY <1>1 DEF KernelInv, PhaseInv
<1>5. PhaseInv'
  BY <1>2, <1>3, <1>4 DEF PhaseInv
<1>6. BeamInv'
  BY <1>3 DEF KernelInv, BeamInv
<1>7. IndexInv'
  BY <1>1, <1>3 DEF KernelInv, IndexInv
<1>8. ListInv'
  <2>1. \A n : LaneShare(n)' = LaneShare(n)
    BY OfferFixed
  <2>2. ASSUME NEW n \in Lane \ {l}
        PROVE  ScannedBy(n)' = ScannedBy(n)
    BY <2>1, <2>2 DEF ScannedBy, Passed
  <2>3. \A n \in Lane : IF pc[n] = "scan" THEN ListHolds(local[n], ScannedBy(n))
                        ELSE ListHolds(cand[n], LaneShare(n))
    BY <1>1 DEF KernelInv, ListInv
  <2>4. ASSUME NEW n \in Lane
        PROVE  /\ pc'[n] = "scan" => ListHolds(local'[n], ScannedBy(n)')
               /\ pc'[n] # "scan" => ListHolds(cand'[n], LaneShare(n))
    <3>1. CASE n = l
      BY <1>2, <3>1 DEF Scanning
    <3>2. CASE n # l
      <4>1. /\ pc'[n] = pc[n] /\ local'[n] = local[n] /\ cand'[n] = cand[n]
            /\ ScannedBy(n)' = ScannedBy(n)
        BY <1>2, <2>2, <3>2
      <4> QED  BY <2>3, <4>1
    <3> QED  BY <3>1, <3>2
  <2>5. \A n \in Lane : IF pc'[n] = "scan" THEN ListHolds(local'[n], ScannedBy(n)')
                        ELSE ListHolds(cand'[n], LaneShare(n)')
    BY <2>1, <2>4
  <2>6. {local', cand'} \subseteq [Lane -> Listing] /\ best' \in Listing
    BY DEF KernelInv, ListInv
  <2>7. (Scanning => \A n \in Lane : IF pc[n] = "scan"
                                     THEN ListHolds(local[n], ScannedBy(n))
                                     ELSE ListHolds(cand[n], LaneShare(n)))'
    BY <2>5 DEF ListHolds
  <2> QED  BY <1>3, <2>6, <2>7 DEF ListInv
<1>9. TypeOK'
  <2>1. PlaceOK'
    BY <1>5, PlacesPrimed
  <2>2. {local', cand'} \subseteq [Lane -> [BeamId -> Entry]]
    BY ListingType
  <2> QED  BY <2>1, <2>2 DEF KernelInv, TypeOK, PlaceOK
<1> QED  BY <1>5, <1>6, <1>7, <1>8, <1>9 DEF KernelInv

LEMMA SkipBeamKernel ==
  ASSUME KernelInv, NEW l \in Lane, SkipBeam(l)
  PROVE  KernelInv'
<1>1. /\ pc[l] = "scan" /\ at' = [at EXCEPT ![l] = @ + 1] /\ v' = [v EXCEPT ![l] = l]
      /\ UNCHANGED <<cons, t, rows, pc, local, prev, cand, best, m, final, hyps>>
      /\ at[l] < K
  BY DEF SkipBeam
<1>2. Scanning /\ TypeOK /\ IndexInv /\ ListInv
  BY <1>1, PhaseOf DEF KernelInv
<1>3. /\ at \in [Lane -> 0 .. K] /\ v \in [Lane -> 0 .. V + Lanes - 1]
      /\ at[l] + 1 \in 0 .. K /\ l \in 0 .. V + Lanes - 1
  <2>1. l \in Nat /\ l < Lanes /\ Lanes \in Nat /\ V \in Nat /\ K \in Nat
    BY LaneFacts, DimensionsAssumption DEF Lane
  <2>2. at \in [Lane -> 0 .. K] /\ v \in [Lane -> 0 .. V + Lanes - 1]
    BY <1>2 DEF TypeOK
  <2>3. at[l] \in 0 .. K
    BY <2>2
  <2> QED  BY <1>1, <2>1, <2>2, <2>3
<1>4. /\ at' \in [Lane -> 0 .. K] /\ v' \in [Lane -> 0 .. V + Lanes - 1] /\ v'[l] = l
      /\ \A n \in Lane \ {l} : at'[n] = at[n] /\ v'[n] = v[n]
  BY <1>1, <1>3
<1>5. l % Lanes = l
  BY SmallMod, LaneFacts DEF Lane
<1>6. ListHolds(local'[l], ScannedBy(l)')
  <2>1. ScannedBy(l)' = ScannedBy(l)
    BY <1>2, SkipScans
  <2> QED  BY <1>1, <1>2, <2>1 DEF ListInv
<1>7. {local, cand} \subseteq [Lane -> Listing]
  BY <1>2 DEF ListInv
<1> QED  BY <1>1, <1>4, <1>5, <1>6, <1>7, ScanStepKernel

LEMMA ScanTokenKernel ==
  ASSUME KernelInv, NEW l \in Lane, ScanToken(l)
  PROVE  KernelInv'
<1>1. /\ pc[l] = "scan" /\ v' = [v EXCEPT ![l] = @ + Lanes]
      /\ UNCHANGED <<cons, t, rows, pc, at, prev, cand, best, m, final, hyps>>
      /\ v[l] < V
  BY DEF ScanToken
<1>2. Scanning /\ TypeOK /\ IndexInv /\ ListInv
  BY <1>1, PhaseOf DEF KernelInv
<1>3. /\ at \in [Lane -> 0 .. K] /\ v \in [Lane -> 0 .. V + Lanes - 1]
      /\ v[l] \in Nat /\ v[l] + Lanes \in 0 .. V + Lanes - 1
  <2>1. at \in [Lane -> 0 .. K] /\ v \in [Lane -> 0 .. V + Lanes - 1]
    BY <1>2 DEF TypeOK
  <2>2. V \in Nat /\ Lanes \in Nat
    BY LaneFacts, DimensionsAssumption
  <2>3. PICK u : u = v[l]
    OBVIOUS
  <2>4. u \in 0 .. V + Lanes - 1 /\ u < V
    BY <1>1, <2>1, <2>3
  <2>5. u \in Nat /\ u + Lanes \in 0 .. V + Lanes - 1
    BY <2>2, <2>4
  <2> QED  BY <2>1, <2>3, <2>5
<1>4. /\ v' \in [Lane -> 0 .. V + Lanes - 1] /\ v'[l] = v[l] + Lanes
      /\ \A n \in Lane \ {l} : v'[n] = v[n]
  <2>1. PICK u, Span : u = v[l] + Lanes /\ Span = 0 .. V + Lanes - 1
    OBVIOUS
  <2>2. v' = [v EXCEPT ![l] = u] /\ v \in [Lane -> Span] /\ u \in Span
    BY <1>1, <1>3, <2>1
  <2>3. v' \in [Lane -> Span] /\ v'[l] = u /\ \A n \in Lane \ {l} : v'[n] = v[n]
    BY <2>2
  <2> QED  BY <2>1, <2>3
<1>5. (v[l] + Lanes) % Lanes = l
  <2>1. v[l] % Lanes = l
    BY <1>2 DEF IndexInv
  <2> QED  BY <1>3, <2>1, NextInClass, LaneFacts
<1>6. {local, cand} \subseteq [Lane -> Listing]
  BY <1>2 DEF ListInv
<1>7. PICK x : x = Extended(at[l], v[l])
  OBVIOUS
<1>8. /\ x \in Real /\ x \notin ScannedBy(l)
      /\ ScannedBy(l)' = ScannedBy(l) \cup (IF Offered(at[l], v[l]) THEN {x} ELSE {})
  BY <1>2, <1>7, TokenScans
<1>9. ListHolds(local[l], ScannedBy(l)) /\ local[l] \in Listing /\ ScannedBy(l) \subseteq Real
  BY <1>1, <1>2, <1>6, OffersReal DEF ListInv
<1>10. /\ local' \in [Lane -> Listing] /\ ListHolds(local'[l], ScannedBy(l)')
       /\ \A n \in Lane \ {l} : local'[n] = local[n]
  <2>1. CASE Offered(at[l], v[l])
    <3>1. local' = [local EXCEPT ![l] = InsertFromBack(@, x)]
      BY <1>7, <2>1 DEF ScanToken
    <3>2. /\ InsertFromBack(local[l], x) \in Listing
          /\ ListHolds(InsertFromBack(local[l], x), ScannedBy(l) \cup {x})
      BY <1>8, <1>9, InsertHolds
    <3>3. local'[l] = InsertFromBack(local[l], x)
      BY <1>6, <3>1
    <3>4. ScannedBy(l)' = ScannedBy(l) \cup {x}
      BY <1>8, <2>1
    <3> QED  BY <1>6, <3>1, <3>2, <3>3, <3>4
  <2>2. CASE ~Offered(at[l], v[l])
    <3>1. local' = local
      BY <2>2 DEF ScanToken
    <3>2. ScannedBy(l)' = ScannedBy(l)
      BY <1>8, <2>2
    <3> QED  BY <1>6, <1>9, <3>1, <3>2
  <2> QED  BY <2>1, <2>2
<1> QED  BY <1>1, <1>3, <1>4, <1>5, <1>6, <1>10, ScanStepKernel

LEMMA HandInKernel ==
  ASSUME KernelInv, NEW l \in Lane, HandIn(l)
  PROVE  KernelInv'
<1>1. /\ pc[l] = "scan" /\ at[l] = K /\ cand' = [cand EXCEPT ![l] = local[l]]
      /\ pc' = [pc EXCEPT ![l] = "wait1"]
      /\ UNCHANGED <<cons, t, rows, at, v, local, prev, best, m, final, hyps>>
  BY DEF HandIn, Go, scanVars
<1>2. Scanning /\ TypeOK /\ IndexInv /\ ListInv /\ pc \in [Lane -> Places]
  BY <1>1, PhaseOf DEF KernelInv, PhaseInv
<1>3. {local, cand} \subseteq [Lane -> Listing]
  BY <1>2 DEF ListInv
<1>4. /\ cand' \in [Lane -> Listing] /\ cand'[l] = local[l] /\ pc'[l] = "wait1"
      /\ \A n \in Lane \ {l} : cand'[n] = cand[n]
  BY <1>1, <1>2, <1>3
<1>5. ListHolds(cand'[l], LaneShare(l))
  <2>1. ListHolds(local[l], ScannedBy(l))
    BY <1>1, <1>2 DEF ListInv
  <2> QED  BY <1>1, <1>4, <2>1, ShareScanned
<1>6. v[l] % Lanes = l
  BY <1>2 DEF IndexInv
<1>7. at \in [Lane -> 0 .. K] /\ v \in [Lane -> 0 .. V + Lanes - 1]
  BY <1>2 DEF TypeOK
<1> QED  BY <1>1, <1>3, <1>4, <1>5, <1>6, <1>7, ScanStepKernel
-----------------------------------------------------------------------------
(***************************************************************************)
(* The merge.                                                              *)
(***************************************************************************)

\* While lane 0 merges the rest is at rest.
LEMMA MergeStepKernel ==
  ASSUME KernelInv, Merging,
         UNCHANGED <<cons, t, rows, at, v, local, prev, cand, final, hyps>>,
         pc' = pc \/ pc' = [pc EXCEPT ![0] = "merge"],
         m' \in 0 .. Lanes * K, best' \in Listing,
         pc'[0] = "carry" => m' < K /\ ListHolds(best', CarriedBelow(m')),
         pc'[0] = "merge" => ListHolds(best', CarriedBelow(K) \cup HandedBelow(m'))
  PROVE  KernelInv'
<1>1. /\ pc \in [Lane -> Places] /\ 0 \in Lane
      /\ \A l \in Lane \ {0} : pc[l] = "wait2"
  BY LaneFacts DEF KernelInv, PhaseInv, Merging
<1>2. Merging' /\ pc' \in [Lane -> Places]
  BY <1>1 DEF Merging, Places, Place
<1>3. /\ pc'[0] \in {"carry", "merge"}
      /\ ~Starting' /\ ~Scanning' /\ ~Committed' /\ ~Ending' /\ ~Alone'
  BY <1>1, <1>2 DEF Merging, Starting, Scanning, Committed, Ending, Alone
<1>4. PhaseInv'
  BY <1>2, <1>3 DEF KernelInv, PhaseInv
<1>5. BeamInv' /\ IndexInv'
  BY <1>3 DEF KernelInv, BeamInv, IndexInv
<1>6. ListInv'
  <2>1. /\ \A n : LaneShare(n)' = LaneShare(n)
        /\ \A n : CarriedBelow(n)' = CarriedBelow(n)
    BY OfferFixed
  <2>2. \A n : HandedBelow(n)' = HandedBelow(n)
    BY DEF HandedBelow
  <2>3. \A l \in Lane : ListHolds(cand[l], LaneShare(l))
    BY DEF KernelInv, ListInv
  <2>4. {local', cand'} \subseteq [Lane -> Listing] /\ best' \in Listing
    BY DEF KernelInv, ListInv
  <2>5. (\A l \in Lane : ListHolds(cand[l], LaneShare(l)))'
    BY <2>1, <2>3 DEF ListHolds
  <2>6. (pc[0] = "carry" => ListHolds(best, CarriedBelow(m)))'
    BY <2>1 DEF CarriedBelow
  <2>7. (pc[0] = "merge" => ListHolds(best, CarriedBelow(K) \cup HandedBelow(m)))'
    <3>1. CarriedBelow(K)' = CarriedBelow(K) /\ HandedBelow(m)' = HandedBelow(m')
      BY <2>1 DEF HandedBelow
    <3> QED  BY <3>1
  <2> QED  BY <1>3, <2>4, <2>5, <2>6, <2>7 DEF ListInv
<1>7. TypeOK'
  <2>1. PlaceOK'
    BY <1>4, PlacesPrimed
  <2>2. best' \in [BeamId -> Entry]
    BY ListingType
  <2> QED  BY <2>1, <2>2 DEF KernelInv, TypeOK, PlaceOK
<1> QED  BY <1>4, <1>5, <1>6, <1>7 DEF KernelInv

LEMMA MergeCarriedKernel ==
  ASSUME KernelInv, MergeCarried
  PROVE  KernelInv'
<1>1. /\ pc[0] = "carry" /\ m' = (IF m + 1 < K THEN m + 1 ELSE 0)
      /\ pc' = IF m + 1 < K THEN pc ELSE [pc EXCEPT ![0] = "merge"]
      /\ UNCHANGED <<cons, t, rows, at, v, local, prev, cand, final, hyps>>
  BY DEF MergeCarried, scanVars
<1>2. /\ Merging /\ TypeOK /\ pc \in [Lane -> Places] /\ m < K /\ m \in Nat
      /\ best \in Listing /\ ListHolds(best, CarriedBelow(m))
  <2>1. Merging
    BY <1>1, PhaseOf, LaneFacts DEF KernelInv
  <2>2. TypeOK /\ pc \in [Lane -> Places] /\ m < K
    BY <1>1 DEF KernelInv, PhaseInv, IndexInv
  <2>3. m \in Nat
    <3>1. Lanes * K \in Int
      BY LaneFacts
    <3> QED  BY <2>2, <3>1 DEF TypeOK
  <2>4. best \in Listing /\ ListHolds(best, CarriedBelow(m))
    BY <1>1 DEF KernelInv, ListInv
  <2> QED  BY <2>1, <2>2, <2>3, <2>4
<1>3. m \in BeamId /\ K \in Nat
  BY <1>2, LaneFacts
<1>4. PICK x : x = Carried(m)
  OBVIOUS
<1>5. /\ best' \in Listing /\ ListHolds(best', CarriedBelow(m + 1))
  <2>1. CASE Ended(m) /\ IsFinite(prev[m].score)
    <3>1. x \in Real /\ x.parent = m
      BY <1>2, <1>3, <1>4, <2>1, CarriedReal
    <3>2. x \notin CarriedBelow(m)
      BY <1>2, <3>1 DEF CarriedBelow
    <3>3. CarriedBelow(m + 1) = CarriedBelow(m) \cup {x}
      <4>1. IsCarried(x)
        BY <1>4, <2>1, <3>1 DEF IsCarried
      <4>2. \A e \in Real : IsCarried(e) /\ e.parent = m => e = x
        BY <1>4 DEF IsCarried
      <4>3. \A e \in Real : e.parent < m + 1 <=> e.parent < m \/ e.parent = m
        BY <1>2, RealIndices
      <4> QED  BY <3>1, <4>1, <4>2, <4>3 DEF CarriedBelow
    <3>4. best' = InsertFromBack(best, x)
      BY <1>4, <2>1 DEF MergeCarried
    <3> QED  BY <1>2, <3>1, <3>2, <3>3, <3>4, InsertHolds, OffersReal
  <2>2. CASE ~(Ended(m) /\ IsFinite(prev[m].score))
    <3>1. CarriedBelow(m + 1) = CarriedBelow(m)
      <4>1. \A e \in Real : IsCarried(e) => e.parent # m
        BY <2>2 DEF IsCarried
      <4>2. \A e \in Real : e.parent < m + 1 <=> e.parent < m \/ e.parent = m
        BY <1>2, RealIndices
      <4> QED  BY <4>1, <4>2 DEF CarriedBelow
    <3>2. best' = best
      BY <2>2 DEF MergeCarried
    <3> QED  BY <1>2, <3>1, <3>2
  <2> QED  BY <2>1, <2>2
<1>6. CASE m + 1 < K
  <2>1. m' = m + 1 /\ pc' = pc
    BY <1>1, <1>6
  <2>2. m' \in 0 .. Lanes * K
    <3>1. K * 1 <= K * Lanes
      <4>1. Lanes = 1 \/ K * 1 + K <= K * Lanes
        BY MulStep, LaneFacts
      <4>2. K * Lanes \in Int /\ K * 1 = K /\ K \in Nat
        BY LaneFacts
      <4> QED  BY <4>1, <4>2
    <3>2. K * Lanes = Lanes * K /\ Lanes * K \in Int /\ K * 1 = K
      BY LaneFacts
    <3> QED  BY <1>2, <1>3, <1>6, <2>1, <3>1, <3>2
  <2> QED  BY <1>1, <1>2, <1>5, <1>6, <2>1, <2>2, MergeStepKernel
<1>7. CASE ~(m + 1 < K)
  <2>1. m' = 0 /\ pc' = [pc EXCEPT ![0] = "merge"] /\ m + 1 = K
    BY <1>1, <1>2, <1>3, <1>7
  <2>2. m' \in 0 .. Lanes * K
    <3>1. Lanes * K \in Nat
      BY LaneFacts
    <3> QED  BY <2>1, <3>1
  <2>3. HandedBelow(0) = {}
    BY DEF HandedBelow
  <2>4. pc'[0] = "merge"
    BY <1>2, <2>1, LaneFacts
  <2> QED  BY <1>1, <1>2, <1>5, <2>1, <2>2, <2>3, <2>4, MergeStepKernel
<1> QED  BY <1>6, <1>7

LEMMA MergeListKernel ==
  ASSUME KernelInv, MergeList
  PROVE  KernelInv'
<1>1. /\ pc[0] = "merge" /\ m < Lanes * K /\ m' = m + 1 /\ pc' = pc
      /\ best' = InsertFromBack(best, cand[m \div K][m % K])
      /\ UNCHANGED <<cons, t, rows, at, v, local, prev, cand, final, hyps>>
  BY DEF MergeList, scanVars
<1>2. /\ Merging /\ TypeOK /\ ListInv /\ m \in Nat /\ best \in Listing
      /\ ListHolds(best, CarriedBelow(K) \cup HandedBelow(m))
      /\ cand \in [Lane -> Listing]
  <2>1. Merging
    BY <1>1, PhaseOf, LaneFacts DEF KernelInv
  <2>2. TypeOK /\ ListInv
    BY DEF KernelInv
  <2>3. m \in Nat
    <3>1. Lanes * K \in Int
      BY LaneFacts
    <3> QED  BY <2>2, <3>1 DEF TypeOK
  <2>4. /\ best \in Listing /\ cand \in [Lane -> Listing]
        /\ ListHolds(best, CarriedBelow(K) \cup HandedBelow(m))
    BY <1>1, <2>2 DEF ListInv
  <2> QED  BY <2>1, <2>2, <2>3, <2>4
<1>3. PICK c : c = cand[m \div K][m % K]
  OBVIOUS
<1>4. c \in Listed
  <2>1. m \div K \in Lane /\ m % K \in BeamId
    BY <1>1, <1>2, SlotOf
  <2> QED  BY <1>2, <1>3, <2>1 DEF Listing
<1>5. HandedBelow(m + 1) = HandedBelow(m) \cup (IF c = NoCandidate THEN {} ELSE {c})
  BY <1>2, <1>3, <1>4, HandedNext
<1>6. best' \in Listing /\ ListHolds(best', CarriedBelow(K) \cup HandedBelow(m + 1))
  <2>1. CASE c = NoCandidate
    <3>1. best' = best /\ HandedBelow(m + 1) = HandedBelow(m)
      BY <1>1, <1>2, <1>3, <1>5, <2>1, SentinelStaysOut
    <3> QED  BY <1>2, <3>1
  <2>2. CASE c # NoCandidate
    <3>1. c \in Real /\ c \notin CarriedBelow(K) \cup HandedBelow(m)
      BY <1>1, <1>2, <1>3, <1>4, <2>2, HandedOnce DEF Listed
    <3>2. PICK S : S = CarriedBelow(K) \cup HandedBelow(m)
      OBVIOUS
    <3>3. S \subseteq Real /\ CarriedBelow(K) \cup HandedBelow(m + 1) = S \cup {c}
      BY <1>5, <2>2, <3>2, OffersReal
    <3>4. best' = InsertFromBack(best, c)
      BY <1>1, <1>3
    <3> QED  BY <1>2, <3>1, <3>2, <3>3, <3>4, InsertHolds
  <2> QED  BY <2>1, <2>2
<1>7. m' \in 0 .. Lanes * K
  <2>1. Lanes * K \in Int
    BY LaneFacts
  <2> QED  BY <1>1, <1>2, <2>1
<1> QED  BY <1>1, <1>2, <1>6, <1>7, MergeStepKernel

-----------------------------------------------------------------------------
(***************************************************************************)
(* The end of a step, in both kernels.                                     *)
(***************************************************************************)

\* A selected entry is at most one token longer than the beams were.
LEMMA OfferedLength ==
  ASSUME TypeOK, BeamInv, NEW e \in AllOffered
  PROVE  e.length \in 1 .. t + 1 /\ (e.ended => EOS >= 0)
<1>1. e \in Real /\ e.parent \in BeamId
  BY RealIndices DEF AllOffered
<1>2. /\ prev[e.parent].length \in Nat /\ prev[e.parent].length <= t /\ t \in Nat
      /\ prev[e.parent].ended => prev[e.parent].length > 0
  BY <1>1, DimensionsAssumption DEF TypeOK, BeamInv
<1>3. e.ended => EOS >= 0
  BY <1>1 DEF Real
<1>4. CASE IsExtension(e)
  <2>1. e.length = prev[e.parent].length + 1
    BY <1>4 DEF IsExtension, Extended
  <2> QED  BY <1>2, <1>3, <2>1
<1>5. CASE IsCarried(e)
  <2>1. e.length = prev[e.parent].length /\ prev[e.parent].ended
    BY <1>5 DEF IsCarried, Carried, Ended
  <2> QED  BY <1>2, <1>3, <2>1
<1> QED  BY <1>4, <1>5 DEF AllOffered

LEMMA CommitKernel ==
  ASSUME KernelInv, t < T, ListHolds(best, AllOffered), Commit
  PROVE  /\ prev' \in [BeamId -> [score : Score, length : Nat, ended : BOOLEAN]]
         /\ hyps' \in [BeamId -> Seq(Token)]
         /\ t' = t + 1 /\ t' \in 0 .. T
         /\ \A k \in BeamId : /\ prev'[k].length <= t'
                              /\ prev'[k].ended => EOS >= 0 /\ prev'[k].length > 0
<1>1. /\ TypeOK /\ BeamInv /\ best \in Listing /\ t \in Nat
      /\ hyps \in [BeamId -> Seq(Token)]
  BY DimensionsAssumption DEF KernelInv, ListInv, TypeOK
<1>2. \A k \in BeamId : best[k] \in Listed /\ best[k] \in AllOffered \cup {NoCandidate}
  BY <1>1 DEF Listing, ListHolds
<1>3. \A k \in BeamId : /\ best[k].score \in Score /\ best[k].length \in Nat
                        /\ best[k].ended \in BOOLEAN
  BY <1>2, ListedFields
<1>4. \A k \in BeamId : prev'[k] = [score |-> best[k].score, length |-> best[k].length,
                                    ended |-> best[k].ended]
  BY DEF Commit
<1>5. prev' \in [BeamId -> [score : Score, length : Nat, ended : BOOLEAN]]
  BY <1>3 DEF Commit
<1>6. t' = t + 1 /\ t' \in 0 .. T
  BY <1>1, DimensionsAssumption DEF Commit
<1>7. ASSUME NEW k \in BeamId
      PROVE  /\ prev'[k].length <= t'
             /\ prev'[k].ended => EOS >= 0 /\ prev'[k].length > 0
  <2>1. prev'[k].length = best[k].length /\ (prev'[k].ended <=> best[k].ended)
    <3>1. PICK x \in Score, n \in Nat, b \in BOOLEAN :
            x = best[k].score /\ n = best[k].length /\ b = best[k].ended
      BY <1>3
    <3>2. prev'[k] = [score |-> x, length |-> n, ended |-> b]
      BY <1>4, <3>1, Zenon
    <3> QED  BY <3>1, <3>2
  <2>2. CASE best[k] = NoCandidate
    <3>1. best[k].length = 0 /\ ~best[k].ended
      BY <2>2 DEF NoCandidate
    <3> QED  BY <1>1, <1>6, <2>1, <3>1
  <2>3. CASE best[k] \in AllOffered
    <3>1. best[k].length \in 1 .. t + 1 /\ (best[k].ended => EOS >= 0)
      BY <1>1, <2>3, OfferedLength
    <3> QED  BY <1>1, <1>6, <2>1, <3>1
  <2> QED  BY <1>2, <2>2, <2>3
<1>8. ASSUME NEW k \in BeamId
      PROVE  hyps'[k] \in Seq(Token)
  <2>1. hyps'[k] = IF best[k].parent = K THEN << >>
                   ELSE IF best[k].fromLogprob = 1 /\ best[k].token # V
                   THEN Append(hyps[best[k].parent], best[k].token)
                   ELSE hyps[best[k].parent]
    BY DEF Commit
  <2>2. CASE best[k] = NoCandidate
    <3>1. hyps'[k] = << >>
      BY <2>1, <2>2 DEF NoCandidate
    <3> QED  BY <3>1
  <2>3. CASE best[k] \in Real
    <3>1. best[k].parent \in BeamId /\ best[k].token \in Token
      BY <2>3, RealIndices
    <3>2. best[k].parent # K
      BY <3>1, LaneFacts
    <3> QED  BY <1>1, <2>1, <3>1, <3>2
  <2> QED  BY <1>2, <2>2, <2>3 DEF Listed
<1>9. hyps' \in [BeamId -> Seq(Token)]
  BY <1>8 DEF Commit
<1> QED  BY <1>5, <1>6, <1>7, <1>9

LEMMA CommitMergeKernel ==
  ASSUME KernelInv, CommitMerge
  PROVE  KernelInv'
<1>1. /\ pc[0] = "merge" /\ m = Lanes * K /\ Commit /\ pc' = [pc EXCEPT ![0] = "wait2"]
      /\ UNCHANGED <<cons, rows, at, v, local, cand, best, m, final>>
  BY DEF CommitMerge, Go, scanVars
<1>2. /\ Merging /\ TypeOK /\ ListInv /\ t < T /\ pc \in [Lane -> Places]
  BY <1>1, PhaseOf, LaneFacts DEF KernelInv, PhaseInv
<1>3. ListHolds(best, AllOffered)
  BY <1>1, <1>2, MergedHolds
<1>4. /\ prev' \in [BeamId -> [score : Score, length : Nat, ended : BOOLEAN]]
      /\ hyps' \in [BeamId -> Seq(Token)]
      /\ t' = t + 1 /\ t' \in 0 .. T
      /\ \A k \in BeamId : /\ prev'[k].length <= t'
                           /\ prev'[k].ended => EOS >= 0 /\ prev'[k].length > 0
  BY <1>1, <1>2, <1>3, CommitKernel
<1>5. Committed' /\ pc' \in [Lane -> Places]
  BY <1>1, <1>2, LaneFacts DEF Merging, Committed, Places, Place
<1>6. /\ ~Starting' /\ ~Scanning' /\ ~Merging'
      /\ pc'[0] \notin {"start", "serial", "carry", "merge"}
  BY <1>5, LaneFacts DEF Committed, Starting, Scanning, Merging
<1>7. PhaseInv'
  BY <1>4, <1>5, <1>6 DEF PhaseInv
<1>8. BeamInv' /\ IndexInv' /\ ListInv'
  BY <1>1, <1>2, <1>4, <1>6 DEF BeamInv, IndexInv, ListInv
<1>9. TypeOK'
  <2>1. PlaceOK'
    BY <1>7, PlacesPrimed
  <2> QED  BY <1>1, <1>2, <1>4, <2>1 DEF TypeOK, PlaceOK
<1> QED  BY <1>7, <1>8, <1>9 DEF KernelInv

LEMMA FinalScoreKernel ==
  ASSUME KernelInv, NEW l \in Lane, FinalScore(l)
  PROVE  KernelInv'
<1>1. /\ pc[l] = "final" /\ pc' = [pc EXCEPT ![l] = "done"]
      /\ UNCHANGED <<cons, t, rows, at, v, local, prev, cand, best, m, hyps>>
  BY DEF FinalScore, Go, scanVars
<1>2. Ending /\ TypeOK /\ pc \in [Lane -> Places] /\ t <= T
  BY <1>1, PhaseOf DEF KernelInv, PhaseInv
<1>3. Ending' /\ pc' \in [Lane -> Places]
  BY <1>1, <1>2 DEF Ending, Places, Place
<1>4. /\ ~Starting' /\ ~Scanning' /\ ~Merging'
      /\ pc'[0] \notin {"start", "serial", "carry", "merge"}
  BY <1>3, LaneFacts DEF Ending, Starting, Scanning, Merging
<1>5. PhaseInv'
  BY <1>1, <1>2, <1>3, <1>4 DEF PhaseInv
<1>6. BeamInv' /\ IndexInv' /\ ListInv'
  BY <1>1, <1>4 DEF KernelInv, BeamInv, IndexInv, ListInv
<1>7. final' \in [BeamId -> Score]
  <2>1. final \in [BeamId -> Score]
    BY <1>2 DEF TypeOK
  <2>2. CASE l < K
    <3>1. l \in BeamId /\ prev[l].score \in Score
      BY <1>2, <2>2, LaneFacts DEF TypeOK, Lane
    <3> QED  BY <2>1, <2>2, <3>1 DEF FinalScore
  <2>3. CASE ~(l < K)
    BY <2>1, <2>3 DEF FinalScore
  <2> QED  BY <2>2, <2>3
<1>8. TypeOK'
  <2>1. PlaceOK'
    BY <1>5, PlacesPrimed
  <2> QED  BY <1>1, <1>2, <1>7, <2>1 DEF TypeOK, PlaceOK
<1> QED  BY <1>5, <1>6, <1>8 DEF KernelInv
-----------------------------------------------------------------------------
(***************************************************************************)
(* The barriers.                                                           *)
(***************************************************************************)
\* Every lane begins a scan with an empty list and nothing passed.
LEMMA EnterScanKernel ==
  ASSUME KernelInv, t < T, rows' \in Rows(Beams),
         UNCHANGED <<cons, t, prev, cand, best, m, final, hyps>>,
         pc' = [l \in Lane |-> "scan"],
         at' = [l \in Lane |-> 0], v' = [l \in Lane |-> l],
         local' = [l \in Lane |-> EmptyList]
  PROVE  KernelInv'
<1>1. Scanning' /\ pc' \in [Lane -> Places]
  BY DEF Scanning, Places, Place
<1>2. /\ ~Starting' /\ ~Merging' /\ ~Committed' /\ ~Ending'
      /\ pc'[0] \notin {"start", "serial", "carry", "merge"}
  BY LaneFacts DEF Starting, Merging, Committed, Ending
<1>3. PhaseInv'
  BY <1>1, <1>2 DEF PhaseInv
<1>4. BeamInv'
  BY <1>2 DEF KernelInv, BeamInv
<1>5. IndexInv'
  <2>1. \A l \in Lane : l % Lanes = l
    BY SmallMod, LaneFacts DEF Lane
  <2>2. \A l \in Lane : v'[l] % Lanes = l
    BY <2>1
  <2> QED  BY <1>2, <2>2 DEF IndexInv
<1>6. EmptyList \in Listing /\ ListHolds(EmptyList, {})
  BY EmptyListHolds
<1>7. ListInv'
  <2>1. {local', cand'} \subseteq [Lane -> Listing] /\ best' \in Listing
    BY <1>6 DEF KernelInv, ListInv
  <2>2. ASSUME NEW l \in Lane
        PROVE  ScannedBy(l)' = {}
    <3>1. at'[l] = 0 /\ v'[l] = l
      OBVIOUS
    <3>2. \A e \in LaneShare(l)' : e \in Real /\ e.token % Lanes = l
      BY DEF LaneShare
    <3>3. \A e \in LaneShare(l)' : ~Passed(e, 0, l)
      BY <3>2, NothingScanned
    <3>4. ScannedBy(l)' = {e \in LaneShare(l)' : Passed(e, at'[l], v'[l])}
      BY DEF ScannedBy, Passed
    <3> QED  BY <3>1, <3>3, <3>4
  <2>3. \A l \in Lane : pc'[l] = "scan" /\ ListHolds(local'[l], ScannedBy(l)')
    BY <1>6, <2>2
  <2>4. (Scanning => \A l \in Lane : IF pc[l] = "scan"
                                     THEN ListHolds(local[l], ScannedBy(l))
                                     ELSE ListHolds(cand[l], LaneShare(l)))'
    BY <2>3 DEF ListHolds
  <2> QED  BY <1>2, <2>1, <2>4 DEF ListInv
<1>8. TypeOK'
  <2>1. PlaceOK'
    BY <1>3, PlacesPrimed
  <2>2. rows' \in [BeamId -> [Token -> LogProb]]
    BY DEF Rows
  <2>3. local' \in [Lane -> [BeamId -> Entry]]
    BY <1>6, ListingType
  <2>4. at' \in [Lane -> 0 .. K] /\ v' \in [Lane -> 0 .. V + Lanes - 1]
    BY DimensionsAssumption, LanesAssumption DEF Lane
  <2> QED  BY <2>1, <2>2, <2>3, <2>4 DEF KernelInv, TypeOK, PlaceOK
<1> QED  BY <1>3, <1>4, <1>5, <1>7, <1>8 DEF KernelInv

\* Which barrier it is, and where it leads.
LEMMA SyncCases ==
  ASSUME KernelInv, Sync
  PROVE  \/ /\ Starting \/ Committed
            /\ t < T /\ rows' \in Rows(Beams)
            /\ pc' = [l \in Lane |-> "scan"]
            /\ at' = [l \in Lane |-> 0] /\ v' = [l \in Lane |-> l]
            /\ local' = [l \in Lane |-> EmptyList]
            /\ UNCHANGED <<cons, t, prev, cand, best, m, final, hyps>>
            /\ Starting => \A l \in Lane : pc[l] = "wait0"
         \/ /\ Committed
            /\ pc' = [l \in Lane |-> "final"]
            /\ UNCHANGED <<cons, t, rows, at, v, local, prev, cand, best, m, final, hyps>>
         \/ /\ Scanning /\ \A l \in Lane : pc[l] = "wait1"
            /\ pc' = [l \in Lane |-> IF l = 0 THEN "carry" ELSE "wait2"]
            /\ best' = EmptyList /\ m' = 0
            /\ UNCHANGED <<cons, t, rows, at, v, local, prev, cand, final, hyps>>
<1>1. /\ \A l \in Lane : pc[l] \in {"wait0", "wait1", "wait2"}
      /\ pc' = [l \in Lane |-> AfterBarrier(l)]
      /\ 0 \in Lane /\ PhaseInv /\ 0 < T
  BY LaneFacts, DimensionsAssumption DEF Sync, KernelInv
<1>2. UNCHANGED <<cons, t, prev, cand, final, hyps>>
  BY DEF Sync
<1>3. \/ Starting /\ \A l \in Lane : pc[l] = "wait0"
      \/ Scanning /\ \A l \in Lane : pc[l] = "wait1"
      \/ Committed
  BY <1>1 DEF PhaseInv, Starting, Scanning, Merging, Committed, Ending, Alone
<1>4. CASE \/ Starting /\ \A l \in Lane : pc[l] = "wait0"
           \/ Committed /\ t < T
  <2>1. t < T
    BY <1>1, <1>4 DEF PhaseInv
  <2>2. \A l \in Lane : pc[l] # "wait1"
    BY <1>4 DEF Committed
  <2>3. pc' = [l \in Lane |-> "scan"]
    BY <1>1, <2>1, <2>2 DEF AfterBarrier
  <2>4. {l \in Lane : pc'[l] = "scan"} = Lane /\ pc'[0] = "scan"
    BY <1>1, <2>3
  <2>5. rows' \in Rows(Beams) /\ EnterScan(Lane) /\ UNCHANGED <<best, m>>
    BY <1>1, <2>4 DEF Sync
  <2>6. /\ at' = [l \in Lane |-> 0] /\ v' = [l \in Lane |-> l]
        /\ local' = [l \in Lane |-> EmptyList]
    BY <2>5 DEF EnterScan
  <2>7. Committed => \A l \in Lane : pc[l] # "wait0"
    BY DEF Committed
  <2> QED  BY <1>1, <1>2, <1>4, <2>1, <2>3, <2>5, <2>6, <2>7 DEF Starting, Committed
<1>5. CASE Committed /\ ~(t < T)
  <2>1. pc' = [l \in Lane |-> "final"]
    BY <1>1, <1>5 DEF AfterBarrier, Committed
  <2>2. ~(\E l \in Lane : pc'[l] = "scan") /\ pc'[0] # "carry"
    BY <1>1, <2>1
  <2>3. UNCHANGED <<rows, at, v, local, best, m>>
    BY <2>2 DEF Sync, scanVars
  <2> QED  BY <1>2, <1>5, <2>1, <2>3
<1>6. CASE Scanning /\ \A l \in Lane : pc[l] = "wait1"
  <2>1. pc' = [l \in Lane |-> IF l = 0 THEN "carry" ELSE "wait2"]
    BY <1>1, <1>6 DEF AfterBarrier
  <2>2. ~(\E l \in Lane : pc'[l] = "scan") /\ pc'[0] = "carry"
    BY <1>1, <2>1
  <2>3. best' = EmptyList /\ m' = 0 /\ UNCHANGED <<rows, at, v, local>>
    BY <2>2 DEF Sync, scanVars
  <2>4. UNCHANGED <<cons, t, rows, at, v, local, prev, cand, final, hyps>>
    BY <1>2, <2>3
  <2> QED  BY <1>6, <2>1, <2>3, <2>4, Zenon
<1> QED  BY <1>3, <1>4, <1>5, <1>6

LEMMA SyncKernel ==
  ASSUME KernelInv, Sync
  PROVE  KernelInv'
<1>1. CASE /\ t < T /\ rows' \in Rows(Beams)
           /\ pc' = [l \in Lane |-> "scan"]
           /\ at' = [l \in Lane |-> 0] /\ v' = [l \in Lane |-> l]
           /\ local' = [l \in Lane |-> EmptyList]
           /\ UNCHANGED <<cons, t, prev, cand, best, m, final, hyps>>
  BY <1>1, EnterScanKernel
<1>2. CASE /\ Committed
           /\ pc' = [l \in Lane |-> "final"]
           /\ UNCHANGED <<cons, t, rows, at, v, local, prev, cand, best, m, final, hyps>>
  <2>1. Ending' /\ pc' \in [Lane -> Places]
    BY <1>2 DEF Ending, Places, Place
  <2>2. /\ ~Starting' /\ ~Scanning' /\ ~Merging' /\ ~Committed'
        /\ pc'[0] \notin {"start", "serial", "carry", "merge"}
    BY <1>2, LaneFacts DEF Starting, Scanning, Merging, Committed
  <2>3. PhaseInv'
    BY <1>2, <2>1, <2>2 DEF KernelInv, PhaseInv
  <2>4. BeamInv' /\ IndexInv' /\ ListInv'
    BY <1>2, <2>2 DEF KernelInv, BeamInv, IndexInv, ListInv
  <2>5. PlaceOK'
    BY <2>3, PlacesPrimed
  <2>6. TypeOK'
    BY <1>2, <2>5 DEF KernelInv, TypeOK, PlaceOK
  <2> QED  BY <2>3, <2>4, <2>6 DEF KernelInv
<1>3. CASE /\ Scanning /\ \A l \in Lane : pc[l] = "wait1"
           /\ pc' = [l \in Lane |-> IF l = 0 THEN "carry" ELSE "wait2"]
           /\ best' = EmptyList /\ m' = 0
           /\ UNCHANGED <<cons, t, rows, at, v, local, prev, cand, final, hyps>>
  <2>1. Merging' /\ pc' \in [Lane -> Places] /\ pc'[0] = "carry"
    BY <1>3, LaneFacts DEF Merging, Places, Place
  <2>2. ~Starting' /\ ~Scanning' /\ ~Committed' /\ ~Ending'
    BY <2>1, LaneFacts DEF Starting, Scanning, Committed, Ending
  <2>3. PhaseInv'
    BY <1>3, <2>1, <2>2 DEF KernelInv, PhaseInv
  <2>4. BeamInv'
    BY <1>3, <2>2 DEF KernelInv, BeamInv
  <2>5. IndexInv'
    BY <1>3, <2>1, <2>2, LaneFacts DEF IndexInv
  <2>6. EmptyList \in Listing /\ ListHolds(EmptyList, {})
    BY EmptyListHolds
  <2>7. ListInv'
    <3>1. {local', cand'} \subseteq [Lane -> Listing] /\ best' \in Listing
      BY <1>3, <2>6 DEF KernelInv, ListInv
    <3>2. \A n : LaneShare(n)' = LaneShare(n)
      BY <1>3, OfferFixed
    <3>3. \A l \in Lane : ListHolds(cand[l], LaneShare(l))
      BY <1>3 DEF KernelInv, ListInv
    <3>4. (\A l \in Lane : ListHolds(cand[l], LaneShare(l)))'
      BY <1>3, <3>2, <3>3 DEF ListHolds
    <3>5. CarriedBelow(m)' = {}
      <4>1. \A e \in Real : ~(e.parent < 0)
        BY RealIndices
      <4>2. \A e \in CarriedBelow(m)' : e \in Real /\ e.parent < m'
        BY DEF CarriedBelow
      <4> QED  BY <1>3, <4>1, <4>2
    <3>6. ListHolds(best, CarriedBelow(m))'
      BY <1>3, <2>6, <3>5 DEF ListHolds
    <3> QED  BY <2>1, <2>2, <3>1, <3>4, <3>6 DEF ListInv
  <2>8. TypeOK'
    <3>1. PlaceOK'
      BY <2>3, PlacesPrimed
    <3>2. m' \in 0 .. Lanes * K
      <4>1. Lanes * K \in Nat
        BY LaneFacts
      <4> QED  BY <1>3, <4>1
    <3>3. best' \in [BeamId -> Entry]
      BY <1>3, <2>6, ListingType
    <3> QED  BY <1>3, <3>1, <3>2, <3>3 DEF KernelInv, TypeOK, PlaceOK
  <2> QED  BY <2>3, <2>4, <2>5, <2>7, <2>8 DEF KernelInv
<1> QED  BY <1>1, <1>2, <1>3, SyncCases
-----------------------------------------------------------------------------
(***************************************************************************)
(* The serial kernel.                                                      *)
(***************************************************************************)
\* What its steps have in common: the single thread stays alone.
LEMMA SerialStepKernel ==
  ASSUME KernelInv, Alone, UNCHANGED <<cons, local, cand, m>>,
         pc' \in [Lane -> Places], pc'[0] \in {"step", "serial", "done"},
         \A l \in Lane \ {0} : pc'[l] = pc[l],
         t' \in 0 .. T, rows' \in [BeamId -> [Token -> LogProb]],
         at' \in [Lane -> 0 .. K], v' \in [Lane -> 0 .. V + Lanes - 1],
         prev' \in [BeamId -> [score : Score, length : Nat, ended : BOOLEAN]],
         best' \in Listing, final' \in [BeamId -> Score],
         hyps' \in [BeamId -> Seq(Token)],
         \A k \in BeamId : /\ prev'[k].length <= t'
                           /\ prev'[k].ended => EOS >= 0 /\ prev'[k].length > 0,
         pc'[0] = "serial" =>
           t' < T /\ v'[0] < V /\ ListHolds(best', SerialScanned')
  PROVE  KernelInv'
<1>1. Alone'
  BY DEF Alone
<1>2. /\ ~Starting' /\ ~Scanning' /\ ~Merging' /\ ~Committed'
      /\ pc'[0] \notin {"start", "carry", "merge"}
  BY LaneFacts DEF Starting, Scanning, Merging, Committed
<1>3. PhaseInv'
  <2>1. t' <= T
    BY DimensionsAssumption
  <2> QED  BY <1>1, <1>2, <2>1 DEF PhaseInv
<1>4. BeamInv' /\ IndexInv'
  BY <1>2 DEF BeamInv, IndexInv
<1>5. ListInv'
  <2>1. {local', cand'} \subseteq [Lane -> Listing]
    BY DEF KernelInv, ListInv
  <2>2. (pc[0] = "serial" => ListHolds(best, SerialScanned))'
    BY DEF ListHolds
  <2> QED  BY <1>2, <2>1, <2>2 DEF ListInv
<1>6. TypeOK'
  <2>1. PlaceOK'
    BY <1>3, PlacesPrimed
  <2>2. best' \in [BeamId -> Entry]
    BY ListingType
  <2> QED  BY <2>1, <2>2 DEF KernelInv, TypeOK, PlaceOK
<1> QED  BY <1>3, <1>4, <1>5, <1>6 DEF KernelInv

\* What the single thread starts from.
LEMMA SerialFacts ==
  ASSUME KernelInv, pc[0] \in {"start", "step", "serial"}
  PROVE  /\ Alone /\ TypeOK /\ BeamInv /\ ListInv /\ 0 \in Lane
         /\ pc \in [Lane -> Places] /\ t \in 0 .. T
         /\ rows \in [BeamId -> [Token -> LogProb]]
         /\ at \in [Lane -> 0 .. K] /\ v \in [Lane -> 0 .. V + Lanes - 1]
         /\ at[0] \in 0 .. K /\ v[0] \in 0 .. V + Lanes - 1
         /\ prev \in [BeamId -> [score : Score, length : Nat, ended : BOOLEAN]]
         /\ best \in Listing /\ final \in [BeamId -> Score]
         /\ hyps \in [BeamId -> Seq(Token)]
         /\ \A k \in BeamId : /\ prev[k].length <= t
                              /\ prev[k].ended => EOS >= 0 /\ prev[k].length > 0
         /\ pc[0] = "start" => t = 0
         /\ pc[0] = "serial" => t < T /\ v[0] < V /\ ListHolds(best, SerialScanned)
<1>1. Alone /\ 0 \in Lane
  BY PhaseOf, LaneFacts DEF KernelInv
<1>2. TypeOK /\ BeamInv /\ ListInv /\ PhaseInv /\ IndexInv
  BY DEF KernelInv
<1>3. /\ t \in 0 .. T /\ rows \in [BeamId -> [Token -> LogProb]]
      /\ at \in [Lane -> 0 .. K] /\ v \in [Lane -> 0 .. V + Lanes - 1]
      /\ prev \in [BeamId -> [score : Score, length : Nat, ended : BOOLEAN]]
      /\ final \in [BeamId -> Score] /\ hyps \in [BeamId -> Seq(Token)]
  BY <1>2 DEF TypeOK
<1>4. at[0] \in 0 .. K /\ v[0] \in 0 .. V + Lanes - 1
  BY <1>1, <1>3
<1>5. /\ pc \in [Lane -> Places] /\ (pc[0] = "start" => t = 0)
      /\ pc[0] = "serial" => t < T
  BY <1>2 DEF PhaseInv
<1>6. /\ \A k \in BeamId : /\ prev[k].length <= t
                           /\ prev[k].ended => EOS >= 0 /\ prev[k].length > 0
      /\ pc[0] = "serial" => v[0] < V
  BY <1>2 DEF BeamInv, IndexInv
<1>7. best \in Listing /\ (pc[0] = "serial" => ListHolds(best, SerialScanned))
  BY <1>2 DEF ListInv
<1> QED  BY <1>1, <1>2, <1>3, <1>4, <1>5, <1>6, <1>7

LEMMA SerialInitKernel ==
  ASSUME KernelInv, SerialInit
  PROVE  KernelInv'
<1>1. /\ pc[0] = "start" /\ prev' = [k \in BeamId |-> FirstBeam(k)]
      /\ pc' = [pc EXCEPT ![0] = "step"]
      /\ UNCHANGED <<cons, t, rows, at, v, local, cand, best, m, final, hyps>>
  BY DEF SerialInit, Go, scanVars
<1>2. /\ pc' \in [Lane -> Places] /\ pc'[0] = "step"
      /\ \A l \in Lane \ {0} : pc'[l] = pc[l]
  BY <1>1, SerialFacts DEF Places
<1>3. /\ prev' \in [BeamId -> [score : Score, length : Nat, ended : BOOLEAN]]
      /\ \A k \in BeamId : prev'[k].length = 0 /\ prev'[k].ended = FALSE
  BY <1>1, FirstBeamType
<1>4. t' = 0 /\ \A k \in BeamId : /\ prev'[k].length <= t'
                                  /\ prev'[k].ended => EOS >= 0 /\ prev'[k].length > 0
  BY <1>1, <1>3, SerialFacts
<1> QED  BY <1>1, <1>2, <1>3, <1>4, SerialFacts, SerialStepKernel

LEMMA SerialStepIntoScan ==
  ASSUME KernelInv, SerialStep
  PROVE  KernelInv'
<1>1. /\ pc[0] = "step" /\ t < T /\ rows' \in Rows(Beams) /\ best' = EmptyList
      /\ at' = [at EXCEPT ![0] = 0] /\ v' = [v EXCEPT ![0] = 0]
      /\ pc' = [pc EXCEPT ![0] = "serial"]
      /\ UNCHANGED <<cons, t, local, prev, cand, m, final, hyps>>
  BY DEF SerialStep, Go
<1>2. /\ pc' \in [Lane -> Places] /\ pc'[0] = "serial"
      /\ \A l \in Lane \ {0} : pc'[l] = pc[l]
  BY <1>1, SerialFacts DEF Places
<1>3. rows' \in [BeamId -> [Token -> LogProb]]
  BY <1>1 DEF Rows
<1>4. /\ at' \in [Lane -> 0 .. K] /\ v' \in [Lane -> 0 .. V + Lanes - 1]
      /\ at'[0] = 0 /\ v'[0] = 0
  <2>1. 0 \in 0 .. K /\ 0 \in 0 .. V + Lanes - 1
    BY DimensionsAssumption, LanesAssumption
  <2> QED  BY <1>1, <2>1, SerialFacts
<1>5. SerialScanned' = {}
  <2>1. \A e \in Real : ~(e.parent < 0) /\ ~(e.token < 0)
    BY RealIndices
  <2>2. \A e \in SerialScanned' : /\ e \in Real
                                  /\ Passed(e, at'[0], v'[0]) \/ e.parent < at'[0]
    BY DEF SerialScanned, Passed
  <2> QED  BY <1>4, <2>1, <2>2 DEF Passed
<1>6. EmptyList \in Listing /\ ListHolds(EmptyList, {})
  BY EmptyListHolds
<1>7. v'[0] < V /\ ListHolds(best', SerialScanned')
  BY <1>1, <1>4, <1>5, <1>6, DimensionsAssumption
<1>8. best' \in Listing
  BY <1>1, <1>6
<1> QED  BY <1>1, <1>2, <1>3, <1>4, <1>7, <1>8, SerialFacts, SerialStepKernel

\* A step of the scan: what the loop has passed grows by what it offered.
LEMMA SerialScanKernel ==
  ASSUME KernelInv, pc[0] = "serial",
         UNCHANGED <<cons, t, rows, pc, local, prev, cand, m, final, hyps>>,
         at' \in [Lane -> 0 .. K], v' \in [Lane -> 0 .. V + Lanes - 1], v'[0] < V,
         best' \in Listing, ListHolds(best', SerialScanned')
  PROVE  KernelInv'
<1>1. pc' \in [Lane -> Places] /\ pc'[0] = "serial" /\ t' < T /\ t' \in 0 .. T
  BY SerialFacts
<1>2. \A k \in BeamId : /\ prev'[k].length <= t'
                        /\ prev'[k].ended => EOS >= 0 /\ prev'[k].length > 0
  BY SerialFacts
<1>3. /\ rows' \in [BeamId -> [Token -> LogProb]] /\ final' \in [BeamId -> Score]
      /\ prev' \in [BeamId -> [score : Score, length : Nat, ended : BOOLEAN]]
      /\ hyps' \in [BeamId -> Seq(Token)] /\ \A l \in Lane \ {0} : pc'[l] = pc[l]
  BY SerialFacts
<1>4. Alone
  BY SerialFacts
<1> QED  BY <1>1, <1>2, <1>3, <1>4, SerialStepKernel

\* The indices of the next beam.
LEMMA SerialNextBeamIndices ==
  ASSUME KernelInv, pc[0] = "serial", at[0] < K, SerialNextBeam
  PROVE  /\ UNCHANGED <<cons, t, rows, pc, local, prev, cand, m, final, hyps>>
         /\ at' \in [Lane -> 0 .. K] /\ v' \in [Lane -> 0 .. V + Lanes - 1]
         /\ at'[0] = at[0] + 1 /\ v'[0] = 0 /\ v'[0] < V
<1>1. at[0] + 1 \in 0 .. K /\ 0 \in 0 .. V + Lanes - 1
  BY SerialFacts, DimensionsAssumption, LanesAssumption
<1>2. at' = [at EXCEPT ![0] = at[0] + 1] /\ v' = [v EXCEPT ![0] = 0]
  BY DEF SerialNextBeam
<1>3. /\ at' \in [Lane -> 0 .. K] /\ v' \in [Lane -> 0 .. V + Lanes - 1]
      /\ at'[0] = at[0] + 1 /\ v'[0] = 0
  BY <1>1, <1>2, SerialFacts
<1> QED  BY <1>3, DimensionsAssumption DEF SerialNextBeam

LEMMA SerialSkipKernel ==
  ASSUME KernelInv, SerialSkip
  PROVE  KernelInv'
<1>1. pc[0] = "serial" /\ at[0] < K /\ Skipped(at[0]) /\ SerialNextBeam
  BY DEF SerialSkip
<1>2. /\ UNCHANGED <<cons, t, rows, pc, local, prev, cand, m, final, hyps>>
      /\ at' \in [Lane -> 0 .. K] /\ v' \in [Lane -> 0 .. V + Lanes - 1]
      /\ at'[0] = at[0] + 1 /\ v'[0] = 0 /\ v'[0] < V
  BY <1>1, SerialNextBeamIndices
<1>3. /\ TypeOK /\ best \in Listing /\ ListHolds(best, SerialScanned)
      /\ at[0] \in Nat /\ at[0] \in BeamId /\ v[0] \in Nat
  BY <1>1, SerialFacts, LaneFacts, DimensionsAssumption
<1>4. PICK k \in BeamId : k = at[0]
  BY <1>3
<1>5. \A e \in Real : e \in SerialScanned' <=>
        \/ IsExtension(e) /\ Passed(e, k + 1, 0)
        \/ IsCarried(e) /\ e.parent < k + 1
  <2>1. \A e : (IsExtension(e)' <=> IsExtension(e)) /\ (IsCarried(e)' <=> IsCarried(e))
    BY <1>2, OfferFixed
  <2>2. SerialScanned' =
          {e \in Real : \/ IsExtension(e)' /\ Passed(e, at'[0], v'[0])
                        \/ IsCarried(e)' /\ e.parent < at'[0]}
    BY DEF SerialScanned, Passed
  <2> QED  BY <1>2, <1>4, <2>1, <2>2
<1>6. \A e \in Real : e \in SerialScanned <=>
        \/ IsExtension(e) /\ Passed(e, k, v[0])
        \/ IsCarried(e) /\ e.parent < k
  BY <1>4 DEF SerialScanned
<1>7. \A e \in Real : IsExtension(e) => e.parent # k
  BY <1>1, <1>4 DEF IsExtension
<1>8. \A e \in Real : e \in SerialScanned' <=>
        e \in SerialScanned \/ (IsCarried(e) /\ e.parent = k)
  <2> TAKE e \in Real
  <2>1. e.parent \in Nat /\ e.token \in Nat /\ k \in Nat
    BY <1>3, <1>4, RealIndices
  <2>2. IsExtension(e) => (Passed(e, k + 1, 0) <=> Passed(e, k, v[0]))
    BY <1>7, <2>1 DEF Passed
  <2>3. e.parent < k + 1 <=> e.parent < k \/ e.parent = k
    BY <2>1
  <2> QED  BY <1>5, <1>6, <2>2, <2>3
<1>9. SerialScanned' \subseteq Real /\ SerialScanned \subseteq Real
  BY DEF SerialScanned
<1>10. best' \in Listing /\ ListHolds(best', SerialScanned')
  <2>1. CASE IsFinite(prev[k].score)
    <3>1. Ended(k)
      BY <1>1, <1>4, <2>1 DEF Skipped
    <3>2. PICK x : x = Carried(k)
      OBVIOUS
    <3>3. x \in Real /\ x.parent = k
      BY <1>3, <3>1, <3>2, CarriedReal
    <3>4. IsCarried(x)
      BY <2>1, <3>1, <3>2, <3>3 DEF IsCarried
    <3>5. \A e \in Real : IsCarried(e) /\ e.parent = k => e = x
      BY <3>2 DEF IsCarried
    <3>6. SerialScanned' = SerialScanned \cup {x}
      BY <1>8, <1>9, <3>3, <3>4, <3>5
    <3>7. x \notin SerialScanned
      BY <1>3, <1>4, <1>6, <1>7, <3>3
    <3>8. best' = InsertFromFront(best, x)
      BY <1>4, <2>1, <3>2 DEF SerialSkip
    <3> QED  BY <1>3, <1>9, <3>3, <3>6, <3>7, <3>8, InsertHolds
  <2>2. CASE ~IsFinite(prev[k].score)
    <3>1. \A e \in Real : ~(IsCarried(e) /\ e.parent = k)
      BY <2>2 DEF IsCarried
    <3>2. SerialScanned' = SerialScanned
      BY <1>8, <1>9, <3>1
    <3>3. best' = best
      BY <1>4, <2>2 DEF SerialSkip
    <3> QED  BY <1>3, <3>2, <3>3
  <2> QED  BY <2>1, <2>2
<1> QED  BY <1>1, <1>2, <1>10, SerialScanKernel

\* One token: the scan has passed it, in the row or at its end.
LEMMA SerialTokenScans ==
  ASSUME KernelInv, SerialToken
  PROVE  /\ UNCHANGED <<cons, t, rows, pc, local, prev, cand, m, final, hyps>>
         /\ at' \in [Lane -> 0 .. K] /\ v' \in [Lane -> 0 .. V + Lanes - 1]
         /\ v'[0] < V
         /\ \A e \in Real : (Passed(e, at'[0], v'[0]) <=>
              Passed(e, at[0], v[0]) \/ (e.parent = at[0] /\ e.token = v[0]))
         /\ \A e \in Real : e.parent < at'[0] <=>
              e.parent < at[0] \/ (e.parent = at[0] /\ at'[0] = at[0] + 1)
<1>1. /\ pc[0] = "serial" /\ at[0] < K
      /\ IF v[0] + 1 < V
         THEN /\ v' = [v EXCEPT ![0] = @ + 1]
              /\ UNCHANGED <<cons, t, rows, pc, at, local, prev, cand, m, final, hyps>>
         ELSE SerialNextBeam
  BY DEF SerialToken
<1>2. PICK k \in Nat, u \in Nat : k = at[0] /\ u = v[0] /\ k < K /\ u < V
  BY <1>1, SerialFacts, DimensionsAssumption, LanesAssumption
<1>3. \A e \in Real : /\ e.parent \in Nat /\ e.token \in Nat /\ e.token < V
                      /\ e.parent \in Int /\ e.token \in Int
  BY RealIndices
<1>4. V \in Nat /\ Lanes \in Nat \ {0}
  BY DimensionsAssumption, LaneFacts
<1>5. CASE u + 1 < V
  <2>1. /\ UNCHANGED <<cons, t, rows, pc, local, prev, cand, m, final, hyps>>
        /\ at' = at /\ v' = [v EXCEPT ![0] = u + 1]
    BY <1>1, <1>2, <1>5
  <2>2. u + 1 \in 0 .. V + Lanes - 1
    BY <1>2, <1>4, <1>5
  <2>3. at' \in [Lane -> 0 .. K] /\ v' \in [Lane -> 0 .. V + Lanes - 1] /\ v'[0] = u + 1
    BY <1>1, <2>1, <2>2, SerialFacts
  <2>4. \A e \in Real : (Passed(e, k, u + 1) <=>
              Passed(e, k, u) \/ (e.parent = k /\ e.token = u))
    BY <1>2, <1>3 DEF Passed
  <2>5. at'[0] = k /\ k # k + 1
    BY <1>2, <2>1
  <2> QED  BY <1>2, <1>5, <2>1, <2>3, <2>4, <2>5
<1>6. CASE ~(u + 1 < V)
  <2>1. u + 1 = V
    BY <1>2, <1>4, <1>6
  <2>2. SerialNextBeam
    BY <1>1, <1>2, <1>6
  <2>3. /\ UNCHANGED <<cons, t, rows, pc, local, prev, cand, m, final, hyps>>
        /\ at' \in [Lane -> 0 .. K] /\ v' \in [Lane -> 0 .. V + Lanes - 1]
        /\ at'[0] = k + 1 /\ v'[0] = 0 /\ v'[0] < V
    BY <1>1, <1>2, <2>2, SerialNextBeamIndices
  <2>4. \A e \in Real : (Passed(e, k + 1, 0) <=>
              Passed(e, k, u) \/ (e.parent = k /\ e.token = u))
    BY <1>2, <1>3, <2>1 DEF Passed
  <2>5. \A e \in Real : e.parent < k + 1 <=> e.parent < k \/ e.parent = k
    BY <1>2, <1>3
  <2> QED  BY <1>2, <2>3, <2>4, <2>5
<1> QED  BY <1>5, <1>6

LEMMA SerialTokenKernel ==
  ASSUME KernelInv, SerialToken
  PROVE  KernelInv'
<1>1. pc[0] = "serial" /\ at[0] < K /\ ~Skipped(at[0])
  BY DEF SerialToken
<1>2. /\ UNCHANGED <<cons, t, rows, pc, local, prev, cand, m, final, hyps>>
      /\ at' \in [Lane -> 0 .. K] /\ v' \in [Lane -> 0 .. V + Lanes - 1]
      /\ v'[0] < V
  BY SerialTokenScans
<1>3. /\ TypeOK /\ best \in Listing /\ ListHolds(best, SerialScanned)
      /\ at[0] \in BeamId /\ v[0] \in Token
  BY <1>1, SerialFacts, LaneFacts, DimensionsAssumption, LanesAssumption DEF Token
<1>4. PICK k \in BeamId, u \in Token : k = at[0] /\ u = v[0]
  BY <1>3
<1>5. PICK x : x = Extended(k, u)
  OBVIOUS
<1>6. x \in Real /\ x.parent = k /\ x.token = u
  BY <1>3, <1>5, ExtendedReal
<1>7. ~(\E e \in Real : IsCarried(e) /\ e.parent = k)
  <2>1. \A e : IsCarried(e) /\ e.parent = k => Ended(k)
    BY DEF IsCarried
  <2> QED  BY <1>1, <1>4, <2>1 DEF Skipped
<1>8. \A e \in Real : IsExtension(e) /\ e.parent = k /\ e.token = u
                      <=> e = x /\ Offered(k, u)
  BY <1>1, <1>4, <1>5, <1>6 DEF IsExtension
<1>9. \A e \in Real : e \in SerialScanned' <=>
        e \in SerialScanned \/ (e = x /\ Offered(k, u))
  <2>1. \A e : (IsExtension(e)' <=> IsExtension(e)) /\ (IsCarried(e)' <=> IsCarried(e))
    BY <1>2, OfferFixed
  <2>2. SerialScanned' =
          {e \in Real : \/ IsExtension(e)' /\ Passed(e, at'[0], v'[0])
                        \/ IsCarried(e)' /\ e.parent < at'[0]}
    BY DEF SerialScanned, Passed
  <2>3. \A e \in Real : e \in SerialScanned' <=>
          \/ IsExtension(e) /\ Passed(e, at'[0], v'[0])
          \/ IsCarried(e) /\ e.parent < at'[0]
    BY <2>1, <2>2
  <2>4. \A e \in Real : e \in SerialScanned <=>
          \/ IsExtension(e) /\ Passed(e, at[0], v[0])
          \/ IsCarried(e) /\ e.parent < at[0]
    BY DEF SerialScanned
  <2>5. \A e \in Real : Passed(e, at'[0], v'[0]) <=>
          Passed(e, at[0], v[0]) \/ (e.parent = k /\ e.token = u)
    BY <1>4, SerialTokenScans
  <2>6. \A e \in Real : IsCarried(e) => (e.parent < at'[0] <=> e.parent < at[0])
    BY <1>4, <1>7, SerialTokenScans
  <2> QED  BY <1>8, <2>3, <2>4, <2>5, <2>6
<1>10. SerialScanned' \subseteq Real /\ SerialScanned \subseteq Real
  BY DEF SerialScanned
<1>11. x \notin SerialScanned
  <2>1. ~Passed(x, k, u)
    BY <1>6, RealIndices DEF Passed
  <2> QED  BY <1>4, <1>6, <1>7, <2>1 DEF SerialScanned
<1>12. best' \in Listing /\ ListHolds(best', SerialScanned')
  <2>1. CASE Offered(k, u)
    <3>1. SerialScanned' = SerialScanned \cup {x}
      BY <1>6, <1>9, <1>10, <2>1
    <3>2. best' = InsertFromFront(best, x)
      BY <1>4, <1>5, <2>1 DEF SerialToken
    <3> QED  BY <1>3, <1>6, <1>10, <1>11, <3>1, <3>2, InsertHolds
  <2>2. CASE ~Offered(k, u)
    <3>1. SerialScanned' = SerialScanned
      BY <1>9, <1>10, <2>2
    <3>2. best' = best
      BY <1>4, <2>2 DEF SerialToken
    <3> QED  BY <1>3, <3>1, <3>2
  <2> QED  BY <2>1, <2>2
<1> QED  BY <1>1, <1>2, <1>12, SerialScanKernel

LEMMA SerialCommitKernel ==
  ASSUME KernelInv, SerialCommit
  PROVE  KernelInv'
<1>1. /\ pc[0] = "serial" /\ at[0] = K /\ Commit /\ pc' = [pc EXCEPT ![0] = "step"]
      /\ UNCHANGED <<cons, rows, at, v, local, cand, best, m, final>>
  BY DEF SerialCommit, Go, scanVars
<1>2. t < T /\ ListHolds(best, AllOffered)
  BY <1>1, SerialFacts, SerialHolds
<1>3. /\ prev' \in [BeamId -> [score : Score, length : Nat, ended : BOOLEAN]]
      /\ hyps' \in [BeamId -> Seq(Token)]
      /\ t' = t + 1 /\ t' \in 0 .. T
      /\ \A k \in BeamId : /\ prev'[k].length <= t'
                           /\ prev'[k].ended => EOS >= 0 /\ prev'[k].length > 0
  BY <1>1, <1>2, CommitKernel
<1>4. /\ pc' \in [Lane -> Places] /\ pc'[0] = "step"
      /\ \A l \in Lane \ {0} : pc'[l] = pc[l]
  BY <1>1, SerialFacts DEF Places
<1> QED  BY <1>1, <1>3, <1>4, SerialFacts, SerialStepKernel

LEMMA SerialFinalKernel ==
  ASSUME KernelInv, SerialFinal
  PROVE  KernelInv'
<1>1. /\ pc[0] = "step" /\ final' = [k \in BeamId |-> prev[k].score]
      /\ pc' = [pc EXCEPT ![0] = "done"]
      /\ UNCHANGED <<cons, t, rows, at, v, local, prev, cand, best, m, hyps>>
  BY DEF SerialFinal, Go, scanVars
<1>2. /\ pc' \in [Lane -> Places] /\ pc'[0] = "done"
      /\ \A l \in Lane \ {0} : pc'[l] = pc[l]
  BY <1>1, SerialFacts DEF Places, Place
<1>3. final' \in [BeamId -> Score]
  BY <1>1, SerialFacts
<1> QED  BY <1>1, <1>2, <1>3, SerialFacts, SerialStepKernel

-----------------------------------------------------------------------------
(***************************************************************************)
(* The invariant holds.                                                    *)
(***************************************************************************)
LEMMA NextKernel ==
  ASSUME KernelInv, [Next]_vars
  PROVE  KernelInv'
<1>1. CASE UNCHANGED vars
  <2>1. UNCHANGED <<cons, t, rows, pc, at, v, local, prev, cand, best, m, final, hyps>>
    BY <1>1 DEF vars, scanVars
  <2>2. PhaseInv' /\ IndexInv' /\ BeamInv'
    BY <2>1 DEF KernelInv, PhaseInv, IndexInv, BeamInv, Starting, Scanning, Merging,
                Committed, Ending, Alone
  <2>3. TypeOK'
    BY <2>1 DEF KernelInv, TypeOK
  <2>4. /\ \A n : LaneShare(n)' = LaneShare(n)
        /\ \A n : CarriedBelow(n)' = CarriedBelow(n)
        /\ \A e : (IsExtension(e)' <=> IsExtension(e)) /\ (IsCarried(e)' <=> IsCarried(e))
    BY <2>1, OfferFixed
  <2>5. ListInv'
    BY <2>1, <2>4
       DEF KernelInv, ListInv, ListHolds, Scanning, Merging, ScannedBy, HandedBelow,
           SerialScanned, Passed, CarriedBelow
  <2> QED  BY <2>2, <2>3, <2>5 DEF KernelInv
<1>2. CASE \E l \in Lane : LaneStep(l)
  BY <1>2, InitBeamKernel, SkipBeamKernel, ScanTokenKernel, HandInKernel,
     FinalScoreKernel DEF LaneStep
<1>3. CASE Merge
  BY <1>3, MergeCarriedKernel, MergeListKernel, CommitMergeKernel DEF Merge
<1>4. CASE Sync
  BY <1>4, SyncKernel
<1>5. CASE Serial
  BY <1>5, SerialInitKernel, SerialStepIntoScan, SerialSkipKernel, SerialTokenKernel,
     SerialCommitKernel, SerialFinalKernel DEF Serial
<1> QED  BY <1>1, <1>2, <1>3, <1>4, <1>5 DEF Next

LEMMA KernelInvariant == Spec => []KernelInv
BY InitKernel, NextKernel, PTL DEF Spec

\* Every index stays within its array, in every block and on every schedule: the
\* loops of a lane, the strides beyond the vocabulary, the merge's slots.
THEOREM CudaForwardTypeOK == Spec => []TypeOK
<1>1. KernelInv => TypeOK
  BY DEF KernelInv
<1> QED  BY <1>1, KernelInvariant, PTL

\* No lane touches shared memory another one is working on: the two barriers
\* of a step and the one after the initialisation are enough.
THEOREM CudaForwardBarriersSeparate == Spec => []BarriersSeparate
<1>1. KernelInv => BarriersSeparate
  <2> SUFFICES ASSUME KernelInv  PROVE BarriersSeparate
    OBVIOUS
  <2>1. PhaseInv /\ 0 \in Lane
    BY LaneFacts DEF KernelInv
  <2>2. pc[0] \in {"carry", "merge"} => \A l \in Lane : l # 0 => pc[l] = "wait2"
    BY <2>1, PhaseOf DEF Merging
  <2>3. \A l \in Lane : pc[l] = "init" => \A n \in Lane : pc[n] \in {"init", "wait0"}
    BY <2>1, PhaseOf DEF Starting
  <2> QED  BY <2>2, <2>3 DEF BarriersSeparate
<1> QED  BY <1>1, KernelInvariant, PTL

-----------------------------------------------------------------------------
(***************************************************************************)
(* The entries as the CPU decoder's candidates.                            *)
(***************************************************************************)
CandidateOf(e) ==
  [score |-> e.score, raw |-> e.score, parent |-> e.parent, token |-> e.token,
   length |-> e.length, fromLogprob |-> e.fromLogprob]

\* An overflowed sum ties with the placeholders, which come before it.
SelectedOf(e) == IF e.score = NegInf THEN Placeholder ELSE CandidateOf(e)

RowOf(list) == [i \in BeamId |-> SelectedOf(list[i])]

LEMMA SameOrder ==
  ASSUME NEW x \in Listed, NEW y \in Listed
  PROVE  Better(CandidateOf(x), CandidateOf(y)) <=> Precedes(x, y)
BY ListedFields DEF Better, CandidateOf, Precedes

\* Only a score above NegInf comes before a placeholder.
LEMMA AgainstPlaceholder ==
  ASSUME NEW e \in Listed
  PROVE  /\ e.score # NegInf => /\ Better(CandidateOf(e), Placeholder)
                                /\ ~Better(Placeholder, CandidateOf(e))
         /\ e.score = NegInf => ~Better(CandidateOf(e), Placeholder)
         /\ ~Better(Placeholder, Placeholder)
<1>1. /\ e.score \in Score /\ e.score \in Int /\ e.parent \in Nat /\ NegInf \in Int
      /\ e.score >= NegInf
  BY ListedFields, InfAssumption, DimensionsAssumption DEF Score
<1>2. /\ CandidateOf(e).score = e.score /\ CandidateOf(e).raw = e.score
      /\ CandidateOf(e).parent = e.parent
  BY DEF CandidateOf
<1>3. /\ Placeholder.score = NegInf /\ Placeholder.raw = NegInf
      /\ Placeholder.parent = -1 /\ Placeholder.token = -1
      /\ Placeholder.length = 0 /\ Placeholder.fromLogprob = 0
  BY DEF Placeholder
<1> QED  BY <1>1, <1>2, <1>3 DEF Better

\* The list of a kernel, read as candidates, is a row beam search may select.
LEMMA ListIsRow ==
  ASSUME NEW list \in Listing, NEW S, S \subseteq Real, ListHolds(list, S)
  PROVE  LET all == {CandidateOf(e) : e \in S}
         IN  /\ RowOf(list) \in [BeamId -> all \cup {Placeholder}]
             /\ HoldsBest(RowOf(list), K, all)
<1> DEFINE all == {CandidateOf(e) : e \in S}
           row == RowOf(list)
<1>1. BeamId = 0 .. K - 1 /\ K \in Nat /\ K - 1 \in BeamId
  BY DimensionsAssumption DEF BeamId
<1>2. \A i \in BeamId : /\ list[i] \in Listed /\ list[i].score \in Int
                        /\ list[i].score >= NegInf /\ NegInf \in Int
  BY ListedFields, InfAssumption DEF Listing, Score
<1>3. \A i \in BeamId : row[i] = SelectedOf(list[i])
  BY DEF RowOf
<1>4. \A i \in BeamId : row[i] \in all \cup {Placeholder}
  <2> TAKE i \in BeamId
  <2>1. list[i] \in S \/ list[i] = NoCandidate
    BY DEF ListHolds
  <2>2. NoCandidate.score = NegInf
    BY DEF NoCandidate
  <2> QED  BY <1>3, <2>1, <2>2 DEF SelectedOf
<1>5. Sorted(row, K)
  <2> SUFFICES ASSUME NEW i \in BeamId, NEW j \in BeamId, i < j
               PROVE  ~Better(row[j], row[i])
    BY <1>1 DEF Sorted
  <2>1. ~Precedes(list[j], list[i])
    BY ListOrder
  <2>2. list[j].score <= list[i].score
    BY <1>2, <2>1 DEF Precedes
  <2>3. CASE list[i].score = NegInf
    <3>1. row[i] = Placeholder /\ row[j] = Placeholder
      BY <1>2, <1>3, <2>2, <2>3 DEF SelectedOf
    <3> QED  BY <1>2, <3>1, AgainstPlaceholder
  <2>4. CASE list[i].score # NegInf /\ list[j].score = NegInf
    <3>1. row[i] = CandidateOf(list[i]) /\ row[j] = Placeholder
      BY <1>3, <2>4 DEF SelectedOf
    <3> QED  BY <1>2, <2>4, <3>1, AgainstPlaceholder
  <2>5. CASE list[i].score # NegInf /\ list[j].score # NegInf
    <3>1. row[i] = CandidateOf(list[i]) /\ row[j] = CandidateOf(list[j])
      BY <1>3, <2>5 DEF SelectedOf
    <3> QED  BY <1>2, <2>1, <3>1, SameOrder
  <2> QED  BY <2>3, <2>4, <2>5
<1>6. OnlyFrom(row, K, all)
  BY <1>1, <1>4 DEF OnlyFrom
<1>7. NoDuplicate(row, K)
  <2>1. ASSUME NEW i \in BeamId, NEW j \in BeamId, i < j, row[i] = row[j]
        PROVE  row[i] = Placeholder
    <3>1. CASE list[j] = NoCandidate
      BY <1>3, <2>1, <3>1 DEF SelectedOf, NoCandidate
    <3>2. CASE Precedes(list[i], list[j])
      <4> SUFFICES ASSUME row[i] # Placeholder  PROVE FALSE
        OBVIOUS
      <4>1. row[i] = CandidateOf(list[i]) /\ row[j] = CandidateOf(list[j])
        BY <1>3, <2>1 DEF SelectedOf
      <4>2. Better(row[i], row[j])
        BY <1>2, <3>2, <4>1, SameOrder
      <4>3. ~Better(row[j], row[i])
        BY <1>2, <3>2, <4>1, SameOrder, PrecedesAsymmetric
      <4> QED  BY <2>1, <4>2, <4>3
    <3> QED  BY <2>1, <3>1, <3>2 DEF ListHolds
  <2>2. \A i, j \in BeamId : i = j \/ i < j \/ j < i
    BY <1>1
  <2> QED  BY <1>1, <2>1, <2>2 DEF NoDuplicate
<1>8. NothingBetterLeftOut(row, K, all)
  <2> SUFFICES ASSUME NEW e \in S, Better(CandidateOf(e), row[K - 1])
               PROVE  \E i \in BeamId : row[i] = CandidateOf(e)
    BY <1>1 DEF NothingBetterLeftOut
  <2> DEFINE last == list[K - 1]
  <2>1. e \in Real /\ e \in Listed /\ last \in Listed
    BY <1>1, <1>2, NoCandidateLast
  <2>2. e.score \in Int /\ e.score >= NegInf /\ last.score \in Int
    BY <1>1, <1>2, <2>1, ListedFields, InfAssumption DEF Score
  <2>3. row[K - 1] = SelectedOf(last)
    BY <1>1, <1>3
  <2>4. CASE \E i \in BeamId : list[i] = e
    <3>1. e.score # NegInf
      <4>1. CASE last.score = NegInf
        BY <2>1, <2>3, <4>1, AgainstPlaceholder DEF SelectedOf
      <4>2. CASE last.score # NegInf
        <5>1. Precedes(e, last)
          BY <2>1, <2>3, <4>2, SameOrder DEF SelectedOf
        <5> QED  BY <1>1, <1>2, <2>2, <4>2, <5>1 DEF Precedes
      <4> QED  BY <4>1, <4>2
    <3> QED  BY <1>3, <2>4, <3>1 DEF SelectedOf
  <2>5. CASE Precedes(last, e)
    <3>1. last.score >= e.score
      BY <2>2, <2>5 DEF Precedes
    <3>2. CASE last.score = NegInf
      <4>1. e.score = NegInf
        BY <1>1, <1>2, <2>2, <3>1, <3>2
      <4> QED  BY <2>1, <2>3, <3>2, <4>1, AgainstPlaceholder DEF SelectedOf
    <3>3. CASE last.score # NegInf
      <4>1. Precedes(e, last)
        BY <2>1, <2>3, <3>3, SameOrder DEF SelectedOf
      <4> QED  BY <2>1, <2>5, <4>1, PrecedesAsymmetric
    <3> QED  BY <3>2, <3>3
  <2> QED  BY <2>4, <2>5 DEF ListHolds
<1>9. row \in [BeamId -> all \cup {Placeholder}]
  BY <1>3, <1>4 DEF RowOf
<1> QED  BY <1>5, <1>6, <1>7, <1>8, <1>9 DEF HoldsBest

-----------------------------------------------------------------------------
(***************************************************************************)
(* What the kernels offer is what the CPU decoder proposes.                *)
(***************************************************************************)
\* Without advanced constraints only min_length forbids a token.
LEMMA PlainConstraints ==
  ASSUME TypeOK, t < T
  PROVE  /\ cons.ngram = 0 /\ cons.repetition = 0 /\ cons.rejects = {}
         /\ cons.banned = {} /\ cons.forced[t] < 0
<1>1. cons \in ConstraintSpace /\ t \in 0 .. T - 1
  BY DimensionsAssumption DEF TypeOK
<1>2. cons \in Constraint
  BY <1>1, ConstraintAssumption
<1>3. cons.ngram \in Nat /\ cons.repetition \in Nat
  BY <1>2 DEF Constraint
<1>4. ~HasAdvanced(cons) /\ cons.banned = {} /\ cons.forced[t] = -1
  BY <1>1, PlainAssumption
<1> QED  BY <1>3, <1>4 DEF HasAdvanced

\* The state of a beam, as the decoder names it.
LEMMA BeamState ==
  ASSUME TypeOK, Prepared, NEW k \in BeamId
  PROVE  /\ Live(Beams[k]) <=> IsFinite(prev[k].score)
         /\ Finished(Beams[k]) <=> IsFinite(prev[k].score) /\ Ended(k)
         /\ IsFinite(prev[k].score) =>
              /\ Beams[k].raw = prev[k].score /\ Beams[k].len = prev[k].length
              /\ (Beams[k].ended <=> prev[k].ended) /\ Beams[k].seq = hyps[k]
<1>1. Beams[k] = IF prev[k].score = NegInf THEN DeadBeam
                 ELSE [raw |-> prev[k].score, len |-> prev[k].length,
                       ended |-> prev[k].ended, seq |-> hyps[k]]
  BY DEF Beams
<1>2. NegInf \in Int /\ ~IsFinite(NegInf)
  BY InfAssumption DEF IsFinite
<1>3. ASSUME prev[k].score # NegInf
      PROVE  /\ Beams[k].raw = prev[k].score /\ Beams[k].len = prev[k].length
             /\ (Beams[k].ended <=> prev[k].ended) /\ Beams[k].seq = hyps[k]
  <2>1. PICK x \in Score, n \in Nat, b \in BOOLEAN :
          x = prev[k].score /\ n = prev[k].length /\ b = prev[k].ended
    BY DEF TypeOK
  <2>2. Beams[k] = [raw |-> x, len |-> n, ended |-> b, seq |-> hyps[k]]
    BY <1>1, <1>3, <2>1, Zenon
  <2> QED  BY <2>1, <2>2
<1>4. Live(Beams[k]) <=> IsFinite(prev[k].score)
  <2>1. CASE prev[k].score = NegInf
    BY <1>1, <1>2, <2>1 DEF Live, DeadBeam
  <2>2. CASE prev[k].score # NegInf
    BY <1>3, <2>2 DEF Live
  <2> QED  BY <2>1, <2>2
<1>5. Finished(Beams[k]) <=> IsFinite(prev[k].score) /\ Ended(k)
  <2>1. CASE ~IsFinite(prev[k].score)
    BY <1>4, <2>1 DEF Finished
  <2>2. CASE IsFinite(prev[k].score)
    <3>1. Beams[k].ended <=> prev[k].ended
      BY <1>2, <1>3, <2>2
    <3> QED  BY <1>4, <2>2, <3>1, Zenon DEF Finished, Ended
  <2> QED  BY <2>1, <2>2
<1> QED  BY <1>2, <1>3, <1>4, <1>5

\* The candidates of one beam.
LEMMA OfferedByBeam ==
  ASSUME TypeOK, BeamInv, Prepared, t < T, NEW k \in BeamId
  PROVE  Proposals(cons, t, Beams, rows, k, V) =
           {CandidateOf(e) : e \in {x \in AllOffered : x.parent = k}}
<1> DEFINE mine == {x \in AllOffered : x.parent = k}
<1> SUFFICES Proposals(cons, t, Beams, rows, k, V) = {CandidateOf(e) : e \in mine}
  OBVIOUS
<1>1. /\ prev[k].length \in Nat /\ prev[k].length <= t /\ prev[k].score \in Score
      /\ prev[k].ended => prev[k].length > 0
  BY DEF TypeOK, BeamInv
<1>2. t \in Nat /\ T \in Nat /\ t < T
  BY DimensionsAssumption DEF TypeOK
<1>3. CASE ~IsFinite(prev[k].score)
  <2>1. Proposals(cons, t, Beams, rows, k, V) = {}
    BY <1>3, BeamState DEF Proposals
  <2>2. mine = {}
    BY <1>3 DEF AllOffered, IsExtension, IsCarried, Skipped
  <2> QED  BY <2>1, <2>2
<1>4. CASE IsFinite(prev[k].score) /\ Ended(k)
  <2>1. prev[k].length \in 1 .. T
    BY <1>1, <1>2, <1>4 DEF Ended
  <2>2. Beams[k].raw = prev[k].score /\ Beams[k].len = prev[k].length
    BY <1>4, BeamState
  <2>3. CarryRank(prev[k].score, prev[k].length) = prev[k].score
    BY <1>1, <2>1, PlainAssumption
  <2>4. Carry(Beams, k) = CandidateOf(Carried(k))
    <3>1. ~(prev[k].length < 1)
      BY <2>1
    <3>2. Carry(Beams, k) =
            [score |-> prev[k].score, raw |-> prev[k].score, parent |-> k,
             token |-> EOS, length |-> prev[k].length, fromLogprob |-> 0]
      BY <2>2, <2>3, <3>1 DEF Carry
    <3> QED  BY <3>2 DEF CandidateOf, Carried
  <2>5. Proposals(cons, t, Beams, rows, k, V) = {Carry(Beams, k)}
    BY <1>4, BeamState DEF Proposals
  <2>6. Carried(k) \in Real /\ Carried(k).parent = k
    BY <1>4, CarriedReal
  <2>7. mine = {Carried(k)}
    <3>1. Carried(k) \in mine
      BY <1>4, <2>6 DEF AllOffered, IsCarried
    <3>2. \A e \in mine : e = Carried(k)
      BY <1>4 DEF AllOffered, IsExtension, IsCarried, Skipped
    <3> HIDE DEF mine
    <3> QED  BY <3>1, <3>2
  <2> HIDE DEF mine
  <2> QED  BY <2>4, <2>5, <2>7
<1>5. CASE IsFinite(prev[k].score) /\ ~Ended(k)
  <2>1. PICK raw \in Score, len \in Nat :
          /\ raw = prev[k].score /\ len = prev[k].length
          /\ Beams[k].raw = raw /\ Beams[k].len = len /\ Beams[k].seq = hyps[k]
    BY <1>1, <1>5, BeamState
  <2>2. len + 1 \in 1 .. T
    BY <1>1, <1>2, <2>1
  <2>3. \A u \in Token : Proposes(cons, t, Beams, rows, k, u) <=> Offered(k, u)
    <3>1. /\ cons.ngram = 0 /\ cons.rejects = {}
          /\ cons.banned = {} /\ cons.forced[t] < 0
      BY PlainConstraints
    <3>2. \A s, u : ~RepeatsNgram(s, u, cons.ngram)
      BY <3>1 DEF RepeatsNgram
    <3> QED  BY <2>1, <3>1, <3>2, Zenon
             DEF Proposes, Allowed, Offered, TooShortToEnd
  <2>4. \A u \in Token : Expand(cons, Beams, rows, k, u) = CandidateOf(Extended(k, u))
    <3> TAKE u \in Token
    <3>1. PICK lp \in Score : lp = rows[k][u]
      BY LogProbAssumption DEF TypeOK
    <3>2. FloatAdd(lp, 0) = lp
      BY InfAssumption DEF FloatAdd, Score
    <3>3. Penalised(cons, Beams[k], u, lp) = lp
      <4>1. -cons.repetition = 0
        <5>1. PICK n \in Int : n = cons.repetition /\ n <= 0 /\ n >= 0
          BY PlainConstraints
        <5>2. -n \in Int /\ -n <= 0 /\ -n >= 0
          BY <5>1
        <5>3. PICK z \in Int : z = -n /\ z = 0
          BY <5>2
        <5> QED  BY <5>1, <5>3, Zenon
      <4>2. FloatAdd(lp, -cons.repetition) = lp
        BY <3>2, <4>1, Zenon
      <4> QED  BY <4>2 DEF Penalised
    <3>4. PICK sum \in Score : sum = FloatAdd(raw, lp)
      BY InfAssumption DEF FloatAdd, Score
    <3>5. Rank(sum, len + 1) = sum
      BY <2>2, PlainAssumption
    <3>6. Expand(cons, Beams, rows, k, u) =
            [score |-> sum, raw |-> sum, parent |-> k, token |-> u,
             length |-> len + 1, fromLogprob |-> 1]
      BY <2>1, <3>1, <3>3, <3>4, <3>5, Zenon DEF Expand
    <3>7. Extended(k, u).score = sum /\ Extended(k, u).length = len + 1
      BY <2>1, <3>1, <3>4 DEF Extended
    <3>8. /\ Extended(k, u).parent = k /\ Extended(k, u).token = u
          /\ Extended(k, u).fromLogprob = 1
      BY DEF Extended
    <3> QED  BY <3>6, <3>7, <3>8, Zenon DEF CandidateOf
  <2>5. Proposals(cons, t, Beams, rows, k, V) =
          {Expand(cons, Beams, rows, k, u) :
             u \in {w \in Token : Proposes(cons, t, Beams, rows, k, w)}}
    <3>1. ~Finished(Beams[k]) /\ Live(Beams[k])
      BY <1>5, BeamState
    <3> QED  BY <3>1, Zenon DEF Proposals, Token
  <2>6. mine = {Extended(k, u) : u \in {w \in Token : Offered(k, w)}}
    <3>1. ASSUME NEW e \in mine
          PROVE  \E u \in Token : Offered(k, u) /\ e = Extended(k, u)
      <4>1. IsExtension(e) /\ e.parent = k /\ e.token \in Token
        BY <1>5, RealIndices DEF AllOffered, IsCarried
      <4> QED  BY <4>1 DEF IsExtension
    <3>2. ASSUME NEW u \in Token, Offered(k, u)
          PROVE  Extended(k, u) \in mine
      <4>1. PICK e : e = Extended(k, u)
        OBVIOUS
      <4>2. e \in Real /\ e.parent = k /\ e.token = u
        BY <4>1, ExtendedReal
      <4>3. ~Skipped(k)
        BY <1>5 DEF Skipped
      <4>4. IsExtension(e)
        BY <3>2, <4>1, <4>2, <4>3 DEF IsExtension
      <4> QED  BY <4>1, <4>2, <4>4 DEF AllOffered
    <3> HIDE DEF mine
    <3> QED  BY <3>1, <3>2
  <2> HIDE DEF mine
  <2> DEFINE fits == {u \in Token : Offered(k, u)}
  <2>7. {w \in Token : Proposes(cons, t, Beams, rows, k, w)} = fits /\ fits \subseteq Token
    BY <2>3
  <2>8. Proposals(cons, t, Beams, rows, k, V) = {CandidateOf(Extended(k, u)) : u \in fits}
    <3> HIDE DEF fits
    <3> QED  BY <2>4, <2>5, <2>7
  <2>9. mine = {Extended(k, u) : u \in fits}
    BY <2>6
  <2> HIDE DEF fits
  <2> QED  BY <2>8, <2>9
<1> QED  BY <1>3, <1>4, <1>5

LEMMA OfferedIsContinuations ==
  ASSUME TypeOK, BeamInv, Prepared, t < T
  PROVE  Continuations(cons, t, Beams, rows) = {CandidateOf(e) : e \in AllOffered}
<1>1. \A k \in BeamId : Proposals(cons, t, Beams, rows, k, V) =
                          {CandidateOf(e) : e \in {x \in AllOffered : x.parent = k}}
  BY OfferedByBeam
<1>2. \A e \in AllOffered : e.parent \in BeamId
  BY RealIndices DEF AllOffered
<1>3. \A c : c \in Continuations(cons, t, Beams, rows) <=>
        \E k \in BeamId : c \in Proposals(cons, t, Beams, rows, k, V)
  BY Zenon DEF Continuations
<1> QED  BY <1>1, <1>2, <1>3

-----------------------------------------------------------------------------
(***************************************************************************)
(* The steps of beam search.                                               *)
(***************************************************************************)
\* A placeholder becomes a dead beam.
LEMMA DeadBeamKept == [DeadBeam EXCEPT !.raw = NegInf, !.len = 0] = DeadBeam
<1>1. PICK d \in [raw : {NegInf}, len : {0}, ended : {FALSE}, seq : {<< >>}] :
        d = DeadBeam
  BY DEF DeadBeam
<1>2. [d EXCEPT !.raw = NegInf, !.len = 0] = d
  OBVIOUS
<1> QED  BY <1>1, <1>2

\* Committing the list makes of the beams what selecting its row does.
LEMMA CommitAdvances ==
  ASSUME TypeOK, BeamInv, Prepared, Prepared', best \in Listing,
         ListHolds(best, AllOffered), Commit
  PROVE  Beams' = Advance(Beams, RowOf(best))
<1>1. \A k \in BeamId : Beams'[k] =
        IF prev'[k].score = NegInf THEN DeadBeam
        ELSE [raw |-> prev'[k].score, len |-> prev'[k].length,
              ended |-> prev'[k].ended, seq |-> hyps'[k]]
  BY DEF Beams, BeamId, DeadBeam
<1>2. ASSUME NEW k \in BeamId
      PROVE  Beams'[k] = NextBeam(Beams, RowOf(best)[k])
  <2>1. PICK e \in Listed : e = best[k]
    BY DEF Listing
  <2>2. PICK x \in Score, n \in Nat, b \in BOOLEAN :
          x = e.score /\ n = e.length /\ b = e.ended
    BY ListedFields
  <2>3. prev'[k] = [score |-> x, length |-> n, ended |-> b]
    BY <2>1, <2>2, Zenon DEF Commit
  <2>4. hyps'[k] = IF e.parent = K THEN << >>
                   ELSE IF e.fromLogprob = 1 /\ e.token # V
                   THEN Append(hyps[e.parent], e.token)
                   ELSE hyps[e.parent]
    BY <2>1 DEF Commit
  <2>5. RowOf(best)[k] = SelectedOf(e)
    BY <2>1 DEF RowOf
  <2>6. CASE x = NegInf
    <3>1. Beams'[k] = DeadBeam
      <4>1. prev'[k].score = NegInf
        BY <2>3, <2>6
      <4> QED  BY <1>1, <4>1, Zenon
    <3>2. NextBeam(Beams, Placeholder) = [DeadBeam EXCEPT !.raw = NegInf, !.len = 0]
      BY DEF NextBeam, Placeholder
    <3>3. RowOf(best)[k] = Placeholder
      BY <2>2, <2>5, <2>6 DEF SelectedOf
    <3> QED  BY <3>1, <3>2, <3>3, DeadBeamKept, Zenon
  <2>7. CASE x # NegInf
    <3>1. e \in AllOffered
      <4>1. e \in AllOffered \/ e = NoCandidate
        BY <2>1 DEF ListHolds
      <4>2. e # NoCandidate
        BY <2>2, <2>7 DEF NoCandidate
      <4> QED  BY <4>1, <4>2
    <3>2. /\ e \in Real /\ e.parent \in BeamId /\ e.parent \in Nat /\ e.parent < K
          /\ e.token \in Nat /\ e.token < V
      BY <3>1, RealIndices DEF AllOffered
    <3>3. PICK p \in BeamId : p = e.parent
      BY <3>2
    <3>4. IsFinite(prev[p].score)
      BY <3>1, <3>3 DEF AllOffered, IsExtension, IsCarried, Skipped
    <3>5. Beams[p].seq = hyps[p] /\ (Beams[p].ended <=> prev[p].ended)
      BY <3>4, BeamState
    <3>6. b <=> EOS >= 0 /\ e.token = EOS
      BY <2>2, <3>2 DEF Real
    <3>7. prev[p].ended => EOS >= 0 /\ e.token = EOS
      <4>1. CASE IsExtension(e)
        BY <3>3, <4>1 DEF IsExtension, Skipped, Ended, BeamInv
      <4>2. CASE IsCarried(e)
        BY <4>2 DEF IsCarried, Ended, Carried
      <4> QED  BY <3>1, <4>1, <4>2 DEF AllOffered
    <3>8. b = (Beams[p].ended \/ (EOS >= 0 /\ e.token = EOS))
      BY <3>5, <3>6, <3>7
    <3>9. hyps'[k] = IF e.fromLogprob = 1 /\ e.token >= 0
                     THEN Append(Beams[p].seq, e.token) ELSE Beams[p].seq
      <4>1. e.parent # K /\ e.token # V /\ e.token >= 0
        BY <3>2, DimensionsAssumption
      <4> QED  BY <2>4, <3>3, <3>5, <4>1
    <3>10. Beams'[k] = [raw |-> x, len |-> n, ended |-> b, seq |-> hyps'[k]]
      <4>1. prev'[k].score = x /\ prev'[k].length = n /\ prev'[k].ended = b
        BY <2>3
      <4> QED  BY <1>1, <2>7, <4>1, Zenon
    <3>11. NextBeam(Beams, CandidateOf(e)) =
             [raw |-> x, len |-> n,
              ended |-> Beams[p].ended \/ (EOS >= 0 /\ e.token = EOS),
              seq |-> IF e.fromLogprob = 1 /\ e.token >= 0
                      THEN Append(Beams[p].seq, e.token) ELSE Beams[p].seq]
      <4>1. PICK c : c = CandidateOf(e)
        OBVIOUS
      <4>2. /\ c.raw = x /\ c.length = n /\ c.parent = p /\ c.token = e.token
            /\ c.fromLogprob = e.fromLogprob
        BY <2>2, <3>3, <4>1 DEF CandidateOf
      <4>3. ~(c.parent < 0)
        BY <3>2, <3>3, <4>2
      <4> QED  BY <4>1, <4>2, <4>3, Zenon DEF NextBeam
    <3>12. RowOf(best)[k] = CandidateOf(e)
      BY <2>2, <2>5, <2>7 DEF SelectedOf
    <3> QED  BY <3>8, <3>9, <3>10, <3>11, <3>12, Zenon
  <2> QED  BY <2>6, <2>7
<1>3. Beams' = [k \in BeamId |-> Beams'[k]]
  BY DEF Beams, BeamId
<1> QED  BY <1>2, <1>3, Zenon DEF Advance

\* Who has prepared the beams, phase by phase, and whether a row is supplied.
Fed == pc[0] \in {"scan", "wait1", "carry", "merge", "serial"}

LEMMA PreparedInPhase ==
  PhaseInv => /\ Starting \/ pc[0] = "start" => ~Prepared /\ ~Fed
              /\ Scanning \/ Merging \/ pc[0] = "serial" => Prepared /\ Fed
              /\ Committed \/ Ending \/ pc[0] \in {"step", "done"} => Prepared /\ ~Fed
<1> SUFFICES ASSUME PhaseInv
             PROVE  /\ Starting \/ pc[0] = "start" => ~Prepared /\ ~Fed
                    /\ Scanning \/ Merging \/ pc[0] = "serial" => Prepared /\ Fed
                    /\ Committed \/ Ending \/ pc[0] \in {"step", "done"} => Prepared /\ ~Fed
  OBVIOUS
<1>1. 0 \in Lane
  BY LaneFacts
<1>2. Starting \/ pc[0] = "start" => ~Prepared /\ ~Fed
  BY <1>1 DEF Starting, Prepared, Fed
<1>3. pc[0] \in {"step", "serial", "done"} => Prepared
  BY <1>1 DEF PhaseInv, Prepared, Starting, Scanning, Merging, Committed, Ending, Alone
<1>4. Scanning \/ Merging \/ Committed \/ Ending => Prepared
  BY <1>1 DEF Prepared, Scanning, Merging, Committed, Ending
<1>5. Scanning \/ Merging \/ pc[0] = "serial" => Fed
  BY <1>1 DEF Fed, Scanning, Merging
<1>6. Committed \/ Ending \/ pc[0] \in {"step", "done"} => ~Fed
  BY <1>1 DEF Fed, Committed, Ending
<1> QED  BY <1>2, <1>3, <1>4, <1>5, <1>6

LEMMA SameBeams ==
  UNCHANGED <<prev, hyps>> /\ (Prepared' <=> Prepared) => Beams' = Beams
BY DEF Beams, BeamId, InitialBeams, DeadBeam

LEMMA UnpreparedBeams == /\ ~Prepared => Beams = InitialBeams
                         /\ ~Prepared' => Beams' = InitialBeams
BY DEF Beams, BeamId, InitialBeams, DeadBeam

\* When every beam has been initialised the initial hypotheses are there.
LEMMA FirstBeamsReady ==
  ASSUME Prepared', \A k \in BeamId : prev'[k] = FirstBeam(k),
         hyps' = [k \in BeamId |-> << >>]
  PROVE  Beams' = InitialBeams
<1>1. \A k \in BeamId : Beams'[k] =
        IF prev'[k].score = NegInf THEN DeadBeam
        ELSE [raw |-> prev'[k].score, len |-> prev'[k].length,
              ended |-> prev'[k].ended, seq |-> hyps'[k]]
  BY DEF Beams, BeamId, DeadBeam
<1>2. \A k \in BeamId : Beams'[k] = InitialBeams[k]
  <2> TAKE k \in BeamId
  <2>1. NegInf # 0 /\ hyps'[k] = << >>
    BY InfAssumption
  <2>2. CASE k = 0
    <3>1. prev'[k] = [score |-> 0, length |-> 0, ended |-> FALSE]
      BY <2>2 DEF FirstBeam
    <3>2. Beams'[k] = [raw |-> 0, len |-> 0, ended |-> FALSE, seq |-> << >>]
      <4>1. prev'[k].score = 0 /\ prev'[k].length = 0 /\ prev'[k].ended = FALSE
        BY <3>1
      <4> QED  BY <1>1, <2>1, <4>1, Zenon
    <3> QED  BY <2>2, <3>2 DEF InitialBeams, DeadBeam
  <2>3. CASE k # 0
    <3>1. prev'[k] = [score |-> NegInf, length |-> 0, ended |-> FALSE]
      BY <2>3 DEF FirstBeam
    <3>2. prev'[k].score = NegInf
      BY <3>1
    <3>3. Beams'[k] = DeadBeam
      BY <1>1, <3>2, Zenon
    <3> QED  BY <2>3, <3>3 DEF InitialBeams
  <2> QED  BY <2>2, <2>3
<1> QED  BY <1>2 DEF Beams, InitialBeams

-----------------------------------------------------------------------------
\* The abstract module's vocabulary is this module's own.
LEMMA SameVocabulary ==
  /\ \A c, n, bs, rs : Abstract!Continuations(c, n, bs, rs) = Continuations(c, n, bs, rs)
  /\ \A row, n, S : Abstract!HoldsBest(row, n, S) = HoldsBest(row, n, S)
  /\ \A bs, row : Abstract!Advance(bs, row) = Advance(bs, row)
  /\ \A bs : Abstract!Rows(bs) = Rows(bs)
  /\ Abstract!InitialBeams = InitialBeams
  /\ Abstract!BeamId = BeamId /\ Abstract!Token = Token
  /\ Abstract!Placeholder = Placeholder
<1>1. Abstract!BeamId = BeamId /\ Abstract!Token = Token
      /\ Abstract!Placeholder = Placeholder /\ Abstract!DeadBeam = DeadBeam
  BY DEF BeamId, Abstract!BeamId, Token, Abstract!Token, Placeholder,
         Abstract!Placeholder, DeadBeam, Abstract!DeadBeam
<1>2. \A row, n, S : Abstract!HoldsBest(row, n, S) = HoldsBest(row, n, S)
  BY DEF HoldsBest, Abstract!HoldsBest, Sorted, Abstract!Sorted, Better,
         Abstract!Better, OnlyFrom, Abstract!OnlyFrom, NoDuplicate,
         Abstract!NoDuplicate, NothingBetterLeftOut, Abstract!NothingBetterLeftOut,
         Placeholder, Abstract!Placeholder
<1>3. \A bs, row : Abstract!Advance(bs, row) = Advance(bs, row)
  BY DEF Advance, Abstract!Advance, NextBeam, Abstract!NextBeam, BeamId,
         Abstract!BeamId, DeadBeam, Abstract!DeadBeam
<1>4. \A bs : Abstract!Rows(bs) = Rows(bs)
  BY DEF Rows, Abstract!Rows, Open, Abstract!Open, Live, Abstract!Live, Finished,
         Abstract!Finished, IsFinite, Abstract!IsFinite, BeamId, Abstract!BeamId,
         Token, Abstract!Token
<1>5. Abstract!InitialBeams = InitialBeams
  BY DEF InitialBeams, Abstract!InitialBeams, BeamId, Abstract!BeamId, DeadBeam,
         Abstract!DeadBeam
<1>6. \A c, n, bs, rs, k, u :
         Abstract!Proposals(c, n, bs, rs, k, u) = Proposals(c, n, bs, rs, k, u)
  BY DEF Proposals, Abstract!Proposals, Proposes, Abstract!Proposes, Live,
         Abstract!Live, Finished, Abstract!Finished, IsFinite, Abstract!IsFinite,
         Carry, Abstract!Carry, Allowed, Abstract!Allowed, TooShortToEnd,
         Abstract!TooShortToEnd, EffectiveMinLength, Abstract!EffectiveMinLength,
         RepeatsNgram, Abstract!RepeatsNgram, ContainsToken, Abstract!ContainsToken,
         Expand, Abstract!Expand, FloatAdd, Abstract!FloatAdd, Penalised,
         Abstract!Penalised
<1>7. \A c, n, bs, rs : Abstract!Continuations(c, n, bs, rs) = Continuations(c, n, bs, rs)
  BY <1>1, <1>6 DEF Continuations, Abstract!Continuations
<1> QED  BY <1>1, <1>2, <1>3, <1>4, <1>5, <1>7, Zenon

\* A step in which beam search does not move.
LEMMA HiddenStep ==
  ASSUME UNCHANGED <<cons, t, rows>>, Beams' = Beams, Fed' <=> Fed
  PROVE  UNCHANGED Abstract!vars
<1>1. (pc[0] \in {"scan", "wait1", "carry", "merge", "serial"})' <=>
        pc[0] \in {"scan", "wait1", "carry", "merge", "serial"}
  BY DEF Fed
<1>2. (pc'[0] \in {"scan", "wait1", "carry", "merge", "serial"}) =
        (pc[0] \in {"scan", "wait1", "carry", "merge", "serial"})
  BY <1>1
<1> QED  BY <1>2, Zenon DEF Abstract!vars

\* A step that supplies a row.
LEMMA FeedingStep ==
  ASSUME t < T, ~Fed, Fed', rows' \in Rows(Beams), Beams' = Beams,
         UNCHANGED <<cons, t>>
  PROVE  Abstract!Feed
<1>1. (pc'[0] \in {"scan", "wait1", "carry", "merge", "serial"}) = TRUE
  BY DEF Fed
<1>2. ~(pc[0] \in {"scan", "wait1", "carry", "merge", "serial"})
  BY DEF Fed
<1> QED  BY <1>1, <1>2, SameVocabulary, Zenon DEF Abstract!Feed

\* A step that selects.
LEMMA SelectingStep ==
  ASSUME KernelInv, t < T, Fed, ~Fed', Prepared, Prepared', Commit,
         ListHolds(best, AllOffered), UNCHANGED <<cons, rows>>
  PROVE  Abstract!Select
<1> DEFINE all == Continuations(cons, t, Beams, rows)
           row == RowOf(best)
<1>1. TypeOK /\ BeamInv /\ best \in Listing /\ AllOffered \subseteq Real
  BY OffersReal DEF KernelInv, ListInv
<1>2. all = {CandidateOf(e) : e \in AllOffered}
  BY <1>1, OfferedIsContinuations
<1>3. row \in [BeamId -> all \cup {Placeholder}] /\ HoldsBest(row, K, all)
  BY <1>1, <1>2, ListIsRow
<1>4. Beams' = Advance(Beams, row)
  BY <1>1, CommitAdvances
<1> HIDE DEF all, row
<1>5. \E r \in [BeamId -> all \cup {Placeholder}] :
        HoldsBest(r, K, all) /\ Beams' = Advance(Beams, r)
  BY <1>3, <1>4
<1>6. /\ pc[0] \in {"scan", "wait1", "carry", "merge", "serial"}
      /\ (pc'[0] \in {"scan", "wait1", "carry", "merge", "serial"}) = FALSE
  BY DEF Fed
<1>7. t' = t + 1 /\ UNCHANGED <<cons, rows>>
  BY DEF Commit
<1> QED  BY <1>5, <1>6, <1>7, SameVocabulary, Zenon DEF Abstract!Select, all

LEMMA LaneStepHidden ==
  ASSUME KernelInv, KernelInv', NEW l \in Lane, LaneStep(l)
  PROVE  UNCHANGED Abstract!vars
<1>1. PhaseInv /\ PhaseInv' /\ pc \in [Lane -> Places]
  BY DEF KernelInv, PhaseInv
<1>2. CASE InitBeam(l)
  <2>1. Starting /\ pc' = [pc EXCEPT ![l] = "wait0"] /\ UNCHANGED <<cons, t, rows>>
    BY <1>1, <1>2, PhaseOf DEF InitBeam, Go
  <2>2. Starting'
    BY <1>1, <2>1 DEF Starting
  <2>3. ~Prepared /\ ~Fed /\ ~Prepared' /\ ~Fed'
    BY <1>1, <2>1, <2>2, PreparedInPhase
       DEF PhaseInv, Starting, Prepared, Fed
  <2> QED  BY <2>1, <2>3, UnpreparedBeams, HiddenStep
<1>3. CASE SkipBeam(l) \/ ScanToken(l)
  <2>1. UNCHANGED <<cons, t, rows, pc, prev, hyps>>
    BY <1>3 DEF SkipBeam, ScanToken
  <2>2. (Prepared' <=> Prepared) /\ (Fed' <=> Fed)
    BY <2>1 DEF Prepared, Fed
  <2> QED  BY <2>1, <2>2, SameBeams, HiddenStep
<1>4. CASE HandIn(l)
  <2>1. /\ Scanning /\ pc' = [pc EXCEPT ![l] = "wait1"]
        /\ UNCHANGED <<cons, t, rows, prev, hyps>>
    BY <1>1, <1>4, PhaseOf DEF HandIn, Go
  <2>2. Scanning'
    BY <1>1, <2>1 DEF Scanning
  <2>3. Prepared /\ Fed /\ Prepared' /\ Fed'
    BY <2>1, <2>2, LaneFacts DEF Scanning, Prepared, Fed
  <2> QED  BY <2>1, <2>3, SameBeams, HiddenStep
<1>5. CASE FinalScore(l)
  <2>1. /\ Ending /\ pc' = [pc EXCEPT ![l] = "done"]
        /\ UNCHANGED <<cons, t, rows, prev, hyps>>
    BY <1>1, <1>5, PhaseOf DEF FinalScore, Go
  <2>2. Ending'
    BY <1>1, <2>1 DEF Ending
  <2>3. Prepared /\ ~Fed /\ Prepared' /\ ~Fed'
    BY <2>1, <2>2, LaneFacts DEF Ending, Prepared, Fed
  <2> QED  BY <2>1, <2>3, SameBeams, HiddenStep
<1> QED  BY <1>2, <1>3, <1>4, <1>5 DEF LaneStep

LEMMA MergeImplements ==
  ASSUME KernelInv, Merge
  PROVE  Abstract!Select \/ UNCHANGED Abstract!vars
<1>1. /\ PhaseInv /\ pc \in [Lane -> Places] /\ 0 \in Lane /\ TypeOK /\ ListInv
      /\ pc[0] \in {"carry", "merge"}
  BY LaneFacts DEF KernelInv, PhaseInv, Merge, MergeCarried, MergeList, CommitMerge
<1>2. Merging /\ Prepared /\ Fed /\ t < T
  BY <1>1, PhaseOf, PreparedInPhase DEF PhaseInv
<1>3. CASE MergeCarried \/ MergeList
  <2>1. /\ UNCHANGED <<cons, t, rows, prev, hyps>>
        /\ pc' = pc \/ pc' = [pc EXCEPT ![0] = "merge"]
    BY <1>3 DEF MergeCarried, MergeList
  <2>2. pc'[0] \in {"carry", "merge"} /\ \A l \in Lane \ {0} : pc'[l] = pc[l]
    BY <1>1, <2>1
  <2>3. Prepared' /\ Fed'
    BY <1>2, <2>2 DEF Merging, Prepared, Fed
  <2> QED  BY <1>2, <2>1, <2>3, SameBeams, HiddenStep
<1>4. CASE CommitMerge
  <2>1. /\ pc[0] = "merge" /\ m = Lanes * K /\ Commit /\ UNCHANGED <<cons, rows>>
        /\ pc' = [pc EXCEPT ![0] = "wait2"]
    BY <1>4 DEF CommitMerge, Go
  <2>2. ListHolds(best, AllOffered)
    BY <1>1, <1>2, <2>1, MergedHolds
  <2>3. \A l \in Lane : pc'[l] = "wait2"
    BY <1>1, <1>2, <2>1 DEF Merging
  <2>4. Prepared' /\ ~Fed'
    BY <1>1, <2>3 DEF Prepared, Fed
  <2> QED  BY <1>2, <2>1, <2>2, <2>4, SelectingStep
<1> QED  BY <1>3, <1>4 DEF Merge

LEMMA SyncImplements ==
  ASSUME KernelInv, Sync
  PROVE  Abstract!Feed \/ UNCHANGED Abstract!vars
<1>1. PhaseInv /\ BeamInv /\ 0 \in Lane /\ BeamId \subseteq Lane
  BY LaneFacts DEF KernelInv
<1>2. CASE /\ Starting \/ Committed
           /\ t < T /\ rows' \in Rows(Beams)
           /\ pc' = [l \in Lane |-> "scan"]
           /\ UNCHANGED <<cons, t, prev, hyps>>
           /\ Starting => \A l \in Lane : pc[l] = "wait0"
  <2>1. Prepared' /\ Fed'
    BY <1>1, <1>2 DEF Prepared, Fed
  <2>2. ~Fed
    BY <1>1, <1>2, PreparedInPhase
  <2>3. Beams' = Beams
    <3>1. CASE Committed
      <4>1. Prepared
        BY <1>1, <3>1, PreparedInPhase
      <4> QED  BY <1>2, <2>1, <4>1, SameBeams
    <3>2. CASE Starting
      <4>1. Beams = InitialBeams
        BY <1>1, <3>2, PreparedInPhase, UnpreparedBeams
      <4>2. \A k \in BeamId : prev'[k] = FirstBeam(k)
        BY <1>1, <1>2, <3>2 DEF BeamInv
      <4>3. hyps' = [k \in BeamId |-> << >>]
        BY <1>1, <1>2, <3>2 DEF PhaseInv
      <4> QED  BY <2>1, <4>1, <4>2, <4>3, FirstBeamsReady
    <3> QED  BY <1>2, <3>1, <3>2
  <2> QED  BY <1>2, <2>1, <2>2, <2>3, FeedingStep
<1>3. CASE /\ Committed
           /\ pc' = [l \in Lane |-> "final"]
           /\ UNCHANGED <<cons, t, rows, prev, hyps>>
  <2>1. Prepared /\ ~Fed
    BY <1>1, <1>3, PreparedInPhase
  <2>2. Prepared' /\ ~Fed'
    BY <1>1, <1>3 DEF Prepared, Fed
  <2> QED  BY <1>3, <2>1, <2>2, SameBeams, HiddenStep
<1>4. CASE /\ Scanning
           /\ pc' = [l \in Lane |-> IF l = 0 THEN "carry" ELSE "wait2"]
           /\ UNCHANGED <<cons, t, rows, prev, hyps>>
  <2>1. Prepared /\ Fed
    BY <1>1, <1>4, PreparedInPhase
  <2>2. Prepared' /\ Fed'
    BY <1>1, <1>4 DEF Prepared, Fed
  <2> QED  BY <1>4, <2>1, <2>2, SameBeams, HiddenStep
<1> QED  BY <1>2, <1>3, <1>4, SyncCases

LEMMA SerialImplements ==
  ASSUME KernelInv, Serial
  PROVE  Abstract!Next \/ UNCHANGED Abstract!vars
<1>1. /\ PhaseInv /\ pc \in [Lane -> Places] /\ 0 \in Lane
      /\ pc[0] \in {"start", "step", "serial"} /\ Alone
  BY SerialFacts, LaneFacts
     DEF KernelInv, PhaseInv, Serial, SerialInit, SerialStep, SerialSkip, SerialToken,
         SerialCommit, SerialFinal
\* Once the thread has left "start" the beams are prepared.
<1>2. ASSUME NEW place \in {"step", "serial", "done"}, pc' = [pc EXCEPT ![0] = place]
      PROVE  Prepared' /\ (Fed' <=> place = "serial")
  BY <1>1, <1>2 DEF Alone, Prepared, Fed
<1>3. CASE SerialInit
  <2>1. /\ pc[0] = "start" /\ prev' = [k \in BeamId |-> FirstBeam(k)]
        /\ pc' = [pc EXCEPT ![0] = "step"] /\ UNCHANGED <<cons, t, rows, hyps>>
    BY <1>3 DEF SerialInit, Go
  <2>2. ~Prepared /\ ~Fed /\ Beams = InitialBeams /\ hyps = [k \in BeamId |-> << >>]
    BY <1>1, <2>1, PreparedInPhase, UnpreparedBeams DEF PhaseInv
  <2>3. Prepared' /\ ~Fed'
    BY <1>2, <2>1
  <2>4. Beams' = InitialBeams
    BY <2>1, <2>2, <2>3, FirstBeamsReady
  <2> QED  BY <2>1, <2>2, <2>3, <2>4, HiddenStep
<1>4. CASE SerialStep
  <2>1. /\ pc[0] = "step" /\ t < T /\ rows' \in Rows(Beams)
        /\ pc' = [pc EXCEPT ![0] = "serial"] /\ UNCHANGED <<cons, t, prev, hyps>>
    BY <1>4 DEF SerialStep, Go
  <2>2. Prepared /\ ~Fed /\ Prepared' /\ Fed'
    BY <1>1, <1>2, <2>1, PreparedInPhase
  <2>3. Beams' = Beams
    BY <2>1, <2>2, SameBeams
  <2> QED  BY <2>1, <2>2, <2>3, FeedingStep DEF Abstract!Next
<1>5. CASE SerialSkip \/ SerialToken
  <2>1. UNCHANGED <<cons, t, rows, pc, prev, hyps>>
    BY <1>5 DEF SerialSkip, SerialToken, SerialNextBeam
  <2>2. (Prepared' <=> Prepared) /\ (Fed' <=> Fed)
    BY <2>1 DEF Prepared, Fed
  <2> QED  BY <2>1, <2>2, SameBeams, HiddenStep
<1>6. CASE SerialCommit
  <2>1. /\ pc[0] = "serial" /\ at[0] = K /\ Commit /\ UNCHANGED <<cons, rows>>
        /\ pc' = [pc EXCEPT ![0] = "step"]
    BY <1>6 DEF SerialCommit, Go
  <2>2. ListHolds(best, AllOffered) /\ t < T
    BY <2>1, SerialFacts, SerialHolds
  <2>3. Prepared /\ Fed /\ Prepared' /\ ~Fed'
    BY <1>1, <1>2, <2>1, PreparedInPhase
  <2> QED  BY <2>1, <2>2, <2>3, SelectingStep DEF Abstract!Next
<1>7. CASE SerialFinal
  <2>1. /\ pc[0] = "step" /\ pc' = [pc EXCEPT ![0] = "done"]
        /\ UNCHANGED <<cons, t, rows, prev, hyps>>
    BY <1>7 DEF SerialFinal, Go
  <2>2. Prepared /\ ~Fed /\ Prepared' /\ ~Fed'
    BY <1>1, <1>2, <2>1, PreparedInPhase
  <2> QED  BY <2>1, <2>2, SameBeams, HiddenStep
<1> QED  BY <1>3, <1>4, <1>5, <1>6, <1>7 DEF Serial

\* Both kernels are beam search, with the order, the placeholders and the
\* hypotheses of the CPU decoder: for every beam size, vocabulary and number of
\* lanes, however the lanes interleave.
THEOREM CudaForwardImplementsBeamSearch == Spec => ImplementsBeamSearch
<1>1. Init => Abstract!Init
  <2> SUFFICES ASSUME Init  PROVE Abstract!Init
    OBVIOUS
  <2>1. 0 \in Lane /\ (pc[0] = "init" \/ pc[0] = "start")
    BY LaneFacts DEF Init
  <2>2. Beams = InitialBeams
    BY <2>1, UnpreparedBeams DEF Prepared
  <2>3. (pc[0] \in {"scan", "wait1", "carry", "merge", "serial"}) = FALSE
    BY <2>1
  <2>4. /\ cons \in ConstraintSpace /\ t = 0
        /\ rows = [k \in BeamId |-> [u \in Token |-> NegInf]]
    BY DEF Init
  <2> QED  BY <2>2, <2>3, <2>4, SameVocabulary, Zenon DEF Abstract!Init
<1>2. ASSUME KernelInv, KernelInv', [Next]_vars
      PROVE  [Abstract!Next]_(Abstract!vars)
  <2>1. CASE UNCHANGED vars
    <3>1. UNCHANGED <<cons, t, rows, pc, prev, hyps>>
      BY <2>1 DEF vars
    <3>2. (Prepared' <=> Prepared) /\ (Fed' <=> Fed)
      BY <3>1 DEF Prepared, Fed
    <3> QED  BY <3>1, <3>2, SameBeams, HiddenStep
  <2>2. CASE \E l \in Lane : LaneStep(l)
    BY <1>2, <2>2, LaneStepHidden
  <2>3. CASE Merge
    BY <1>2, <2>3, MergeImplements DEF Abstract!Next
  <2>4. CASE Sync
    BY <1>2, <2>4, SyncImplements DEF Abstract!Next
  <2>5. CASE Serial
    BY <1>2, <2>5, SerialImplements
  <2> QED  BY <1>2, <2>1, <2>2, <2>3, <2>4, <2>5 DEF Next
<1> QED  BY <1>1, <1>2, KernelInvariant, PTL DEF Spec, ImplementsBeamSearch, Abstract!Spec
=============================================================================
