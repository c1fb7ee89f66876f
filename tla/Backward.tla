------------------------------- MODULE Backward -------------------------------
(***************************************************************************)
(* The backward passes over a finished decode: backward, which fills the   *)
(* dense [T, K, V] gradient, and backward_sparse, which collects entries,  *)
(* sorts them and merges equal indices.                                    *)
(*                                                                         *)
(* Gradients are integers.  What softmax, sigmoid, temperatures and length *)
(* penalties make of a caller's gradient is local to a slot, so a slot's   *)
(* local gradient is an arbitrary number; modelled is where it goes.       *)
(***************************************************************************)
EXTENDS BeamCore, FiniteSets, FiniteSetsExt

CONSTANTS
  Upstream,   (* the local gradients of the slots (null: zeros, which the  *)
              (* code skips like a null pointer)                           *)
  Options     (* beam_size and max_dense_gradient_elements of the decoder  *)
              (* that is asked for the gradient                            *)

Step  == 0 .. T - 1
Index == 0 .. T * K * V - 1

ASSUME UpstreamAssumption ==
  Upstream \subseteq
    [selected : [Step -> [BeamId -> Int]], relaxed : [Step -> [Slot -> Int]],
     final : [BeamId -> Int]]
ASSUME OptionsBackwardAssumption ==
  Options \subseteq [beamSize : Nat \ {0}, maxDense : Int]

VARIABLES
  cons, beams,  (* of the decode                                           *)
  pools,        (* its result: the pool of each step; the first K slots    *)
                (* are the selected row                                    *)
  up,           (* the upstream gradients of the call                      *)
  form,         (* backward or backward_sparse                             *)
  pc,
  t, at,        (* the step and the slot being scattered                   *)
  next, prev,   (* gradients of the raw scores after and before step t     *)
  dense,        (* grad_log_probs                                          *)
  entries,      (* the sparse entries, unsorted until the end              *)
  i, cur, sum,  (* the loop that merges them                               *)
  out           (* sparse_logprob_indices with sparse_logprob_values       *)

decodeVars == <<cons, beams, pools>>
mergeVars == <<i, cur, sum, out>>
vars ==
  <<decodeVars, up, form, pc, t, at, next, prev, dense, entries, mergeVars>>

NoGradient == [k \in BeamId |-> 0]

Init ==
  /\ cons \in ConstraintSpace
  /\ beams = InitialBeams
  /\ pools = << >>
  /\ up \in Upstream
  /\ form \in {"dense", "sparse"}
  /\ pc = "decode" /\ t = 0 /\ at = 0
  /\ next = NoGradient /\ prev = NoGradient
  /\ dense = [n \in Index |-> 0]
  /\ entries = << >>
  /\ i = 1 /\ cur = 0 /\ sum = 0 /\ out = << >>

-----------------------------------------------------------------------------
(***************************************************************************)
(* The decode: one step of beam search, its pool kept.                     *)
(***************************************************************************)
Decode ==
  /\ pc = "decode" /\ t < T
  /\ \E rows \in Rows(beams) :
       LET all == Continuations(cons, t, beams, rows)
       IN  \E top \in [Slot -> all \cup {Placeholder}] :
             /\ HoldsBest(top, P, all)
             /\ pools' = Append(pools, top) /\ beams' = Advance(beams, top)
  /\ t' = t + 1
  /\ UNCHANGED <<cons, up, form, pc, at, next, prev, dense, entries, mergeVars>>

\* A result of another beam size, or one too large for a dense gradient.
Refused(opt) ==
  \/ opt.beamSize # K
  \/ form = "dense" /\ opt.maxDense >= 0 /\ T * K * V > opt.maxDense

Call ==
  /\ pc = "decode" /\ t = T
  /\ \E opt \in Options :
       IF Refused(opt) THEN pc' = "refused" /\ t' = t
       ELSE pc' = "selected" /\ t' = T - 1
  /\ UNCHANGED <<decodeVars, up, form, at, next, prev, dense, entries, mergeVars>>

-----------------------------------------------------------------------------
(***************************************************************************)
(* One step back: every slot sends its gradient to its parent's raw score  *)
(* and to the log-probability that extended it.                            *)
(***************************************************************************)

\* Faulty variant of FlatIndex: the rows of a step are taken to be P.
FlatIndexOfPool(k, token) == (t * P + k) * V + token

FlatIndex(k, token) == (t * K + k) * V + token

\* Faulty variant of Scatter: a carried beam keeps its gradient.
ScatterExpansions(c, draw) ==
  IF c.parent < 0 \/ draw = 0 \/ c.fromLogprob = 0
  THEN UNCHANGED <<prev, dense, entries>>
  ELSE /\ prev' = [prev EXCEPT ![c.parent] = @ + draw]
       /\ dense' = [dense EXCEPT ![FlatIndex(c.parent, c.token)] = @ + draw]
       /\ entries' = Append(entries,
                       [index |-> FlatIndex(c.parent, c.token), value |-> draw])

\* scatter_raw_candidate_grad, scatter_raw_candidate_grad_sparse
Scatter(c, draw) ==
  IF c.parent < 0 \/ draw = 0
  THEN UNCHANGED <<prev, dense, entries>>
  ELSE /\ prev' = [prev EXCEPT ![c.parent] = @ + draw]
       /\ IF c.fromLogprob = 0 \/ c.token < 0
          THEN UNCHANGED <<dense, entries>>
          ELSE IF form = "dense"
          THEN /\ dense' = [dense EXCEPT ![FlatIndex(c.parent, c.token)] = @ + draw]
               /\ UNCHANGED entries
          ELSE /\ entries' = Append(entries,
                    [index |-> FlatIndex(c.parent, c.token), value |-> draw])
               /\ UNCHANGED dense

\* The selected softmax, and at the last step the final scores.
SelectedGradient(s, k) ==
  up.selected[s][k] + IF s = T - 1 THEN up.final[k] ELSE 0

\* The soft top-k.  With no more live slots than beams every weight is 0 or 1,
\* and no gradient passes.
RelaxedGradient(s, p) ==
  IF Cardinality({n \in Slot : pools[s + 1][n].score > NegInf}) <= K THEN 0
  ELSE up.relaxed[s][p]

ScatterSelected ==
  /\ pc = "selected"
  /\ Scatter(pools[t + 1][at], next[at] + SelectedGradient(t, at))
  /\ IF at + 1 < K THEN at' = at + 1 /\ pc' = pc ELSE at' = 0 /\ pc' = "relaxed"
  /\ UNCHANGED <<decodeVars, up, form, t, next, mergeVars>>

ScatterRelaxed ==
  /\ pc = "relaxed"
  /\ Scatter(pools[t + 1][at], RelaxedGradient(t, at))
  /\ IF at + 1 < P THEN at' = at + 1 /\ pc' = pc ELSE at' = 0 /\ pc' = "swap"
  /\ UNCHANGED <<decodeVars, up, form, t, next, mergeVars>>

\* Where the pass goes from step 0.
AfterSteps ==
  IF form = "dense" \/ entries = << >> THEN "done" ELSE "sort"

\* Faulty variant of StepBack: the gradients of two steps ago are not cleared.
StepBackUncleared ==
  /\ pc = "swap"
  /\ next' = prev /\ prev' = next
  /\ IF t > 0 THEN t' = t - 1 /\ pc' = "selected" ELSE t' = t /\ pc' = AfterSteps
  /\ UNCHANGED <<decodeVars, up, form, at, dense, entries, mergeVars>>

\* The swap, and the fill that begins the next step.
StepBack ==
  /\ pc = "swap"
  /\ next' = prev /\ prev' = NoGradient
  /\ IF t > 0 THEN t' = t - 1 /\ pc' = "selected" ELSE t' = t /\ pc' = AfterSteps
  /\ UNCHANGED <<decodeVars, up, form, at, dense, entries, mergeVars>>

-----------------------------------------------------------------------------
(***************************************************************************)
(* finalize_sparse_entries                                                 *)
(***************************************************************************)

\* The number of entries up to entry j in the order of their indices.
PlaceOf(list, j) ==
  Cardinality({m \in 1 .. Len(list) :
    \/ list[m].index < list[j].index
    \/ list[m].index = list[j].index /\ m <= j})

\* std::sort by index; equal indices are added up, so their order is idle.
Sorting(list) ==
  [n \in 1 .. Len(list) |-> list[CHOOSE j \in 1 .. Len(list) : PlaceOf(list, j) = n]]

Sort ==
  /\ pc = "sort"
  /\ entries' = Sorting(entries)
  /\ cur' = Sorting(entries)[1].index /\ sum' = 0 /\ i' = 1
  /\ pc' = "merge"
  /\ UNCHANGED <<decodeVars, up, form, t, at, next, prev, dense, out>>

Flush == Append(out, [index |-> cur, value |-> sum])

Merge ==
  /\ pc = "merge" /\ i <= Len(entries)
  /\ IF entries[i].index = cur
     THEN sum' = sum + entries[i].value /\ UNCHANGED <<cur, out>>
     ELSE out' = Flush /\ cur' = entries[i].index /\ sum' = entries[i].value
  /\ i' = i + 1
  /\ UNCHANGED <<decodeVars, up, form, pc, t, at, next, prev, dense, entries>>

FlushLast ==
  /\ pc = "merge" /\ i > Len(entries)
  /\ out' = Flush
  /\ pc' = "done"
  /\ UNCHANGED <<decodeVars, up, form, t, at, next, prev, dense, entries, i, cur, sum>>

Next ==
  \/ Decode \/ Call
  \/ ScatterSelected \/ ScatterRelaxed \/ StepBack
  \/ Sort \/ Merge \/ FlushLast

Spec == Init /\ [][Next]_vars

-----------------------------------------------------------------------------
SparseEntry == [index : Index, value : Int]

\* No scatter leaves the gradient: a sparse index is one of the dense tensor.
TypeOK ==
  /\ cons \in ConstraintSpace
  /\ beams \in [BeamId -> Beam]
  /\ pools \in Seq(Buffer) /\ Len(pools) <= T
  /\ up \in Upstream
  /\ form \in {"dense", "sparse"}
  /\ pc \in {"decode", "refused", "selected", "relaxed", "swap", "sort", "merge", "done"}
  /\ t \in 0 .. T /\ at \in 0 .. P - 1
  /\ next \in [BeamId -> Int] /\ prev \in [BeamId -> Int]
  /\ dense \in [Index -> Int]
  /\ entries \in Seq(SparseEntry)
  /\ i \in 1 .. Len(entries) + 1 /\ cur \in Index /\ sum \in Int
  /\ out \in Seq(SparseEntry)

(***************************************************************************)
(* The reference: a raw score is the sum of the log-probabilities on its   *)
(* path, so a slot's gradient belongs to every expansion on that path.     *)
(***************************************************************************)

\* The candidates on the path of slot n of step s, from step 0 to s.
PathTo(s, n) ==
  LET chain[r \in 0 .. s] ==
        IF r = s THEN pools[s + 1][n]
        ELSE IF chain[r + 1].parent < 0 THEN Placeholder
        ELSE pools[r + 1][chain[r + 1].parent]
  IN  chain

\* Every slot with a gradient of its own: step, slot, and that gradient.
Sources ==
  {[step |-> s, slot |-> k, kind |-> "selected", grad |-> SelectedGradient(s, k)] :
     s \in Step, k \in BeamId}
  \cup
  {[step |-> s, slot |-> p, kind |-> "relaxed", grad |-> RelaxedGradient(s, p)] :
     s \in Step, p \in Slot}

Sum(f, S) == MapThenSumSet(LAMBDA x : f[x], S)

Contribution(sources) == Sum([x \in sources |-> x.grad], sources)

PathGradient(n) ==
  Contribution({x \in Sources :
    \E s \in 0 .. x.step :
      LET c == PathTo(x.step, x.slot)[s]
      IN  c.fromLogprob = 1 /\ n = (s * K + c.parent) * V + c.token})

InitialGradient(k) ==
  Contribution({x \in Sources : PathTo(x.step, x.slot)[0].parent = k})

\* What a list of sparse entries says of one index.
ValueAt(list, n) ==
  Sum([j \in 1 .. Len(list) |-> list[j].value],
      {j \in 1 .. Len(list) : list[j].index = n})

\* grad_log_probs as either form of the call returns it.
Gradient == IF form = "dense" THEN dense ELSE [n \in Index |-> ValueAt(out, n)]

\* The entries name each log-probability at most once, in order, and only such
\* as a candidate of the pool was extended by.
Canonical(list) ==
  /\ \A j, n \in 1 .. Len(list) : j < n => list[j].index < list[n].index
  /\ \A j \in 1 .. Len(list) :
       \E s \in Step, p \in Slot :
         LET c == pools[s + 1][p]
         IN  c.fromLogprob = 1 /\ list[j].index = (s * K + c.parent) * V + c.token

\* Both backward passes return the derivative of the scores with the selection
\* fixed: each slot's gradient, once, at every log-probability on its path, and
\* at the initial score the path starts from; a sparse one is canonical too.
GradientFollowsPaths ==
  pc = "done" =>
    /\ \A n \in Index : Gradient[n] = PathGradient(n)
    /\ \A k \in BeamId : next[k] = InitialGradient(k)
    /\ form = "sparse" => Canonical(out)

\* The sources whose slot has been scattered.
Scattered(x) ==
  \/ x.step > t
  \/ /\ x.step = t
     /\ CASE pc = "selected" -> x.kind = "selected" /\ x.slot < at
          [] pc = "relaxed"  -> x.kind = "selected" \/ x.slot < at
          [] OTHER           -> TRUE

\* No gradient is lost on the way back, in a dead beam or a carried one: what
\* live slots have put in is what waits at the raw scores.
GradientConserved ==
  pc \in {"selected", "relaxed", "swap"} =>
    Contribution({x \in Sources : Scattered(x) /\ pools[x.step + 1][x.slot].parent >= 0})
      = Sum(prev, BeamId)
        + IF pc = "selected" THEN Sum(next, at .. K - 1) ELSE 0
=============================================================================
