------------------------------ MODULE CudaForward ------------------------------
(***************************************************************************)
(* The CUDA forward kernels on one batch example: dbs_forward_fast_kernel, *)
(* whose lanes scan the vocabulary in strides, leave their K best in       *)
(* shared memory and let lane 0 merge them between two barriers, and       *)
(* dbs_forward_kernel, in which a single thread does everything.           *)
(*                                                                         *)
(* Both have an order and placeholders of their own, without raw scores.   *)
(* That they compute the beam search of the CPU decoder is                 *)
(* ImplementsBeamSearch.                                                   *)
(***************************************************************************)
EXTENDS BeamCore

CONSTANT Lanes  (* DBS_CUDA_FAST_THREADS                                   *)

\* A lane initialises and returns the beam of its number (tid < K), so every
\* beam needs a lane: the code has 64 lanes for at most 32 beams.
ASSUME LanesAssumption == Lanes \in Nat /\ Lanes >= K

\* The kernels take no length penalty and no constraint but min_length.
ASSUME PlainAssumption ==
  /\ \A raw \in Score, n \in 1 .. T : Rank(raw, n) = raw /\ CarryRank(raw, n) = raw
  /\ \A c \in ConstraintSpace :
       /\ ~HasAdvanced(c) /\ c.banned = {} /\ c.minLength >= 0
       /\ \A s \in 0 .. T - 1 : c.forced[s] = -1

Lane == 0 .. Lanes - 1

VARIABLES
  cons,   (* of which minLength is min_length                              *)
  t,      (* the step                                                      *)
  rows,   (* log_probs at this step                                        *)
  pc,     (* each lane's position                                          *)
  at, v,  (* the loop indices of each lane: parent and token               *)
  local,  (* each lane's K best candidates                                 *)
  prev,   (* shared: prev_scores, prev_lengths, prev_ended                 *)
  cand,   (* shared: the lists the lanes have handed in                    *)
  best,   (* the merged list of lane 0, or the serial thread's list        *)
  m,      (* how many beams, then entries of cand, the merge has seen      *)
  final,  (* final_scores                                                  *)
  hyps    (* history: per beam, tokens_out followed along parents_out      *)

scanVars == <<at, v, local>>
vars == <<cons, t, rows, pc, scanVars, prev, cand, best, m, final, hyps>>

-----------------------------------------------------------------------------
(***************************************************************************)
(* Candidates, and the sorted list of the best K.                          *)
(***************************************************************************)

\* The sentinels of an empty slot are larger than any index.
NoCandidate ==
  [score |-> NegInf, parent |-> K, token |-> V, length |-> 0, ended |-> FALSE,
   fromLogprob |-> 1]

EmptyList == [i \in BeamId |-> NoCandidate]

\* better_candidate
Precedes(x, y) ==
  \/ x.score > y.score
  \/ /\ x.score = y.score
     /\ \/ x.parent < y.parent
        \/ /\ x.parent = y.parent
           /\ \/ x.token < y.token
              \/ /\ x.token = y.token
                 /\ \/ x.length < y.length
                    \/ /\ x.length = y.length
                       /\ x.fromLogprob > y.fromLogprob

PlaceAt(list, c, pos) ==
  [i \in BeamId |-> IF i < pos THEN list[i] ELSE IF i = pos THEN c ELSE list[i - 1]]

\* insert_local_candidate: from the last slot up, as long as c goes first.
InsertFromBack(list, c) ==
  LET Above(i) == i = 0 \/ ~Precedes(c, list[i - 1])
      pos == CHOOSE i \in BeamId :
               Above(i) /\ \A j \in i .. K - 1 : Precedes(c, list[j])
  IN  IF Precedes(c, list[K - 1]) THEN PlaceAt(list, c, pos) ELSE list

\* The serial kernel: at the first slot c goes before.
InsertFromFront(list, c) ==
  LET later == {i \in BeamId : Precedes(c, list[i])}
  IN  IF later = {} THEN list
      ELSE PlaceAt(list, c, CHOOSE i \in later : \A j \in later : i <= j)

FirstBeam(k) ==
  [score |-> IF k = 0 THEN 0 ELSE NegInf, length |-> 0, ended |-> FALSE]

\* Shared memory is not initialised: some beam, live or dead.
AnyBeam == {FirstBeam(0), [FirstBeam(0) EXCEPT !.score = NegInf]}

Ended(k) == EOS >= 0 /\ prev[k].ended

\* A finished beam as it competes with the rest.
Carried(k) ==
  [score |-> prev[k].score, parent |-> k, token |-> EOS,
   length |-> prev[k].length, ended |-> TRUE, fromLogprob |-> 0]

Extended(k, u) ==
  [score |-> FloatAdd(prev[k].score, rows[k][u]), parent |-> k, token |-> u,
   length |-> prev[k].length + 1, ended |-> EOS >= 0 /\ u = EOS, fromLogprob |-> 1]

Offered(k, u) ==
  /\ IsFinite(rows[k][u])
  /\ ~(EOS >= 0 /\ u = EOS /\ prev[k].length + 1 < EffectiveMinLength(cons))

\* The scan of beam k has nothing to do.
Skipped(k) == ~IsFinite(prev[k].score) \/ Ended(k)

-----------------------------------------------------------------------------
(***************************************************************************)
(* The hypotheses, as the CPU decoder would keep them.  A beam at NegInf   *)
(* may hold the rest of a candidate whose sum overflowed: no one reads it. *)
(***************************************************************************)
Prepared == \A l \in Lane : pc[l] \notin {"init", "wait0", "start"}

Beams ==
  [k \in BeamId |->
     IF ~Prepared THEN InitialBeams[k]
     ELSE IF prev[k].score = NegInf THEN DeadBeam
     ELSE [raw |-> prev[k].score, len |-> prev[k].length,
           ended |-> prev[k].ended, seq |-> hyps[k]]]

Init ==
  /\ cons \in ConstraintSpace
  /\ t = 0
  /\ rows = [k \in BeamId |-> [u \in Token |-> NegInf]]
  /\ \/ pc = [l \in Lane |-> "init"]
     \/ pc = [l \in Lane |-> IF l = 0 THEN "start" ELSE "absent"]
  /\ at = [l \in Lane |-> 0] /\ v = [l \in Lane |-> l]
  /\ local = [l \in Lane |-> EmptyList]
  /\ prev \in [BeamId -> AnyBeam]
  /\ cand = [l \in Lane |-> EmptyList]
  /\ best = EmptyList /\ m = 0
  /\ final = [k \in BeamId |-> PosInf]
  /\ hyps = [k \in BeamId |-> << >>]

Go(l, place) == pc' = [pc EXCEPT ![l] = place]

\* The selected row becomes the beams; its tokens, parents and flags are
\* written to the output tensors.
Commit ==
  /\ prev' = [k \in BeamId |->
       [score |-> best[k].score, length |-> best[k].length, ended |-> best[k].ended]]
  /\ hyps' = [k \in BeamId |->
       IF best[k].parent = K THEN << >>
       ELSE IF best[k].fromLogprob = 1 /\ best[k].token # V
       THEN Append(hyps[best[k].parent], best[k].token)
       ELSE hyps[best[k].parent]]
  /\ t' = t + 1

-----------------------------------------------------------------------------
(***************************************************************************)
(* The lanes of dbs_forward_fast_kernel.                                   *)
(***************************************************************************)

\* if (tid < K) ...
InitBeam(l) ==
  /\ pc[l] = "init"
  /\ prev' = IF l < K THEN [prev EXCEPT ![l] = FirstBeam(l)] ELSE prev
  /\ Go(l, "wait0")
  /\ UNCHANGED <<cons, t, rows, scanVars, cand, best, m, final, hyps>>

\* A dead or finished beam, or a lane beyond the vocabulary.
SkipBeam(l) ==
  /\ pc[l] = "scan" /\ at[l] < K
  /\ Skipped(at[l]) \/ v[l] >= V
  /\ at' = [at EXCEPT ![l] = @ + 1]
  /\ v' = [v EXCEPT ![l] = l]
  /\ UNCHANGED <<cons, t, rows, pc, local, prev, cand, best, m, final, hyps>>

\* One token; the next one is blockDim.x further on.
ScanToken(l) ==
  /\ pc[l] = "scan" /\ at[l] < K
  /\ ~Skipped(at[l]) /\ v[l] < V
  /\ local' = IF Offered(at[l], v[l])
              THEN [local EXCEPT ![l] = InsertFromBack(@, Extended(at[l], v[l]))]
              ELSE local
  /\ v' = [v EXCEPT ![l] = @ + Lanes]
  /\ UNCHANGED <<cons, t, rows, pc, at, prev, cand, best, m, final, hyps>>

\* Faulty variant of HandIn: lane 0 does not wait for the other lists.
HandInUnsynced(l) ==
  /\ pc[l] = "scan" /\ at[l] = K
  /\ cand' = [cand EXCEPT ![l] = local[l]]
  /\ Go(l, IF l = 0 THEN "carry" ELSE "wait1")
  /\ best' = EmptyList /\ m' = 0
  /\ UNCHANGED <<cons, t, rows, scanVars, prev, final, hyps>>

\* Faulty variant of HandIn: a lane that has found nothing leaves the kernel.
HandInUnlessEmpty(l) ==
  /\ pc[l] = "scan" /\ at[l] = K
  /\ cand' = [cand EXCEPT ![l] = local[l]]
  /\ Go(l, IF local[l] = EmptyList THEN "done" ELSE "wait1")
  /\ UNCHANGED <<cons, t, rows, scanVars, prev, best, m, final, hyps>>

\* The list goes to shared memory.
HandIn(l) ==
  /\ pc[l] = "scan" /\ at[l] = K
  /\ cand' = [cand EXCEPT ![l] = local[l]]
  /\ Go(l, "wait1")
  /\ UNCHANGED <<cons, t, rows, scanVars, prev, best, m, final, hyps>>

\* Lane 0 merges: the finished beams first,
MergeCarried ==
  /\ pc[0] = "carry"
  /\ best' = IF Ended(m) /\ IsFinite(prev[m].score)
             THEN InsertFromBack(best, Carried(m)) ELSE best
  /\ m' = IF m + 1 < K THEN m + 1 ELSE 0
  /\ pc' = IF m + 1 < K THEN pc ELSE [pc EXCEPT ![0] = "merge"]
  /\ UNCHANGED <<cons, t, rows, scanVars, prev, cand, final, hyps>>

\* then every slot of every lane, empty ones included;
MergeList ==
  /\ pc[0] = "merge" /\ m < Lanes * K
  /\ best' = InsertFromBack(best, cand[m \div K][m % K])
  /\ m' = m + 1
  /\ UNCHANGED <<cons, t, rows, pc, scanVars, prev, cand, final, hyps>>

\* and the best K become the beams.
CommitMerge ==
  /\ pc[0] = "merge" /\ m = Lanes * K
  /\ Commit
  /\ Go(0, "wait2")
  /\ UNCHANGED <<cons, rows, scanVars, cand, best, m, final>>

FinalScore(l) ==
  /\ pc[l] = "final"
  /\ final' = IF l < K THEN [final EXCEPT ![l] = prev[l].score] ELSE final
  /\ Go(l, "done")
  /\ UNCHANGED <<cons, t, rows, scanVars, prev, cand, best, m, hyps>>

\* Faulty variant of AfterBarrier: every lane merges.
AllMerge(l) ==
  IF pc[l] = "wait1" THEN "carry" ELSE IF t < T THEN "scan" ELSE "final"

\* Where a lane goes from a barrier.
AfterBarrier(l) ==
  IF pc[l] = "wait1" THEN IF l = 0 THEN "carry" ELSE "wait2"
  ELSE IF t < T THEN "scan" ELSE "final"

\* Faulty variant of EnterScan: the lists keep the last step's candidates.
EnterScanKeeping(lanes) ==
  /\ at' = [l \in Lane |-> IF l \in lanes THEN 0 ELSE at[l]]
  /\ v' = [l \in Lane |-> IF l \in lanes THEN l ELSE v[l]]
  /\ UNCHANGED local

\* The top of the loop: the lists are emptied and the step's log-probabilities
\* matter for the first time.
EnterScan(lanes) ==
  /\ at' = [l \in Lane |-> IF l \in lanes THEN 0 ELSE at[l]]
  /\ v' = [l \in Lane |-> IF l \in lanes THEN l ELSE v[l]]
  /\ local' = [l \in Lane |-> IF l \in lanes THEN EmptyList ELSE local[l]]

\* __syncthreads(): the lanes leave a barrier together.
Sync ==
  /\ \A l \in Lane : pc[l] \in {"wait0", "wait1", "wait2"}
  /\ pc' = [l \in Lane |-> AfterBarrier(l)]
  /\ IF \E l \in Lane : pc'[l] = "scan"
     THEN rows' \in Rows(Beams) /\ EnterScan({l \in Lane : pc'[l] = "scan"})
     ELSE UNCHANGED <<rows, scanVars>>
  /\ IF pc'[0] = "carry" THEN best' = EmptyList /\ m' = 0 ELSE UNCHANGED <<best, m>>
  /\ UNCHANGED <<cons, t, prev, cand, final, hyps>>

-----------------------------------------------------------------------------
(***************************************************************************)
(* The single thread of dbs_forward_kernel.                                *)
(***************************************************************************)
SerialInit ==
  /\ pc[0] = "start"
  /\ prev' = [k \in BeamId |-> FirstBeam(k)]
  /\ Go(0, "step")
  /\ UNCHANGED <<cons, t, rows, scanVars, cand, best, m, final, hyps>>

SerialStep ==
  /\ pc[0] = "step" /\ t < T
  /\ rows' \in Rows(Beams)
  /\ best' = EmptyList
  /\ at' = [at EXCEPT ![0] = 0] /\ v' = [v EXCEPT ![0] = 0]
  /\ Go(0, "serial")
  /\ UNCHANGED <<cons, t, local, prev, cand, m, final, hyps>>

SerialNextBeam ==
  /\ at' = [at EXCEPT ![0] = @ + 1]
  /\ v' = [v EXCEPT ![0] = 0]
  /\ UNCHANGED <<cons, t, rows, pc, local, prev, cand, m, final, hyps>>

\* A dead beam offers nothing, a finished one itself.
SerialSkip ==
  /\ pc[0] = "serial" /\ at[0] < K
  /\ Skipped(at[0])
  /\ best' = IF IsFinite(prev[at[0]].score)
             THEN InsertFromFront(best, Carried(at[0])) ELSE best
  /\ SerialNextBeam

SerialToken ==
  /\ pc[0] = "serial" /\ at[0] < K
  /\ ~Skipped(at[0])
  /\ best' = IF Offered(at[0], v[0])
             THEN InsertFromFront(best, Extended(at[0], v[0])) ELSE best
  /\ IF v[0] + 1 < V
     THEN /\ v' = [v EXCEPT ![0] = @ + 1]
          /\ UNCHANGED <<cons, t, rows, pc, at, local, prev, cand, m, final, hyps>>
     ELSE SerialNextBeam

SerialCommit ==
  /\ pc[0] = "serial" /\ at[0] = K
  /\ Commit
  /\ Go(0, "step")
  /\ UNCHANGED <<cons, rows, scanVars, cand, best, m, final>>

SerialFinal ==
  /\ pc[0] = "step" /\ t = T
  /\ final' = [k \in BeamId |-> prev[k].score]
  /\ Go(0, "done")
  /\ UNCHANGED <<cons, t, rows, scanVars, prev, cand, best, m, hyps>>

-----------------------------------------------------------------------------
LaneStep(l) == InitBeam(l) \/ SkipBeam(l) \/ ScanToken(l) \/ HandIn(l) \/ FinalScore(l)

Merge == MergeCarried \/ MergeList \/ CommitMerge

Serial ==
  SerialInit \/ SerialStep \/ SerialSkip \/ SerialToken \/ SerialCommit \/ SerialFinal

Next == (\E l \in Lane : LaneStep(l)) \/ Merge \/ Sync \/ Serial

Spec == Init /\ [][Next]_vars

\* The lanes of a running block are all scheduled.
FairSpec ==
  /\ Spec
  /\ \A l \in Lane : WF_vars(LaneStep(l))
  /\ WF_vars(Merge) /\ WF_vars(Sync) /\ WF_vars(Serial)

-----------------------------------------------------------------------------
Entry ==
  [score : Score, parent : 0 .. K, token : -1 .. V, length : Nat,
   ended : BOOLEAN, fromLogprob : {0, 1}]

Place == {"init", "wait0", "scan", "wait1", "wait2", "final", "done"}

\* The lanes keep to their arrays, and only lane 0 merges.
TypeOK ==
  /\ cons \in ConstraintSpace
  /\ t \in 0 .. T
  /\ rows \in [BeamId -> [Token -> LogProb]]
  /\ \A l \in Lane :
       \/ pc[l] \in Place
       \/ l = 0 /\ pc[l] \in {"carry", "merge", "start", "step", "serial"}
       \/ l # 0 /\ pc[l] = "absent"
  /\ at \in [Lane -> 0 .. K]
  /\ v \in [Lane -> 0 .. V + Lanes - 1]
  /\ local \in [Lane -> [BeamId -> Entry]]
  /\ prev \in [BeamId -> [score : Score, length : Nat, ended : BOOLEAN]]
  /\ cand \in [Lane -> [BeamId -> Entry]]
  /\ best \in [BeamId -> Entry]
  /\ m \in 0 .. Lanes * K
  /\ final \in [BeamId -> Score]
  /\ hyps \in [BeamId -> Seq(Token)]

\* No data race on shared memory: while lane 0 reads the lists and rewrites the
\* beams every other lane is parked at the barrier behind it, and no lane looks
\* at a beam before all of them are initialised.
BarriersSeparate ==
  \A l \in Lane :
    /\ pc[0] \in {"carry", "merge"} /\ l # 0 => pc[l] = "wait2"
    /\ pc[l] = "init" => \A n \in Lane : pc[n] \in {"init", "wait0"}

\* Whatever the schedule of the lanes, and in the serial kernel too, each step
\* replaces the beams by the best K continuations in the order of the CPU
\* decoder, and the output tensors spell the same hypotheses.
Abstract ==
  INSTANCE BeamSearch
    WITH beams <- Beams,
         fed <- pc[0] \in {"scan", "wait1", "carry", "merge", "serial"}

ImplementsBeamSearch == Abstract!Spec

\* No lane is left behind at a barrier: the kernel ends, and returns the scores
\* of its last beams.
KernelFinishes ==
  <>(/\ t = T /\ \A l \in Lane : pc[l] \in {"done", "absent"}
     /\ final = [k \in BeamId |-> prev[k].score])
=============================================================================
