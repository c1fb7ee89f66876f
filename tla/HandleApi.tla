------------------------------ MODULE HandleApi ------------------------------
(***************************************************************************)
(* Threads that call the C API on one decoder handle and one workspace:    *)
(* the decodes and backward passes, dbs_reset_stats, and                   *)
(* dbs_decode_model_steps_with_workspace, which asks the caller's model    *)
(* for a row of log-probabilities per step.                                *)
(*                                                                         *)
(* An action is what a thread does under one lock.  Calls are numbered; a  *)
(* message, a statistic and a row are the number of the call they come     *)
(* from.                                                                   *)
(***************************************************************************)
EXTENDS Integers

CONSTANTS
  Thread,
  T,         (* steps of a model-step decode                               *)
  Throws,    (* categories of what a decode or a backward pass may throw   *)
  MaxCalls   (* bound on the number of calls                               *)

ASSUME HandleAssumption ==
  /\ T \in Nat \ {0} /\ MaxCalls \in Nat \ {0}
  /\ Throws \subseteq 1 .. 4

Step == 0 .. T - 1

\* dbs_decode, dbs_decode_constrained_ex and dbs_decode_typed, the backward
\* passes, the model-step decode, and dbs_reset_stats.
Kind == {"decode", "backward", "steps", "reset"}

VARIABLES
  n,                  (* the number of calls so far                        *)
  pc, kind, id,       (* each thread's position and call                   *)
  category,           (* what the call has failed with, 0 if it has not    *)
  t, seen,            (* of a model-step decode: the step, and what its    *)
                      (* callback has been shown at each step              *)
  result,             (* the rows its result was decoded from              *)
  globalError,        (* g_dbs_last_error, one per thread                  *)
  holder,             (* who holds the workspace                           *)
  f32, i32,           (* its buffers: the rows; the rows from which the    *)
                      (* last beams, shown to the model, were decoded      *)
  lastError, stats,   (* of the handle                                     *)
  alone, last         (* history: whether a call has met no other; the     *)
                      (* last call that ended                              *)

callVars == <<n, kind, id, alone>>
stepVars == <<t, seen, result>>
workspace == <<holder, f32, i32>>
report == <<globalError, lastError, stats>>
vars == <<pc, callVars, category, stepVars, workspace, report, last>>

NoCall == 0
Call == 0 .. MaxCalls

\* A workspace whose rows are all -infinity.
NoRows == [s \in Step |-> NoCall]

\* The first m of them.  A decode of those begins every decode of more: it
\* stands for the tokens and scores of the beams after m steps.
Prefix(rows, m) == [s \in 0 .. m - 1 |-> rows[s]]

Beams == UNION {[0 .. m - 1 -> Call] : m \in 0 .. T}

NoBeams == Prefix(NoRows, 0)

Unseen == [s \in Step |-> NoBeams]

NewStats == [category |-> 0, decode |-> NoCall, backward |-> NoCall, bytes |-> {}]

Init ==
  /\ pc = [p \in Thread |-> "idle"]
  /\ kind = [p \in Thread |-> "reset"]
  /\ n = 0 /\ id = [p \in Thread |-> NoCall]
  /\ category = [p \in Thread |-> 0]
  /\ t = [p \in Thread |-> 0]
  /\ seen = [p \in Thread |-> Unseen]
  /\ result = [p \in Thread |-> NoRows]
  /\ globalError = [p \in Thread |-> NoCall]
  /\ holder = {} /\ f32 = NoRows /\ i32 = NoBeams
  /\ lastError = NoCall /\ stats = NewStats
  /\ alone = [p \in Thread |-> TRUE]
  /\ last = [call |-> NoCall, kind |-> "reset", category |-> 0, alone |-> TRUE]

Go(p, place) == pc' = [pc EXCEPT ![p] = place]

Fail(p, place, cat) == Go(p, place) /\ category' = [category EXCEPT ![p] = cat]

\* The locals of a model-step decode that is over.
Forget(p) ==
  /\ t' = [t EXCEPT ![p] = 0]
  /\ seen' = [seen EXCEPT ![p] = Unseen]
  /\ result' = [result EXCEPT ![p] = NoRows]

Return(p) ==
  /\ Go(p, "idle")
  /\ last' = [call |-> id[p], kind |-> kind[p], category |-> category[p],
              alone |-> alone[p]]

-----------------------------------------------------------------------------
\* A call with arguments the code accepts, or refuses aloud.  (dbs_decode and
\* the typed forms refuse null pointers without a trace: a stuttering step.)
Begin(p) ==
  /\ pc[p] = "idle" /\ n < MaxCalls
  /\ \E k \in Kind :
       /\ kind' = [kind EXCEPT ![p] = k]
       /\ \/ Fail(p, CASE k = "steps" -> "lock" [] k = "reset" -> "reset" [] OTHER -> "work", 0)
          \/ k # "reset" /\ Fail(p, "setError", 1)
  /\ n' = n + 1 /\ id' = [id EXCEPT ![p] = n + 1]
  /\ alone' = [q \in Thread |->
       IF q = p THEN \A r \in Thread \ {p} : pc[r] = "idle"
       ELSE alone[q] /\ pc[q] = "idle"]
  /\ UNCHANGED <<stepVars, workspace, report, last>>

\* decode, decode_constrained, backward or backward_sparse.
Work(p) ==
  /\ pc[p] = "work"
  /\ \/ Go(p, "record") /\ UNCHANGED category
     \/ \E c \in Throws : Fail(p, "setError", c)
  /\ UNCHANGED <<callVars, stepVars, workspace, report, last>>

\* Faulty variant of Recorded: a success leaves the category.
RecordedQuietly(p) ==
  IF kind[p] = "backward" THEN [stats EXCEPT !.backward = id[p]]
  ELSE [stats EXCEPT !.decode = id[p], !.bytes = {<<id[p], "result">>}]

\* dbs_record_decode_stats, dbs_record_backward_stats: each has its own fields.
Recorded(p) ==
  IF kind[p] = "backward"
  THEN [category |-> 0, decode |-> stats.decode, backward |-> id[p],
        bytes |-> stats.bytes]
  ELSE [category |-> 0, decode |-> id[p], backward |-> stats.backward,
        bytes |-> {<<id[p], "result">>}]

Record(p) ==
  /\ pc[p] = "record"
  /\ stats' = Recorded(p)
  /\ Go(p, IF kind[p] = "steps" THEN "addBytes" ELSE "clearError")
  /\ UNCHANGED <<callVars, category, stepVars, workspace, globalError, lastError, last>>

\* The workspace is counted in a second critical section.
AddBytes(p) ==
  /\ pc[p] = "addBytes"
  /\ stats' = [stats EXCEPT !.bytes = @ \cup {<<id[p], "workspace">>}]
  /\ Go(p, "clearError")
  /\ UNCHANGED <<callVars, category, stepVars, workspace, globalError, lastError, last>>

\* The result is handed out and the message cleared.
ClearError(p) ==
  /\ pc[p] = "clearError"
  /\ globalError' = [globalError EXCEPT ![p] = NoCall]
  /\ lastError' = NoCall
  /\ IF kind[p] = "steps" THEN Go(p, "unlock") /\ UNCHANGED last ELSE Return(p)
  /\ UNCHANGED <<callVars, category, stepVars, workspace, stats>>

SetError(p) ==
  /\ pc[p] = "setError"
  /\ globalError' = [globalError EXCEPT ![p] = id[p]]
  /\ lastError' = id[p]
  /\ Go(p, "markError")
  /\ UNCHANGED <<callVars, category, stepVars, workspace, stats, last>>

MarkError(p) ==
  /\ pc[p] = "markError"
  /\ stats' = [stats EXCEPT !.category = category[p]]
  /\ Return(p)
  /\ UNCHANGED <<callVars, category, stepVars, workspace, globalError, lastError>>

ResetStats(p) ==
  /\ pc[p] = "reset"
  /\ stats' = NewStats
  /\ Return(p)
  /\ UNCHANGED <<callVars, category, stepVars, workspace, globalError, lastError>>

-----------------------------------------------------------------------------
(***************************************************************************)
(* dbs_decode_model_steps_with_workspace, between lock and unlock.         *)
(***************************************************************************)

\* Faulty variant of Cleared: the rows of the call before stay.
Kept(rows) == rows

\* f32.assign(total, -infinity)
Cleared(rows) == NoRows

\* The buffers are assigned; they may not fit into memory.
LockWorkspace(p) ==
  /\ pc[p] = "lock" /\ holder = {}
  /\ holder' = {p}
  /\ \/ f32' = Cleared(f32) /\ i32' = NoBeams /\ Go(p, "call") /\ UNCHANGED category
     \/ Fail(p, "unwind", 3) /\ UNCHANGED <<f32, i32>>
  /\ UNCHANGED <<callVars, stepVars, report, last>>

\* Faulty variant of CallModel: the model runs without the lock.
CallModelUnlocked(p) ==
  /\ pc[p] = "call"
  /\ seen' = [seen EXCEPT ![p][t[p]] = i32]
  /\ holder' = {}
  /\ Go(p, "model")
  /\ UNCHANGED <<callVars, category, t, result, f32, i32, report, last>>

\* The model is shown the tokens of the last beams.
CallModel(p) ==
  /\ pc[p] = "call"
  /\ seen' = [seen EXCEPT ![p][t[p]] = i32]
  /\ Go(p, "model")
  /\ UNCHANGED <<callVars, category, t, result, workspace, report, last>>

\* It fills the row or leaves it at -infinity, and may fail.
ModelReturns(p) ==
  /\ pc[p] = "model"
  /\ \/ f32' = [f32 EXCEPT ![t[p]] = id[p]]
     \/ UNCHANGED f32
  /\ \/ Go(p, IF t[p] + 1 < T THEN "partial" ELSE "final") /\ UNCHANGED category
     \/ Fail(p, "unwind", 2)
  /\ UNCHANGED <<callVars, stepVars, holder, i32, report, last>>

\* A decode of the rows so far finds the beams for the next call.
DecodePartial(p) ==
  /\ pc[p] = "partial"
  /\ \/ /\ i32' = Prefix(f32, t[p] + 1)
        /\ t' = [t EXCEPT ![p] = @ + 1]
        /\ Go(p, "call") /\ UNCHANGED category
     \/ \E c \in Throws : Fail(p, "unwind", c) /\ UNCHANGED <<i32, t>>
  /\ UNCHANGED <<callVars, seen, result, holder, f32, report, last>>

DecodeFinal(p) ==
  /\ pc[p] = "final"
  /\ \/ result' = [result EXCEPT ![p] = f32] /\ Go(p, "record") /\ UNCHANGED category
     \/ \E c \in Throws : Fail(p, "unwind", c) /\ UNCHANGED result
  /\ UNCHANGED <<callVars, t, seen, workspace, report, last>>

\* Faulty variant of Unwind: an exception leaves the workspace locked.
UnwindLocked(p) ==
  /\ pc[p] = "unwind"
  /\ Go(p, "setError") /\ Forget(p)
  /\ UNCHANGED <<callVars, category, workspace, report, last>>

\* An exception releases the workspace before it is caught.
Unwind(p) ==
  /\ pc[p] = "unwind"
  /\ holder' = {}
  /\ Go(p, "setError") /\ Forget(p)
  /\ UNCHANGED <<callVars, category, f32, i32, report, last>>

Unlock(p) ==
  /\ pc[p] = "unlock"
  /\ holder' = {}
  /\ Return(p) /\ Forget(p)
  /\ UNCHANGED <<callVars, category, f32, i32, report>>

-----------------------------------------------------------------------------
ModelStep(p) ==
  \/ LockWorkspace(p) \/ CallModel(p) \/ ModelReturns(p) \/ DecodePartial(p)
  \/ DecodeFinal(p) \/ Unwind(p) \/ Unlock(p)

CallStep(p) ==
  \/ Work(p) \/ Record(p) \/ AddBytes(p) \/ ClearError(p) \/ SetError(p)
  \/ MarkError(p) \/ ResetStats(p) \/ ModelStep(p)

Next == \E p \in Thread : Begin(p) \/ CallStep(p)

Spec == Init /\ [][Next]_vars

\* Every thread in a call is scheduled, and every model answers.
FairSpec == Spec /\ \A p \in Thread : WF_vars(CallStep(p))

-----------------------------------------------------------------------------
Place ==
  {"idle", "work", "record", "addBytes", "clearError", "setError", "markError",
   "reset", "lock", "call", "model", "partial", "final", "unwind", "unlock"}

InWorkspace(p) ==
  \/ pc[p] \in {"call", "model", "partial", "final", "unwind", "unlock", "addBytes"}
  \/ kind[p] = "steps" /\ pc[p] \in {"record", "clearError"}

TypeOK ==
  /\ pc \in [Thread -> Place] /\ kind \in [Thread -> Kind]
  /\ n \in Call /\ id \in [Thread -> Call]
  /\ category \in [Thread -> 0 .. 4]
  /\ t \in [Thread -> Step]
  /\ seen \in [Thread -> [Step -> Beams]]
  /\ result \in [Thread -> [Step -> Call]] /\ f32 \in [Step -> Call] /\ i32 \in Beams
  /\ globalError \in [Thread -> Call] /\ lastError \in Call
  /\ holder = {p \in Thread : InWorkspace(p)}
  /\ \A p, q \in holder : p = q
  /\ stats \in [category : 0 .. 4, decode : Call, backward : Call,
                bytes : SUBSET (Call \X {"result", "workspace"})]

(***************************************************************************)
(* A model-step decode works on rows of its own model alone, whatever      *)
(* other calls use the workspace or have left in it; and at every step the *)
(* model was shown the beams of the very rows the final decode starts      *)
(* with, so that its scores belong to the hypotheses of the result.        *)
(***************************************************************************)
ModelFollowsResult ==
  \A p \in Thread :
    kind[p] = "steps" /\ pc[p] \in {"record", "addBytes", "clearError"} =>
      /\ \A s \in Step : result[p][s] \in {id[p], NoCall}
      /\ \A s \in Step : seen[p][s] = Prefix(result[p], s)

\* What a call that has ended with this category, and has met no other,
\* leaves on the handle: message, category and statistics tell of one call.
ReportOf(c) ==
  IF c.kind = "reset" THEN stats = NewStats
  ELSE /\ stats.category = c.category
       /\ lastError = IF c.category = 0 THEN NoCall ELSE c.call
       /\ c.category = 0 =>
            CASE c.kind = "backward" -> stats.backward = c.call
              [] c.kind = "decode"   -> /\ stats.decode = c.call
                                        /\ stats.bytes = {<<c.call, "result">>}
              [] OTHER -> /\ stats.decode = c.call
                          /\ stats.bytes = {<<c.call, "result">>, <<c.call, "workspace">>}

\* Between calls the handle reports the last one truthfully, unless that one
\* overlapped another; the thread's own message is right in any case.
LastCallReported ==
  /\ (\A p \in Thread : pc[p] = "idle") /\ last.alone => ReportOf(last)
  /\ \A p \in Thread :
       pc[p] = "idle" /\ id[p] > 0 /\ kind[p] # "reset" =>
         globalError[p] = IF category[p] = 0 THEN NoCall ELSE id[p]

\* Every call returns: no order of locks blocks, and no failure keeps one.
CallsReturn == \A p \in Thread : pc[p] # "idle" ~> pc[p] = "idle"
=============================================================================
