----------------------------- MODULE HandleProofs -----------------------------
(***************************************************************************)
(* Theorems about HandleApi: for any number of threads, calls and steps,   *)
(* the workspace has one user at a time, a model-step decode is computed   *)
(* from its own rows, of which its model saw every prefix, and a call that *)
(* met no other is reported truthfully.                                    *)
(***************************************************************************)
EXTENDS HandleApi, TLAPS

-----------------------------------------------------------------------------
(***************************************************************************)
(* Types, and who is in the workspace.                                     *)
(***************************************************************************)

\* Which calls can be where.
KindInv ==
  \A p \in Thread :
    /\ pc[p] \in {"lock", "call", "model", "partial", "final", "unwind", "unlock", "addBytes"}
         => kind[p] = "steps"
    /\ pc[p] = "work" => kind[p] \in {"decode", "backward"}
    /\ pc[p] = "partial" => t[p] + 1 < T
    /\ pc[p] = "final" => t[p] + 1 = T

Stats == [category : 0 .. 4, decode : Call, backward : Call,
          bytes : SUBSET (Call \X {"result", "workspace"})]

TypeInv == TypeOK /\ KindInv

\* A prefix of rows is a value of i32.
LEMMA PrefixType ==
  ASSUME NEW rows \in [Step -> Call], NEW m \in 0 .. T
  PROVE  Prefix(rows, m) \in Beams
<1>1. T \in Nat
  BY HandleAssumption
<1>2. \A s \in 0 .. m - 1 : s \in Step
  BY <1>1 DEF Step
<1>3. Prefix(rows, m) \in [0 .. m - 1 -> Call]
  BY <1>2 DEF Prefix
<1> QED  BY <1>3 DEF Beams

\* The initial buffers are rows and beams.
LEMMA EmptyTypes ==
  /\ NoRows \in [Step -> Call] /\ NoBeams \in Beams /\ Unseen \in [Step -> Beams]
  /\ NoCall \in Call /\ 0 \in Step /\ 0 \in 0 .. T
<1>1. NoCall \in Call /\ 0 \in Step /\ 0 \in 0 .. T
  BY HandleAssumption DEF Call, NoCall, Step
<1>2. NoRows \in [Step -> Call]
  BY <1>1 DEF NoRows
<1>3. NoBeams \in Beams
  BY <1>1, <1>2, PrefixType DEF NoBeams
<1> QED  BY <1>1, <1>2, <1>3 DEF Unseen

\* The handle and its workspace are free at first.
LEMMA InitTypeInv == Init => TypeInv
<1> SUFFICES ASSUME Init PROVE TypeInv
  OBVIOUS
<1> USE EmptyTypes DEF Init
<1>1. \A p \in Thread : ~InWorkspace(p)
  BY DEF InWorkspace
<1>2. stats \in Stats
  BY DEF NewStats, Stats
<1>3. TypeOK
  BY <1>1, <1>2 DEF TypeOK, Place, Kind, NoCall, Stats
<1>4. KindInv
  BY DEF KindInv
<1> QED  BY <1>3, <1>4 DEF TypeInv

\* Begin.
LEMMA BeginTypeInv ==
  ASSUME TypeInv, NEW p \in Thread, Begin(p)
  PROVE  TypeInv'
<1> USE HandleAssumption DEF TypeInv, TypeOK, Begin, stepVars, workspace, report
<1>1. PICK k \in Kind :
        /\ kind' = [kind EXCEPT ![p] = k]
        /\ \/ Fail(p, CASE k = "steps" -> "lock" [] k = "reset" -> "reset" [] OTHER -> "work", 0)
           \/ k # "reset" /\ Fail(p, "setError", 1)
  OBVIOUS
<1>2. PICK place \in {"lock", "reset", "work", "setError"} :
        /\ pc' = [pc EXCEPT ![p] = place]
        /\ place = "lock" => k = "steps"
        /\ place = "work" => k \in {"decode", "backward"}
  BY <1>1 DEF Kind, Fail, Go
<1>3. pc' \in [Thread -> Place] /\ kind' \in [Thread -> Kind]
        /\ category' \in [Thread -> 0 .. 4]
  <2>1. pc' \in [Thread -> Place]
    BY <1>2 DEF Place
  <2>2. kind' \in [Thread -> Kind]
    BY <1>1
  <2>3. PICK c \in {0, 1} : category' = [category EXCEPT ![p] = c]
    BY <1>1 DEF Fail
  <2>4. category' \in [Thread -> 0 .. 4]
    BY <2>3
  <2> QED  BY <2>1, <2>2, <2>4
<1>4. n' \in Call /\ id' \in [Thread -> Call]
  BY DEF Call
<1>5. \A q \in Thread : InWorkspace(q)' <=> InWorkspace(q)
  BY <1>1, <1>2 DEF InWorkspace
<1>6. KindInv'
  BY <1>1, <1>2 DEF KindInv, Kind
<1> QED  BY <1>3, <1>4, <1>5, <1>6

\* What the critical sections write to the statistics is of their type.
LEMMA StatsType ==
  ASSUME stats \in Stats, NEW p \in Thread, id[p] \in Call, category[p] \in 0 .. 4
  PROVE  /\ Recorded(p) \in Stats
         /\ [stats EXCEPT !.bytes = @ \cup {<<id[p], "workspace">>}] \in Stats
         /\ [stats EXCEPT !.category = category[p]] \in Stats
         /\ NewStats \in Stats
<1>1. /\ {<<id[p], "result">>} \in SUBSET (Call \X {"result", "workspace"})
      /\ {<<id[p], "workspace">>} \in SUBSET (Call \X {"result", "workspace"})
  OBVIOUS
<1>2. stats.bytes \cup {<<id[p], "workspace">>}
        \in SUBSET (Call \X {"result", "workspace"})
  BY <1>1 DEF Stats
<1>3. Recorded(p) \in Stats
  BY <1>1 DEF Recorded, Stats
<1>4. [stats EXCEPT !.bytes = @ \cup {<<id[p], "workspace">>}] \in Stats
  BY <1>2 DEF Stats
<1>5. [stats EXCEPT !.category = category[p]] \in Stats /\ NewStats \in Stats
  BY EmptyTypes DEF Stats, NewStats
<1> QED  BY <1>3, <1>4, <1>5

\* The steps of a call outside the workspace, and those that report.
LEMMA CallTypeInv ==
  ASSUME TypeInv, NEW p \in Thread,
         \/ Work(p) \/ Record(p) \/ AddBytes(p) \/ ClearError(p) \/ SetError(p)
         \/ MarkError(p) \/ ResetStats(p)
  PROVE  TypeInv'
<1> USE HandleAssumption DEF TypeInv, TypeOK, callVars, stepVars, workspace, report
<1>0. id[p] \in Call /\ category[p] \in 0 .. 4 /\ NoCall \in Call
  BY EmptyTypes
<1>1. CASE Work(p)
  <2>4. pc' \in [Thread -> Place] /\ category' \in [Thread -> 0 .. 4]
    <3>1. CASE Go(p, "record") /\ UNCHANGED category
      BY <3>1 DEF Go, Place
    <3>2. CASE \E c \in Throws : Fail(p, "setError", c)
      <4>1. PICK c \in 1 .. 4 : Fail(p, "setError", c)
        BY <3>2
      <4> QED  BY <4>1 DEF Fail, Go, Place
    <3> QED  BY <1>1, <3>1, <3>2 DEF Work
  <2>2. \A q \in Thread : InWorkspace(q)' <=> InWorkspace(q)
    BY <1>1 DEF Work, Go, Fail, InWorkspace, KindInv
  <2>3. KindInv'
    BY <1>1 DEF Work, Go, Fail, KindInv
  <2> QED  BY <1>1, <2>2, <2>3, <2>4 DEF Work
<1>2. CASE Record(p)
  <2>1. stats' \in Stats
    BY <1>0, <1>2, StatsType DEF Record, Stats
  <2>2. pc' \in [Thread -> Place]
    BY <1>2 DEF Record, Go, Place
  <2>3. \A q \in Thread : InWorkspace(q)' <=> InWorkspace(q)
    BY <1>2 DEF Record, Go, InWorkspace, KindInv
  <2>4. KindInv'
    BY <1>2 DEF Record, Go, KindInv
  <2> QED  BY <1>2, <2>1, <2>2, <2>3, <2>4 DEF Record, Stats
<1>3. CASE AddBytes(p)
  <2>1. stats' \in Stats
    BY <1>0, <1>3, StatsType DEF AddBytes, Stats
  <2>2. pc' \in [Thread -> Place]
    BY <1>3 DEF AddBytes, Go, Place
  <2>3. \A q \in Thread : InWorkspace(q)' <=> InWorkspace(q)
    BY <1>3 DEF AddBytes, Go, InWorkspace, KindInv
  <2>4. KindInv'
    BY <1>3 DEF AddBytes, Go, KindInv
  <2> QED  BY <1>3, <2>1, <2>2, <2>3, <2>4 DEF AddBytes, Stats
<1>4. CASE ClearError(p)
  <2>2. pc' \in [Thread -> Place] /\ globalError' \in [Thread -> Call] /\ lastError' \in Call
    BY <1>0, <1>4 DEF ClearError, Return, Go, Place
  <2>3. \A q \in Thread : InWorkspace(q)' <=> InWorkspace(q)
    BY <1>4 DEF ClearError, Return, Go, InWorkspace
  <2>4. KindInv'
    BY <1>4 DEF ClearError, Return, Go, KindInv
  <2> QED  BY <1>4, <2>2, <2>3, <2>4 DEF ClearError
<1>5. CASE SetError(p)
  <2>2. pc' \in [Thread -> Place] /\ globalError' \in [Thread -> Call] /\ lastError' \in Call
    BY <1>0, <1>5 DEF SetError, Go, Place
  <2>3. \A q \in Thread : InWorkspace(q)' <=> InWorkspace(q)
    BY <1>5 DEF SetError, Go, InWorkspace
  <2>4. KindInv'
    BY <1>5 DEF SetError, Go, KindInv
  <2> QED  BY <1>5, <2>2, <2>3, <2>4 DEF SetError
<1>6. CASE MarkError(p)
  <2>1. stats' \in Stats
    BY <1>0, <1>6, StatsType DEF MarkError, Stats
  <2>2. pc' \in [Thread -> Place]
    BY <1>6 DEF MarkError, Return, Go, Place
  <2>3. \A q \in Thread : InWorkspace(q)' <=> InWorkspace(q)
    BY <1>6 DEF MarkError, Return, Go, InWorkspace
  <2>4. KindInv'
    BY <1>6 DEF MarkError, Return, Go, KindInv
  <2> QED  BY <1>6, <2>1, <2>2, <2>3, <2>4 DEF MarkError, Stats
<1>7. CASE ResetStats(p)
  <2>1. stats' \in Stats
    BY <1>0, <1>7, StatsType DEF ResetStats, Stats
  <2>2. pc' \in [Thread -> Place]
    BY <1>7 DEF ResetStats, Return, Go, Place
  <2>3. \A q \in Thread : InWorkspace(q)' <=> InWorkspace(q)
    BY <1>7 DEF ResetStats, Return, Go, InWorkspace
  <2>4. KindInv'
    BY <1>7 DEF ResetStats, Return, Go, KindInv
  <2> QED  BY <1>7, <2>1, <2>2, <2>3, <2>4 DEF ResetStats, Stats
<1> QED  BY <1>1, <1>2, <1>3, <1>4, <1>5, <1>6, <1>7

\* Whatever is thrown is one of the categories.
LEMMA CategoryType ==
  ASSUME category \in [Thread -> 0 .. 4], NEW p \in Thread, NEW place,
         UNCHANGED category \/ \E c \in 0 .. 4 : Fail(p, place, c)
  PROVE  category' \in [Thread -> 0 .. 4]
<1>1. CASE UNCHANGED category
  BY <1>1
<1>2. CASE \E c \in 0 .. 4 : Fail(p, place, c)
  <2>1. PICK c \in 0 .. 4 : category' = [category EXCEPT ![p] = c]
    BY <1>2 DEF Fail
  <2> QED  BY <2>1
<1> QED  BY <1>1, <1>2

\* The steps of a model-step decode while it waits for or has the workspace.
LEMMA ModelTypeInv ==
  ASSUME TypeInv, NEW p \in Thread, ModelStep(p)
  PROVE  TypeInv'
<1> USE HandleAssumption, EmptyTypes
    DEF TypeInv, TypeOK, callVars, stepVars, workspace, report
<1>0. id[p] \in Call /\ t[p] \in Step /\ T \in Nat
  OBVIOUS
<1>1. CASE LockWorkspace(p)
  <2>1. PICK place \in {"call", "unwind"} : pc' = [pc EXCEPT ![p] = place]
    BY <1>1 DEF LockWorkspace, Go, Fail
  <2>2. f32' \in [Step -> Call] /\ i32' \in Beams /\ category' \in [Thread -> 0 .. 4]
    BY <1>1 DEF LockWorkspace, Cleared, Fail
  <2>3. pc' \in [Thread -> Place]
    BY <2>1 DEF Place
  <2>4. holder' = {p} /\ \A q \in Thread : ~InWorkspace(q)
    BY <1>1 DEF LockWorkspace
  <2>5. \A q \in Thread : InWorkspace(q)' <=> q = p
    BY <1>1, <2>1, <2>4 DEF LockWorkspace, InWorkspace
  <2>6. KindInv'
    BY <1>1, <2>1 DEF LockWorkspace, KindInv
  <2> QED  BY <1>1, <2>2, <2>3, <2>4, <2>5, <2>6 DEF LockWorkspace
<1>2. CASE CallModel(p)
  <2>1. pc' \in [Thread -> Place] /\ seen' \in [Thread -> [Step -> Beams]]
    BY <1>2 DEF CallModel, Go, Place
  <2>2. \A q \in Thread : InWorkspace(q)' <=> InWorkspace(q)
    BY <1>2 DEF CallModel, Go, InWorkspace
  <2>3. KindInv'
    BY <1>2 DEF CallModel, Go, KindInv
  <2> QED  BY <1>2, <2>1, <2>2, <2>3 DEF CallModel
<1>3. CASE ModelReturns(p)
  <2>1. PICK place \in {"partial", "final", "unwind"} :
          /\ pc' = [pc EXCEPT ![p] = place]
          /\ place = "partial" => t[p] + 1 < T
          /\ place = "final" => ~(t[p] + 1 < T)
    BY <1>3 DEF ModelReturns, Go, Fail
  <2>2. category' \in [Thread -> 0 .. 4]
    BY <1>3, CategoryType DEF ModelReturns
  <2>7. f32' \in [Step -> Call]
    BY <1>0, <1>3 DEF ModelReturns
  <2>3. pc' \in [Thread -> Place]
    BY <2>1 DEF Place
  <2>4. \A q \in Thread : InWorkspace(q)' <=> InWorkspace(q)
    BY <1>3, <2>1 DEF ModelReturns, InWorkspace
  <2>5. ~(t[p] + 1 < T) => t[p] + 1 = T
    BY <1>0 DEF Step
  <2>6. KindInv'
    BY <1>3, <2>1, <2>5 DEF ModelReturns, KindInv
  <2> QED  BY <1>3, <2>2, <2>3, <2>4, <2>6, <2>7 DEF ModelReturns
<1>4. CASE DecodePartial(p)
  <2>1. pc[p] = "partial" /\ t[p] + 1 < T /\ t[p] + 1 \in Step
    BY <1>0, <1>4 DEF DecodePartial, KindInv, Step
  <2>2. \/ /\ i32' = Prefix(f32, t[p] + 1) /\ t' = [t EXCEPT ![p] = @ + 1]
           /\ Go(p, "call") /\ UNCHANGED category
        \/ /\ UNCHANGED <<i32, t>>
           /\ \E c \in 1 .. 4 : Fail(p, "unwind", c)
    BY <1>4 DEF DecodePartial
  <2>3. Prefix(f32, t[p] + 1) \in Beams
    <3>1. t[p] + 1 \in 0 .. T
      BY <1>0, <2>1 DEF Step
    <3> QED  BY <3>1, PrefixType
  <2>4. /\ i32' \in Beams /\ t' \in [Thread -> Step]
        /\ category' \in [Thread -> 0 .. 4]
    <3>1. category' \in [Thread -> 0 .. 4]
      BY <2>2, CategoryType
    <3>2. i32' \in Beams
      BY <2>2, <2>3
    <3>3. t' \in [Thread -> Step]
      BY <2>1, <2>2
    <3> QED  BY <3>1, <3>2, <3>3
  <2>5. PICK place \in {"call", "unwind"} : pc' = [pc EXCEPT ![p] = place]
    BY <2>2 DEF Go, Fail
  <2>6. pc' \in [Thread -> Place]
    BY <2>5 DEF Place
  <2>7. \A q \in Thread : InWorkspace(q)' <=> InWorkspace(q)
    BY <1>4, <2>1, <2>5 DEF DecodePartial, InWorkspace
  <2>8. \A q \in Thread \ {p} : t'[q] = t[q]
    BY <2>2
  <2>9. KindInv'
    BY <1>4, <2>1, <2>5, <2>8 DEF DecodePartial, KindInv
  <2> QED  BY <1>4, <2>4, <2>6, <2>7, <2>9 DEF DecodePartial
<1>5. CASE DecodeFinal(p)
  <2>1. \/ result' = [result EXCEPT ![p] = f32] /\ Go(p, "record") /\ UNCHANGED category
        \/ UNCHANGED result /\ \E c \in 1 .. 4 : Fail(p, "unwind", c)
    BY <1>5 DEF DecodeFinal
  <2>2. result' \in [Thread -> [Step -> Call]] /\ category' \in [Thread -> 0 .. 4]
    <3>1. category' \in [Thread -> 0 .. 4]
      BY <2>1, CategoryType
    <3>2. result' \in [Thread -> [Step -> Call]]
      BY <2>1
    <3> QED  BY <3>1, <3>2
  <2>3. PICK place \in {"record", "unwind"} : pc' = [pc EXCEPT ![p] = place]
    BY <2>1 DEF Go, Fail
  <2>4. pc' \in [Thread -> Place]
    BY <2>3 DEF Place
  <2>5. pc[p] = "final" /\ kind[p] = "steps"
    BY <1>5 DEF DecodeFinal, KindInv
  <2>6. \A q \in Thread : InWorkspace(q)' <=> InWorkspace(q)
    BY <1>5, <2>3, <2>5 DEF DecodeFinal, InWorkspace
  <2>7. KindInv'
    BY <1>5, <2>3, <2>5 DEF DecodeFinal, KindInv
  <2> QED  BY <1>5, <2>2, <2>4, <2>6, <2>7 DEF DecodeFinal
<1>6. CASE Unwind(p) \/ Unlock(p)
  <2>1. PICK place \in {"setError", "idle"} : pc' = [pc EXCEPT ![p] = place]
    BY <1>6 DEF Unwind, Unlock, Return, Go
  <2>2. Forget(p) /\ holder' = {} /\ pc[p] \in {"unwind", "unlock"}
    BY <1>6 DEF Unwind, Unlock
  <2>3. t' \in [Thread -> Step] /\ seen' \in [Thread -> [Step -> Beams]]
          /\ result' \in [Thread -> [Step -> Call]] /\ pc' \in [Thread -> Place]
    BY <2>1, <2>2 DEF Forget, Place
  <2>4. InWorkspace(p) /\ \A q \in Thread \ {p} : ~InWorkspace(q)
    BY <2>2 DEF InWorkspace
  <2>5. UNCHANGED <<n, kind, id, category, f32, i32, globalError, lastError, stats>>
    BY <1>6 DEF Unwind, Unlock
  <2>6. \A q \in Thread : ~InWorkspace(q)'
    BY <2>1, <2>4, <2>5 DEF InWorkspace
  <2>7. \A q \in Thread \ {p} : t'[q] = t[q]
    BY <2>2 DEF Forget
  <2>8. KindInv'
    BY <2>1, <2>5, <2>7 DEF KindInv
  <2> QED  BY <2>2, <2>3, <2>5, <2>6, <2>8
<1> QED  BY <1>1, <1>2, <1>3, <1>4, <1>5, <1>6 DEF ModelStep

\* Every step of every thread keeps the types.
LEMMA StepTypeInv == TypeInv /\ [Next]_vars => TypeInv'
<1> SUFFICES ASSUME TypeInv, [Next]_vars PROVE TypeInv'
  OBVIOUS
<1>1. CASE UNCHANGED vars
  BY <1>1 DEF vars, callVars, stepVars, workspace, report, TypeInv, TypeOK, KindInv, InWorkspace
<1>2. CASE Next
  BY <1>2, BeginTypeInv, CallTypeInv, ModelTypeInv DEF Next, CallStep
<1> QED  BY <1>1, <1>2

\* The calls of the C API keep their types, and at most one thread is in the
\* workspace: exactly the one that has its lock.
THEOREM HandleTypeOK == Spec => []TypeOK
<1>1. Spec => []TypeInv
  BY InitTypeInv, StepTypeInv, PTL DEF Spec
<1>2. TypeInv => TypeOK
  BY DEF TypeInv
<1> QED  BY <1>1, <1>2, PTL

-----------------------------------------------------------------------------
(***************************************************************************)
(* A model-step decode between lock and unlock.                            *)
(***************************************************************************)

\* The rows are those of p's own model.
Own(p) == \A s \in Step : f32[s] \in {id[p], NoCall}

\* Up to step m the model has seen the beams of the rows as they are now.
SeenTo(p, m) == \A s \in 0 .. m : seen[p][s] = Prefix(f32, s)

\* A decode outside its loop is at step 0.
Outside == {"idle", "work", "reset", "lock", "setError", "markError"}

Progress(p) ==
  /\ pc[p] \in Outside \/ kind[p] # "steps" => t[p] = 0
  /\ pc[p] = "call" => Own(p) /\ SeenTo(p, t[p] - 1) /\ i32 = Prefix(f32, t[p])
  /\ pc[p] \in {"model", "partial", "final"} => Own(p) /\ SeenTo(p, t[p])

RowsInv == ModelFollowsResult /\ \A p \in Thread : Progress(p)

\* A thread keeps its progress while others leave its call and its rows alone.
LEMMA OthersKeep ==
  ASSUME NEW q \in Thread, Progress(q),
         UNCHANGED <<pc[q], kind[q], id[q], t[q], seen[q]>>,
         UNCHANGED <<f32, i32>> \/ ~InWorkspace(q)
  PROVE  Progress(q)'
<1>1. CASE UNCHANGED <<f32, i32>>
  BY <1>1 DEF Progress, Own, SeenTo, Prefix
<1>2. CASE ~InWorkspace(q)
  BY <1>2 DEF Progress, InWorkspace
<1> QED  BY <1>1, <1>2

\* Nobody is in a call at first.
LEMMA InitRowsInv == Init => RowsInv
BY DEF Init, RowsInv, ModelFollowsResult, Progress, Outside

\* Begin.
LEMMA BeginRowsInv ==
  ASSUME TypeInv, RowsInv, NEW p \in Thread, Begin(p)
  PROVE  RowsInv'
<1> USE DEF TypeInv, TypeOK, RowsInv, Begin, stepVars, workspace
<1>1. PICK place \in {"lock", "reset", "work", "setError"} : pc' = [pc EXCEPT ![p] = place]
  BY DEF Kind, Fail, Go
<1>2. /\ pc'[p] \in Outside /\ t'[p] = 0 /\ pc[p] = "idle"
      /\ \A q \in Thread \ {p} : UNCHANGED <<pc[q], kind[q], id[q], t[q], seen[q]>>
  BY <1>1 DEF Progress, Outside
<1>3. \A q \in Thread \ {p} : Progress(q)'
  BY <1>2, OthersKeep
<1>4. Progress(p)'
  BY <1>2 DEF Progress, Outside
<1>5. ModelFollowsResult'
  BY <1>1, <1>2 DEF ModelFollowsResult, Outside
<1> QED  BY <1>3, <1>4, <1>5

\* Steps outside the workspace, and those that report.
LEMMA CallRowsInv ==
  ASSUME TypeInv, RowsInv, NEW p \in Thread,
         \/ Work(p) \/ Record(p) \/ AddBytes(p) \/ ClearError(p) \/ SetError(p)
         \/ MarkError(p) \/ ResetStats(p)
  PROVE  RowsInv'
<1> USE DEF TypeInv, TypeOK, RowsInv, callVars, stepVars, workspace
<1>1. UNCHANGED <<n, kind, id, t, seen, result, holder, f32, i32>>
  BY DEF Work, Record, AddBytes, ClearError, SetError, MarkError, ResetStats
<1>2. PICK place \in {"record", "addBytes", "clearError", "unlock", "setError", "markError", "idle"} :
        /\ pc' = [pc EXCEPT ![p] = place]
        /\ place \in {"addBytes", "clearError", "record"} /\ kind[p] = "steps"
             => pc[p] \in {"record", "addBytes"}
        /\ place \in Outside => pc[p] \in Outside \/ kind[p] # "steps"
  <2>1. CASE Work(p)
    BY <2>1 DEF Work, Go, Fail, KindInv, Outside
  <2>2. CASE Record(p)
    BY <2>2 DEF Record, Go, Outside
  <2>3. CASE AddBytes(p)
    BY <2>3 DEF AddBytes, Go, Outside
  <2>4. CASE ClearError(p)
    BY <2>4 DEF ClearError, Return, Go, Outside
  <2>5. CASE SetError(p)
    BY <2>5 DEF SetError, Go, Outside
  <2>6. CASE MarkError(p) \/ ResetStats(p)
    BY <2>6 DEF MarkError, ResetStats, Return, Go, Outside
  <2> QED  BY <2>1, <2>2, <2>3, <2>4, <2>5, <2>6
<1>3. \A q \in Thread \ {p} : Progress(q)'
  BY <1>1, <1>2, OthersKeep
<1>4. Progress(p)'
  BY <1>1, <1>2 DEF Progress, Outside
<1>5. ModelFollowsResult'
  BY <1>1, <1>2 DEF ModelFollowsResult, Prefix
<1> QED  BY <1>3, <1>4, <1>5

\* A prefix of rows does not depend on the later ones.
LEMMA PrefixKeeps ==
  ASSUME NEW m \in Nat, NEW row, m < T,
         f32 \in [Step -> Call], f32' = [f32 EXCEPT ![m] = row]
  PROVE  \A s \in 0 .. m : Prefix(f32', s) = Prefix(f32, s)
<1> SUFFICES ASSUME NEW s \in 0 .. m PROVE Prefix(f32', s) = Prefix(f32, s)
  OBVIOUS
<1>1. \A r \in 0 .. s - 1 : r \in Step /\ f32'[r] = f32[r]
  BY HandleAssumption DEF Step
<1> QED  BY <1>1 DEF Prefix

\* The last of the steps up to m, and of all steps.
LEMMA LastStep ==
  ASSUME NEW m \in Nat
  PROVE  /\ \A s \in 0 .. m : s = m \/ s \in 0 .. m - 1
         /\ m + 1 = T => Step = 0 .. m
BY HandleAssumption DEF Step

\* Steps of a model-step decode: the rows of its model reach the result, and
\* nobody else touches them.
LEMMA ModelRowsInv ==
  ASSUME TypeInv, RowsInv, NEW p \in Thread, ModelStep(p)
  PROVE  RowsInv'
<1> USE HandleAssumption DEF TypeInv, TypeOK, RowsInv, callVars, stepVars, workspace
<1>0. /\ id[p] \in Call /\ t[p] \in Step /\ t[p] \in Nat /\ t[p] < T /\ T \in Nat
      /\ Progress(p)
  BY DEF Step
<1>1. CASE LockWorkspace(p)
  <2>1. PICK place \in {"call", "unwind"} :
          /\ pc' = [pc EXCEPT ![p] = place]
          /\ place = "call" => f32' = NoRows /\ i32' = NoBeams
    BY <1>1 DEF LockWorkspace, Cleared, Go, Fail
  <2>2. /\ UNCHANGED <<n, kind, id, t, seen, result>>
        /\ pc[p] = "lock" /\ \A q \in Thread : ~InWorkspace(q)
    BY <1>1 DEF LockWorkspace
  <2>3. \A q \in Thread \ {p} : Progress(q)'
    BY <2>1, <2>2, OthersKeep
  <2>4. t[p] = 0
    BY <1>0, <2>2 DEF Progress, Outside
  <2>5. Progress(p)'
    <3>1. CASE place = "call"
      <4>1. Own(p)' /\ i32' = Prefix(f32', 0)
        BY <2>1, <3>1 DEF Own, NoRows, NoBeams
      <4>2. SeenTo(p, t[p] - 1)'
        BY <2>2, <2>4 DEF SeenTo
      <4> QED  BY <2>1, <2>2, <2>4, <3>1, <4>1, <4>2 DEF Progress
    <3>2. CASE place = "unwind"
      BY <2>1, <2>2, <2>4, <3>2 DEF Progress
    <3> QED  BY <3>1, <3>2
  <2>6. ModelFollowsResult'
    BY <2>1, <2>2 DEF ModelFollowsResult
  <2> QED  BY <2>3, <2>5, <2>6
<1>2. CASE CallModel(p)
  <2>1. /\ UNCHANGED <<n, kind, id, t, result, holder, f32, i32>>
        /\ pc[p] = "call" /\ pc' = [pc EXCEPT ![p] = "model"]
        /\ seen' = [seen EXCEPT ![p][t[p]] = i32]
    BY <1>2 DEF CallModel, Go
  <2>2. \A q \in Thread \ {p} : Progress(q)'
    BY <2>1, OthersKeep
  <2>3. Own(p)'
    BY <1>0, <2>1 DEF Progress, Own
  <2>4. \A s \in 0 .. t[p] : seen'[p][s] = Prefix(f32, s)
    <3> SUFFICES ASSUME NEW s \in 0 .. t[p] PROVE seen'[p][s] = Prefix(f32, s)
      OBVIOUS
    <3>1. CASE s = t[p]
      BY <1>0, <2>1, <3>1 DEF Progress
    <3>2. CASE s \in 0 .. t[p] - 1
      BY <1>0, <2>1, <3>2 DEF Progress, SeenTo
    <3>3. s = t[p] \/ s \in 0 .. t[p] - 1
      BY <1>0, LastStep
    <3> QED  BY <3>1, <3>2, <3>3
  <2>5. SeenTo(p, t[p])'
    BY <2>1, <2>4 DEF SeenTo
  <2>6. Progress(p)'
    BY <1>0, <2>1, <2>3, <2>5, TypeInv DEF Progress, KindInv, Outside
  <2>7. ModelFollowsResult'
    BY <2>1 DEF ModelFollowsResult
  <2> QED  BY <2>2, <2>6, <2>7
<1>3. CASE ModelReturns(p)
  <2>1. PICK place \in {"partial", "final", "unwind"} : pc' = [pc EXCEPT ![p] = place]
    BY <1>3 DEF ModelReturns, Go, Fail
  <2>2. /\ UNCHANGED <<n, kind, id, t, seen, result, holder, i32>> /\ pc[p] = "model"
        /\ f32' = [f32 EXCEPT ![t[p]] = id[p]] \/ f32' = f32
    BY <1>3 DEF ModelReturns
  <2>3. \A q \in Thread \ {p} : ~InWorkspace(q)
    BY <2>2 DEF InWorkspace
  <2>4. \A q \in Thread \ {p} : Progress(q)'
    BY <2>1, <2>2, <2>3, OthersKeep
  <2>5. Own(p)'
    BY <1>0, <2>2 DEF Progress, Own
  <2>6. \A s \in 0 .. t[p] : Prefix(f32', s) = Prefix(f32, s)
    BY <1>0, <2>2, PrefixKeeps
  <2>7. SeenTo(p, t[p])'
    BY <1>0, <2>2, <2>6 DEF Progress, SeenTo
  <2>8. kind[p] = "steps"
    BY <2>2 DEF KindInv
  <2>9. Progress(p)'
    BY <2>1, <2>2, <2>5, <2>7, <2>8 DEF Progress, Outside
  <2>10. ModelFollowsResult'
    BY <2>1, <2>2 DEF ModelFollowsResult
  <2> QED  BY <2>4, <2>9, <2>10
<1>4. CASE DecodePartial(p)
  <2>1. PICK place \in {"call", "unwind"} :
          /\ pc' = [pc EXCEPT ![p] = place]
          /\ place = "call" => /\ i32' = Prefix(f32, t[p] + 1)
                               /\ t' = [t EXCEPT ![p] = @ + 1]
          /\ place = "unwind" => UNCHANGED <<i32, t>>
    BY <1>4 DEF DecodePartial, Go, Fail
  <2>2. /\ UNCHANGED <<n, kind, id, seen, result, holder, f32>> /\ pc[p] = "partial"
        /\ kind[p] = "steps"
    BY <1>4 DEF DecodePartial, KindInv
  <2>3. \A q \in Thread \ {p} : ~InWorkspace(q)
    BY <2>2 DEF InWorkspace
  <2>4. \A q \in Thread \ {p} : t'[q] = t[q]
    BY <2>1
  <2>5. \A q \in Thread \ {p} : Progress(q)'
    BY <2>1, <2>2, <2>3, <2>4, OthersKeep
  <2>6. Own(p)' /\ SeenTo(p, t[p])
    BY <1>0, <2>2 DEF Progress, Own
  <2>7. Progress(p)'
    <3>1. CASE place = "call"
      <4>1. t'[p] = t[p] + 1 /\ t'[p] - 1 = t[p]
        BY <1>0, <2>1, <3>1
      <4>2. SeenTo(p, t[p] - 1)'
        BY <2>2, <2>6, <4>1 DEF SeenTo
      <4>3. i32' = Prefix(f32', t'[p])
        BY <2>1, <2>2, <3>1, <4>1
      <4> QED  BY <2>1, <2>2, <2>6, <3>1, <4>2, <4>3 DEF Progress, Outside
    <3>2. CASE place = "unwind"
      BY <2>1, <2>2, <3>2 DEF Progress, Outside
    <3> QED  BY <3>1, <3>2
  <2>8. ModelFollowsResult'
    BY <2>1, <2>2 DEF ModelFollowsResult
  <2> QED  BY <2>5, <2>7, <2>8
<1>5. CASE DecodeFinal(p)
  <2>1. PICK place \in {"record", "unwind"} :
          /\ pc' = [pc EXCEPT ![p] = place]
          /\ place = "record" => result' = [result EXCEPT ![p] = f32]
          /\ place = "unwind" => UNCHANGED result
    BY <1>5 DEF DecodeFinal, Go, Fail
  <2>2. /\ UNCHANGED <<n, kind, id, t, seen, holder, f32, i32>> /\ pc[p] = "final"
        /\ kind[p] = "steps" /\ t[p] + 1 = T
    BY <1>5 DEF DecodeFinal, KindInv
  <2>3. \A q \in Thread \ {p} : Progress(q)'
    BY <2>1, <2>2, OthersKeep
  <2>4. Progress(p)'
    BY <2>1, <2>2 DEF Progress, Outside
  <2>5. Own(p) /\ SeenTo(p, t[p])
    BY <1>0, <2>2 DEF Progress
  <2>6. Step = 0 .. t[p]
    BY <1>0, <2>2, LastStep
  <2>7. ASSUME NEW q \in Thread, kind'[q] = "steps",
               pc'[q] \in {"record", "addBytes", "clearError"}
        PROVE  /\ \A s \in Step : result'[q][s] \in {id'[q], NoCall}
               /\ \A s \in Step : seen'[q][s] = Prefix(result'[q], s)
    <3>1. CASE q = p
      <4>1. result'[p] = f32
        BY <2>1, <2>7, <3>1
      <4> QED  BY <2>2, <2>5, <2>6, <3>1, <4>1 DEF Own, SeenTo
    <3>2. CASE q # p
      <4>1. result'[q] = result[q] /\ pc'[q] = pc[q]
        BY <2>1, <3>2
      <4> QED  BY <2>2, <2>7, <4>1 DEF ModelFollowsResult
    <3> QED  BY <3>1, <3>2
  <2> QED  BY <2>3, <2>4, <2>7 DEF ModelFollowsResult
<1>6. CASE Unwind(p) \/ Unlock(p)
  <2>1. PICK place \in {"setError", "idle"} : pc' = [pc EXCEPT ![p] = place]
    BY <1>6 DEF Unwind, Unlock, Return, Go
  <2>2. Forget(p) /\ UNCHANGED <<n, kind, id, f32, i32>>
    BY <1>6 DEF Unwind, Unlock
  <2>3. t'[p] = 0 /\ \A q \in Thread \ {p} :
          UNCHANGED <<pc[q], kind[q], id[q], t[q], seen[q], result[q]>>
    BY <2>1, <2>2 DEF Forget
  <2>4. \A q \in Thread \ {p} : Progress(q)'
    BY <2>2, <2>3, OthersKeep
  <2>5. Progress(p)'
    BY <2>1, <2>3 DEF Progress
  <2>6. ModelFollowsResult'
    BY <2>1, <2>3 DEF ModelFollowsResult
  <2> QED  BY <2>4, <2>5, <2>6
<1> QED  BY <1>1, <1>2, <1>3, <1>4, <1>5, <1>6 DEF ModelStep

\* Every step of every thread keeps the rows and what the models saw of them.
LEMMA StepRowsInv == TypeInv /\ RowsInv /\ [Next]_vars => RowsInv'
<1> SUFFICES ASSUME TypeInv, RowsInv, [Next]_vars PROVE RowsInv'
  OBVIOUS
<1>1. CASE UNCHANGED vars
  <2>1. \A q \in Thread : Progress(q)'
    BY <1>1, OthersKeep DEF vars, callVars, stepVars, workspace, RowsInv
  <2>2. ModelFollowsResult'
    BY <1>1 DEF vars, callVars, stepVars, RowsInv, ModelFollowsResult
  <2> QED  BY <2>1, <2>2 DEF RowsInv
<1>2. CASE Next
  BY <1>2, BeginRowsInv, CallRowsInv, ModelRowsInv DEF Next, CallStep
<1> QED  BY <1>1, <1>2

\* Whatever other threads and earlier calls do, a model-step decode is computed
\* from rows of its own model, which was shown every prefix of them.
THEOREM HandleModelFollowsResult == Spec => []ModelFollowsResult
<1>1. Spec => [](TypeInv /\ RowsInv)
  BY InitTypeInv, InitRowsInv, StepTypeInv, StepRowsInv, PTL DEF Spec
<1>2. RowsInv => ModelFollowsResult
  BY DEF RowsInv
<1> QED  BY <1>1, <1>2, PTL

-----------------------------------------------------------------------------
(***************************************************************************)
(* What the handle reports.  A thread's own message needs nobody else; the *)
(* handle's message, category and statistics are written in three separate *)
(* critical sections, and belong together only if the call was alone.      *)
(***************************************************************************)

\* What a call has failed with and, once it has told its thread, the message.
Told(p) ==
  /\ pc[p] \in {"setError", "unwind", "markError"} => category[p] > 0 /\ kind[p] # "reset"
  /\ pc[p] \notin {"setError", "unwind", "markError", "idle"} => category[p] = 0
  /\ pc[p] = "reset" => kind[p] = "reset"
  /\ pc[p] \in {"record", "clearError"} => kind[p] # "reset"
  /\ pc[p] = "markError" => globalError[p] = id[p]
  /\ pc[p] = "unlock" => globalError[p] = NoCall
  /\ pc[p] = "idle" /\ id[p] > 0 /\ kind[p] # "reset" =>
       globalError[p] = IF category[p] = 0 THEN NoCall ELSE id[p]

\* The statistics are those of a call of this kind that succeeded.
Counted(k, c) ==
  /\ stats.category = 0
  /\ k = "backward" => stats.backward = c
  /\ k # "backward" => stats.decode = c
  /\ k = "decode" => stats.bytes = {<<c, "result">>}
  /\ k = "steps" => stats.bytes = {<<c, "result">>, <<c, "workspace">>}

\* What a call has written to the handle if no other has met it.
Written(p) ==
  alone[p] /\ pc[p] # "idle" =>
    /\ \A q \in Thread \ {p} : pc[q] = "idle"
    /\ pc[p] = "addBytes" => /\ stats.category = 0 /\ stats.decode = id[p]
                             /\ stats.bytes = {<<id[p], "result">>}
    /\ pc[p] \in {"clearError", "unlock"} => Counted(kind[p], id[p])
    /\ pc[p] = "unlock" => lastError = NoCall
    /\ pc[p] = "markError" => lastError = id[p]

LastTold ==
  (\A p \in Thread : pc[p] = "idle") /\ last.alone => ReportOf(last)

ReportInv == LastTold /\ \A p \in Thread : Told(p) /\ Written(p)

LEMMA OthersTold ==
  ASSUME NEW q \in Thread, Told(q),
         UNCHANGED <<pc[q], kind[q], id[q], category[q], globalError[q]>>
  PROVE  Told(q)'
BY DEF Told

\* While p is in a call, no other call is alone.
LEMMA OthersWritten ==
  ASSUME NEW p \in Thread, pc[p] # "idle", NEW q \in Thread \ {p}, Written(q),
         UNCHANGED <<pc[q], alone[q]>>
  PROVE  Written(q)'
BY DEF Written

\* Nothing has been reported at first.
LEMMA InitReportInv == Init => ReportInv
<1> SUFFICES ASSUME Init PROVE ReportInv
  OBVIOUS
<1>1. LastTold
  BY DEF Init, LastTold, ReportOf
<1>2. \A p \in Thread : Told(p) /\ Written(p)
  BY DEF Init, Told, Written, NoCall
<1> QED  BY <1>1, <1>2 DEF ReportInv

\* Begin: every call under way has now met another.
LEMMA BeginReportInv ==
  ASSUME TypeInv, ReportInv, NEW p \in Thread, Begin(p)
  PROVE  ReportInv'
<1> USE DEF TypeInv, TypeOK, Begin, report
<1>1. PICK k \in Kind, place \in {"lock", "reset", "work", "setError"}, cat \in {0, 1} :
        /\ kind' = [kind EXCEPT ![p] = k]
        /\ pc' = [pc EXCEPT ![p] = place] /\ category' = [category EXCEPT ![p] = cat]
        /\ place = "setError" => cat = 1 /\ k # "reset"
        /\ place # "setError" => cat = 0
        /\ place = "reset" => k = "reset"
  BY DEF Kind, Fail, Go
<1>2. /\ pc[p] = "idle" /\ pc'[p] = place /\ kind'[p] = k /\ category'[p] = cat
      /\ \A q \in Thread \ {p} :
           UNCHANGED <<pc[q], kind[q], id[q], category[q], globalError[q]>>
  BY <1>1
<1>3. LastTold'
  BY <1>2 DEF LastTold
<1>4. Told(p)'
  BY <1>1, <1>2 DEF Told
<1>5. \A q \in Thread \ {p} : Told(q)'
  BY <1>2, OthersTold DEF ReportInv
<1>6. alone'[p] = \A q \in Thread \ {p} : pc[q] = "idle"
  OBVIOUS
<1>7. Written(p)'
  BY <1>1, <1>2, <1>6 DEF Written
<1>8. ASSUME NEW q \in Thread \ {p} PROVE Written(q)'
  <2>1. alone'[q] = (alone[q] /\ pc[q] = "idle")
    OBVIOUS
  <2> QED  BY <1>2, <2>1 DEF Written
<1> QED  BY <1>3, <1>4, <1>5, <1>7, <1>8 DEF ReportInv

\* A step of p alone, in a call that goes on, is judged by p alone.
LEMMA StepOf ==
  ASSUME TypeInv, ReportInv, NEW p \in Thread, pc[p] # "idle",
         NEW place, pc' = [pc EXCEPT ![p] = place],
         UNCHANGED <<kind, id, alone>>,
         \A q \in Thread \ {p} : UNCHANGED <<category[q], globalError[q]>>,
         Told(p)', Written(p)', LastTold' \/ place # "idle"
  PROVE  ReportInv'
<1> USE DEF TypeInv, TypeOK, ReportInv
<1>1. pc'[p] = place /\ \A q \in Thread \ {p} : UNCHANGED <<pc[q], kind[q], id[q], alone[q]>>
  OBVIOUS
<1>2. \A q \in Thread \ {p} : Told(q)'
  BY <1>1, OthersTold
<1>3. \A q \in Thread \ {p} : Written(q)'
  BY <1>1, OthersWritten
<1>4. LastTold'
  BY <1>1 DEF LastTold
<1> QED  BY <1>2, <1>3, <1>4

\* Steps that do not report: the category says whether the call has failed.
LEMMA WorkReportInv ==
  ASSUME TypeInv, ReportInv, NEW p \in Thread,
         \/ Work(p) \/ LockWorkspace(p) \/ CallModel(p) \/ ModelReturns(p)
         \/ DecodePartial(p) \/ DecodeFinal(p) \/ Unwind(p)
  PROVE  ReportInv'
<1> USE DEF TypeInv, TypeOK, callVars, stepVars, workspace, report
<1>1. UNCHANGED <<kind, id, alone, globalError, lastError, stats, last>>
  BY DEF Work, LockWorkspace, CallModel, ModelReturns, DecodePartial, DecodeFinal, Unwind
<1>2. PICK place \in {"record", "setError", "call", "unwind", "model", "partial", "final"},
           cat \in 0 .. 4 :
        /\ pc' = [pc EXCEPT ![p] = place]
        /\ category' = [category EXCEPT ![p] = cat]
        /\ place \in {"setError", "unwind"} <=> cat > 0
        /\ pc[p] \in {"work", "lock", "call", "model", "partial", "final", "unwind"}
        /\ pc[p] # "work" => kind[p] = "steps"
        /\ kind[p] # "reset"
  <2>1. category[p] \in 0 .. 4 /\ category = [category EXCEPT ![p] = category[p]]
        /\ \A c \in Throws : c \in 1 .. 4
    BY HandleAssumption
  <2>2. Told(p) /\ (pc[p] = "work" => kind[p] # "reset")
        /\ (pc[p] \in {"lock", "call", "model", "partial", "final", "unwind"}
              => kind[p] = "steps")
    BY DEF ReportInv, KindInv
  <2>3. CASE Work(p)
    <3>1. CASE Go(p, "record") /\ UNCHANGED category
      BY <2>1, <2>2, <2>3, <3>1 DEF Work, Go, Told
    <3>2. CASE \E c \in Throws : Fail(p, "setError", c)
      <4>1. PICK c \in 1 .. 4 : Fail(p, "setError", c)
        BY <2>1, <3>2
      <4>2. c > 0 /\ c \in 0 .. 4
        OBVIOUS
      <4> QED  BY <2>2, <2>3, <4>1, <4>2 DEF Work, Fail, Go
    <3> QED  BY <2>3, <3>1, <3>2 DEF Work
  <2>4. CASE LockWorkspace(p)
    <3>1. CASE Go(p, "call") /\ UNCHANGED category
      BY <2>1, <2>2, <2>4, <3>1 DEF LockWorkspace, Go, Told
    <3>2. CASE Fail(p, "unwind", 3)
      BY <2>1, <2>2, <2>4, <3>2 DEF LockWorkspace, Fail, Go, Told
    <3> QED  BY <2>4, <3>1, <3>2 DEF LockWorkspace
  <2>5. CASE CallModel(p)
    BY <2>1, <2>2, <2>5 DEF CallModel, Go, Told
  <2>6. CASE ModelReturns(p)
    <3>1. CASE Fail(p, "unwind", 2)
      BY <2>1, <2>2, <2>6, <3>1 DEF ModelReturns, Fail, Go, Told
    <3>2. CASE Go(p, IF t[p] + 1 < T THEN "partial" ELSE "final") /\ UNCHANGED category
      <4>1. CASE t[p] + 1 < T
        BY <2>1, <2>2, <2>6, <3>2, <4>1 DEF ModelReturns, Go, Told
      <4>2. CASE ~(t[p] + 1 < T)
        BY <2>1, <2>2, <2>6, <3>2, <4>2 DEF ModelReturns, Go, Told
      <4> QED  BY <4>1, <4>2
    <3> QED  BY <2>6, <3>1, <3>2 DEF ModelReturns
  <2>7. CASE DecodePartial(p)
    <3>1. CASE Go(p, "call") /\ UNCHANGED category
      BY <2>1, <2>2, <2>7, <3>1 DEF DecodePartial, Go, Told
    <3>2. CASE \E c \in Throws : Fail(p, "unwind", c)
      <4>1. PICK c \in 1 .. 4 : Fail(p, "unwind", c)
        BY <2>1, <3>2
      <4>2. c > 0 /\ c \in 0 .. 4
        OBVIOUS
      <4> QED  BY <2>2, <2>7, <4>1, <4>2 DEF DecodePartial, Fail, Go
    <3> QED  BY <2>7, <3>1, <3>2 DEF DecodePartial
  <2>8. CASE DecodeFinal(p)
    <3>1. CASE Go(p, "record") /\ UNCHANGED category
      BY <2>1, <2>2, <2>8, <3>1 DEF DecodeFinal, Go, Told
    <3>2. CASE \E c \in Throws : Fail(p, "unwind", c)
      <4>1. PICK c \in 1 .. 4 : Fail(p, "unwind", c)
        BY <2>1, <3>2
      <4>2. c > 0 /\ c \in 0 .. 4
        OBVIOUS
      <4> QED  BY <2>2, <2>8, <4>1, <4>2 DEF DecodeFinal, Fail, Go
    <3> QED  BY <2>8, <3>1, <3>2 DEF DecodeFinal
  <2>9. CASE Unwind(p)
    BY <2>1, <2>2, <2>9 DEF Unwind, Go, Told
  <2> QED  BY <2>3, <2>4, <2>5, <2>6, <2>7, <2>8, <2>9
<1>3. pc'[p] = place /\ category'[p] = cat
  BY <1>2
<1>4. Told(p)'
  BY <1>1, <1>2, <1>3 DEF Told
<1>5. Written(p)'
  BY <1>1, <1>2, <1>3 DEF ReportInv, Written
<1> QED  BY <1>1, <1>2, <1>4, <1>5, StepOf

\* A success: the statistics, then the message.
LEMMA SuccessReportInv ==
  ASSUME TypeInv, ReportInv, NEW p \in Thread,
         Record(p) \/ AddBytes(p) \/ ClearError(p) \/ Unlock(p)
  PROVE  ReportInv'
<1> USE DEF TypeInv, TypeOK, callVars, stepVars, workspace
<1>0. Told(p) /\ Written(p) /\ kind[p] \in Kind /\ stats \in Stats
  BY DEF ReportInv, Stats
<1>1. CASE Record(p)
  <2>1. PICK place \in {"addBytes", "clearError"} :
          /\ pc' = [pc EXCEPT ![p] = place]
          /\ place = "addBytes" <=> kind[p] = "steps"
    BY <1>1 DEF Record, Go
  <2>2. /\ UNCHANGED <<kind, id, alone, category, globalError, lastError, last>>
        /\ pc[p] = "record" /\ pc'[p] = place /\ stats' = Recorded(p)
    BY <1>1, <2>1 DEF Record
  <2>3. Told(p)'
    BY <1>0, <2>1, <2>2 DEF Told
  <2>4. Written(p)'
    <3>1. /\ stats'.category = 0
          /\ kind[p] = "backward" => stats'.backward = id[p]
          /\ kind[p] # "backward" => stats'.decode = id[p]
                                     /\ stats'.bytes = {<<id[p], "result">>}
      BY <2>2 DEF Recorded
    <3> QED  BY <1>0, <2>1, <2>2, <3>1 DEF Written, Counted, Kind
  <2> QED  BY <2>1, <2>2, <2>3, <2>4, StepOf
<1>2. CASE AddBytes(p)
  <2>1. /\ UNCHANGED <<kind, id, alone, category, globalError, lastError, last>>
        /\ pc[p] = "addBytes" /\ pc' = [pc EXCEPT ![p] = "clearError"]
        /\ pc'[p] = "clearError"
        /\ stats' = [stats EXCEPT !.bytes = @ \cup {<<id[p], "workspace">>}]
    BY <1>2 DEF AddBytes, Go
  <2>2. kind[p] = "steps"
    BY <2>1 DEF KindInv
  <2>3. Told(p)'
    BY <1>0, <2>1, <2>2 DEF Told
  <2>4. /\ stats'.category = stats.category /\ stats'.decode = stats.decode
        /\ stats'.bytes = stats.bytes \cup {<<id[p], "workspace">>}
    BY <1>0, <2>1 DEF Stats
  <2>5. Written(p)'
    BY <1>0, <2>1, <2>2, <2>4 DEF Written, Counted
  <2> QED  BY <2>1, <2>3, <2>5, StepOf
<1>3. CASE ClearError(p)
  <2>1. PICK place \in {"unlock", "idle"} :
          /\ pc' = [pc EXCEPT ![p] = place]
          /\ place = "unlock" <=> kind[p] = "steps"
          /\ place = "idle" => last' = [call |-> id[p], kind |-> kind[p],
                                        category |-> category[p], alone |-> alone[p]]
    BY <1>3 DEF ClearError, Return, Go
  <2>2. /\ UNCHANGED <<kind, id, alone, category, stats>> /\ lastError' = NoCall
        /\ pc[p] = "clearError" /\ pc'[p] = place
        /\ globalError' = [globalError EXCEPT ![p] = NoCall]
    BY <1>3, <2>1 DEF ClearError
  <2>3. category[p] = 0 /\ kind[p] # "reset" /\ globalError'[p] = NoCall
    BY <1>0, <2>2 DEF Told
  <2>4. Told(p)'
    BY <2>1, <2>2, <2>3 DEF Told
  <2>5. Written(p)'
    BY <1>0, <2>1, <2>2 DEF Written, Counted
  <2>6. LastTold' \/ place # "idle"
    <3> SUFFICES ASSUME place = "idle", last'.alone PROVE ReportOf(last)'
      BY DEF LastTold
    <3>1. alone[p] /\ Counted(kind[p], id[p])
      BY <1>0, <2>1, <2>2 DEF Written
    <3> QED  BY <2>1, <2>2, <2>3, <3>1 DEF ReportOf, Counted, Kind
  <2> QED  BY <2>1, <2>2, <2>4, <2>5, <2>6, StepOf
<1>4. CASE Unlock(p)
  <2>1. /\ UNCHANGED <<kind, id, alone, category, stats, lastError, globalError>>
        /\ pc[p] = "unlock" /\ pc' = [pc EXCEPT ![p] = "idle"] /\ pc'[p] = "idle"
        /\ last' = [call |-> id[p], kind |-> kind[p],
                    category |-> category[p], alone |-> alone[p]]
    BY <1>4 DEF Unlock, Return, Go, report
  <2>2. kind[p] = "steps" /\ category[p] = 0 /\ globalError[p] = NoCall
    BY <1>0, <2>1 DEF KindInv, Told
  <2>3. Told(p)'
    BY <2>1, <2>2 DEF Told
  <2>4. Written(p)'
    BY <2>1 DEF Written
  <2>5. LastTold'
    <3> SUFFICES ASSUME last'.alone PROVE ReportOf(last)'
      BY DEF LastTold
    <3>1. alone[p] /\ Counted(kind[p], id[p]) /\ lastError = NoCall
      BY <1>0, <2>1 DEF Written
    <3> QED  BY <2>1, <2>2, <3>1 DEF ReportOf, Counted
  <2> QED  BY <2>1, <2>3, <2>4, <2>5, StepOf
<1> QED  BY <1>1, <1>2, <1>3, <1>4

\* A failure: the message, then the category; and dbs_reset_stats.
LEMMA FailureReportInv ==
  ASSUME TypeInv, ReportInv, NEW p \in Thread,
         SetError(p) \/ MarkError(p) \/ ResetStats(p)
  PROVE  ReportInv'
<1> USE DEF TypeInv, TypeOK, callVars, stepVars, workspace
<1>0. Told(p) /\ Written(p) /\ stats \in Stats /\ category[p] \in 0 .. 4
  BY DEF ReportInv, Stats
<1>1. CASE SetError(p)
  <2>1. /\ UNCHANGED <<kind, id, alone, category, stats, last>> /\ lastError' = id[p]
        /\ pc[p] = "setError" /\ pc' = [pc EXCEPT ![p] = "markError"]
        /\ pc'[p] = "markError" /\ globalError'[p] = id[p]
        /\ \A q \in Thread \ {p} : UNCHANGED globalError[q]
    BY <1>1 DEF SetError, Go
  <2>2. Told(p)'
    BY <1>0, <2>1 DEF Told
  <2>3. Written(p)'
    BY <1>0, <2>1 DEF Written
  <2> QED  BY <2>1, <2>2, <2>3, StepOf
<1>2. CASE MarkError(p)
  <2>1. /\ UNCHANGED <<kind, id, alone, category, lastError, globalError>>
        /\ pc[p] = "markError" /\ pc' = [pc EXCEPT ![p] = "idle"] /\ pc'[p] = "idle"
        /\ stats' = [stats EXCEPT !.category = category[p]]
        /\ last' = [call |-> id[p], kind |-> kind[p],
                    category |-> category[p], alone |-> alone[p]]
    BY <1>2 DEF MarkError, Return, Go
  <2>2. /\ category[p] > 0 /\ kind[p] # "reset" /\ globalError[p] = id[p]
        /\ stats'.category = category[p]
    BY <1>0, <2>1 DEF Told, Stats
  <2>3. Told(p)'
    BY <1>0, <2>1, <2>2 DEF Told
  <2>4. Written(p)'
    BY <2>1 DEF Written
  <2>5. LastTold'
    <3> SUFFICES ASSUME last'.alone PROVE ReportOf(last)'
      BY DEF LastTold
    <3>1. alone[p] /\ lastError = id[p]
      BY <1>0, <2>1 DEF Written
    <3> QED  BY <1>0, <2>1, <2>2, <3>1 DEF ReportOf
  <2> QED  BY <2>1, <2>3, <2>4, <2>5, StepOf
<1>3. CASE ResetStats(p)
  <2>1. /\ UNCHANGED <<kind, id, alone, category, lastError, globalError>>
        /\ pc[p] = "reset" /\ pc' = [pc EXCEPT ![p] = "idle"] /\ pc'[p] = "idle"
        /\ stats' = NewStats /\ last'.kind = kind[p]
    BY <1>3 DEF ResetStats, Return, Go
  <2>2. kind[p] = "reset"
    BY <1>0, <2>1 DEF Told
  <2>3. Told(p)'
    BY <2>1, <2>2 DEF Told
  <2>4. Written(p)'
    BY <2>1 DEF Written
  <2>5. LastTold'
    BY <2>1, <2>2 DEF LastTold, ReportOf
  <2> QED  BY <2>1, <2>3, <2>4, <2>5, StepOf
<1> QED  BY <1>1, <1>2, <1>3

\* Every step of every thread keeps what has been reported.
LEMMA StepReportInv == TypeInv /\ ReportInv /\ [Next]_vars => ReportInv'
<1> SUFFICES ASSUME TypeInv, ReportInv, [Next]_vars PROVE ReportInv'
  OBVIOUS
<1>1. CASE UNCHANGED vars
  BY <1>1 DEF vars, callVars, report, ReportInv, LastTold, Told, Written, Counted, ReportOf
<1>2. CASE Next
  BY <1>2, BeginReportInv, WorkReportInv, SuccessReportInv, FailureReportInv
     DEF Next, CallStep, ModelStep
<1> QED  BY <1>1, <1>2

\* A call that met no other is reported truthfully by the handle, and every
\* call by the message of its own thread.
THEOREM HandleLastCallReported == Spec => []LastCallReported
<1>1. Spec => [](TypeInv /\ ReportInv)
  BY InitTypeInv, InitReportInv, StepTypeInv, StepReportInv, PTL DEF Spec
<1>2. ReportInv => LastCallReported
  BY DEF ReportInv, LastTold, Told, LastCallReported
<1> QED  BY <1>1, <1>2, PTL
=============================================================================
