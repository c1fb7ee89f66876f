---------------------------- MODULE CudaCallsProofs ----------------------------
(***************************************************************************)
(* Theorems about CudaCalls: for any number of calls, sizes, metadata and  *)
(* failures, the outputs of a decode are what dbs_cuda.h promises after    *)
(* status ok, the gradient is what the scatters so far owe it, the         *)
(* metadata check releases its device memory on every path and in time,    *)
(* and a failure of the runtime is never followed by success. The lemmas   *)
(* come in the order of the invariants: types, errors and the cell (IInv), *)
(* arguments and buffers (ShapeInv), contents (OutInv), entries and        *)
(* gradient (GradInv).                                                     *)
(***************************************************************************)
EXTENDS CudaCalls, SumProofs

-----------------------------------------------------------------------------
(***************************************************************************)
(* Types.                                                                  *)
(***************************************************************************)

Metadata == [steps : Int, beam : Int, eos : Int, min : Int]

ArgType ==
  [entry : Decodes \cup {"build", "scatter"}, beam : Int, meta : [Example -> Metadata],
   from : Nat, list : Seq([index : Int, value : Int])]

OpType == [kind : Kinds, call : Nat]
Status == {"ok", "invalid", "failed"}
InCheck == {"memset", "validate", "copy", "wait", "free"}
StatusKinds == {"memset", "validate", "copy"}

TypeInv ==
  /\ args \in Seq(ArgType)
  /\ results \in Seq(Status)
  /\ pc \in {"idle", "grid", "init", "launch", "finish", "sync", "malloc"} \cup InCheck
  /\ Len(args) = Len(results) + (IF pc = "idle" THEN 0 ELSE 1)
  /\ queue \in Seq(OpType)
  /\ err \in BOOLEAN /\ lastError \in BOOLEAN

\* A failed call has left its error behind, and so has the host's own err; a
\* call gets to wait for its stream only while there is no error.
ErrorInv ==
  /\ \A c \in DOMAIN results : results[c] = "failed" => lastError
  /\ err => lastError
  /\ pc = "sync" => ~lastError

\* The cell exists exactly within the check, and only then is it used.
CellInv ==
  /\ pc \in InCheck <=> cell # "none"
  /\ \A n \in DOMAIN queue : queue[n].kind \in StatusKinds => cell # "none"

IInv == TypeInv /\ ErrorInv /\ CellInv /\ FailureSticks

-----------------------------------------------------------------------------
(***************************************************************************)
(* Facts about calls and about the stream.                                 *)
(***************************************************************************)

LEMMA EmptySeq == \A S : <<>> \in Seq(S) /\ Len(<<>>) = 0 /\ DOMAIN <<>> = {}
  OBVIOUS

\* Whatever is called has the shape of a call.
LEMMA ArgumentsType ==
  ASSUME TypeInv, NEW a \in Arguments
  PROVE  a \in ArgType
<1>1. ASSUME a \in Requests  PROVE a \in ArgType
  <2>1. a = [entry |-> a.entry, beam |-> a.beam, meta |-> a.meta, from |-> 0, list |-> a.list]
    BY <1>1, RequestsAssumption DEF Call
  <2>2. a.entry \in Decodes \cup {"build", "scatter"}
    BY <1>1, RequestsAssumption
  <2>3. a.beam \in Int /\ a.meta \in [Example -> Metadata]
        /\ a.list \in Seq([index : Int, value : Int])
    BY <1>1, RequestsAssumption DEF Metadata
  <2> QED  BY <2>1, <2>2, <2>3 DEF ArgType
<1>2. ASSUME NEW c \in DOMAIN results, NEW entry \in {"build", "scatter"},
             c \in DOMAIN args, a = Call(entry, args[c].beam, args[c].meta, c, <<>>)
      PROVE  a \in ArgType
  <2>1. args[c] \in ArgType /\ c \in Nat
    BY <1>2 DEF TypeInv
  <2>2. <<>> \in Seq([index : Int, value : Int])
    OBVIOUS
  <2> QED  BY <1>2, <2>1, <2>2 DEF ArgType, Call
<1>3. DOMAIN results \subseteq DOMAIN args
  BY DEF TypeInv
<1> QED  BY <1>1, <1>2, <1>3 DEF Arguments, Usable

\* A result added to the results leaves the others as they are.
LEMMA ReturnKeeps ==
  ASSUME TypeInv, NEW status \in Status, results' = Append(results, status)
  PROVE  /\ results' \in Seq(Status)
         /\ Len(results') = Len(results) + 1
         /\ DOMAIN results' = DOMAIN results \cup {Len(results) + 1}
         /\ \A c \in DOMAIN results : results'[c] = results[c]
         /\ results'[Len(results) + 1] = status
<1>1. results \in Seq(Status) /\ Len(results) \in Nat /\ DOMAIN results = 1 .. Len(results)
  BY DEF TypeInv
<1>2. results' \in Seq(Status) /\ Len(results') = Len(results) + 1
  BY <1>1
<1>3. DOMAIN results' = 1 .. Len(results) + 1
  BY <1>2
<1> QED  BY <1>1, <1>2, <1>3

\* What is enqueued comes last.
LEMMA EnqueueKeeps ==
  ASSUME TypeInv, NEW kind \in Kinds, Enqueue(kind)
  PROVE  /\ queue' \in Seq(OpType)
         /\ \A n \in DOMAIN queue' :
              queue'[n].kind = kind \/ (n \in DOMAIN queue /\ queue'[n] = queue[n])
<1>1. Op(kind) \in OpType /\ Op(kind).kind = kind
  BY DEF TypeInv, Op, OpType
<1>2. queue \in Seq(OpType) /\ queue' = Append(queue, Op(kind))
  BY DEF TypeInv, Enqueue
<1> QED  BY <1>1, <1>2

\* The first operation advances or gives way to the next.
LEMMA AdvanceKeeps ==
  ASSUME TypeInv, queue # <<>>, NEW p, Advance(p)
  PROVE  /\ queue' \in Seq(OpType)
         /\ \A n \in DOMAIN queue' : \E m \in DOMAIN queue : queue'[n] = queue[m]
<1>1. queue \in Seq(OpType)
  BY DEF TypeInv
<1>2. CASE queue' = queue
  BY <1>1, <1>2
<1>3. CASE queue' = Tail(queue)
  <2>1. Tail(queue) \in Seq(OpType) /\ Len(Tail(queue)) = Len(queue) - 1
    BY <1>1
  <2>2. \A n \in 1 .. Len(queue) - 1 : Tail(queue)[n] = queue[n + 1]
    BY <1>1
  <2>3. DOMAIN queue = 1 .. Len(queue) /\ DOMAIN Tail(queue) = 1 .. Len(queue) - 1
    BY <1>1, <2>1
  <2> QED  BY <1>1, <1>3, <2>1, <2>2, <2>3
<1> QED  BY <1>2, <1>3 DEF Advance

-----------------------------------------------------------------------------
(***************************************************************************)
(* What a step leaves of the invariant.                                    *)
(***************************************************************************)

\* A result that owns up to an error, and is ok only when there is none.
LEMMA ReturnSafe ==
  ASSUME IInv, NEW status \in Status, results' = Append(results, status),
         \A c \in DOMAIN results : args'[c] = args[c],
         lastError => lastError', status = "failed" => lastError',
         status = "ok" =>
           \/ ~lastError
           \/ /\ args'[Len(results) + 1].entry = "scatter"
              /\ args'[Len(results) + 1].from = 0
              /\ args'[Len(results) + 1].list = <<>>
  PROVE  /\ results' \in Seq(Status) /\ Len(results') = Len(results) + 1
         /\ \A c \in DOMAIN results' : results'[c] = "failed" => lastError'
         /\ FailureSticks'
<1>1. /\ results' \in Seq(Status)
      /\ Len(results') = Len(results) + 1
      /\ DOMAIN results' = DOMAIN results \cup {Len(results) + 1}
      /\ \A c \in DOMAIN results : results'[c] = results[c]
      /\ results'[Len(results) + 1] = status
  BY ReturnKeeps DEF IInv
<1>2. \A c \in DOMAIN results : results[c] = "failed" => lastError
  BY DEF IInv, ErrorInv
<1>3. \A c \in DOMAIN results' : results'[c] = "failed" => lastError'
  BY <1>1, <1>2
<1>4. DOMAIN results = 1 .. Len(results) /\ Len(results) \in Nat
  BY DEF IInv, TypeInv
<1>5. ASSUME NEW c \in DOMAIN results', NEW d \in DOMAIN results',
             c < d, results'[c] = "failed", results'[d] = "ok"
      PROVE  args'[d].entry = "scatter" /\ args'[d].from = 0 /\ args'[d].list = <<>>
  <2>1. c \in DOMAIN results /\ results[c] = "failed"
    BY <1>1, <1>4, <1>5
  <2>2. CASE d \in DOMAIN results
    BY <1>1, <1>5, <2>1, <2>2 DEF IInv, FailureSticks
  <2>3. CASE d = Len(results) + 1
    BY <1>1, <1>2, <1>5, <2>1, <2>3
  <2> QED  BY <1>1, <1>5, <2>2, <2>3
<1>6. FailureSticks'
  BY <1>5 DEF FailureSticks
<1> QED  BY <1>1, <1>3, <1>6

\* Without a new result, an error may only be added.
LEMMA NoReturnSafe ==
  ASSUME IInv, results' = results, lastError => lastError',
         \A c \in DOMAIN results : args'[c] = args[c]
  PROVE  /\ \A c \in DOMAIN results' : results'[c] = "failed" => lastError'
         /\ FailureSticks'
<1>1. \A c \in DOMAIN results : results[c] = "failed" => lastError
  BY DEF IInv, ErrorInv
<1>2. FailureSticks
  BY DEF IInv
<1> QED  BY <1>1, <1>2 DEF FailureSticks

\* The device does not touch the host's state; it changes the cell only in an
\* operation of the check.
LEMMA DeviceSafe ==
  ASSUME IInv, UNCHANGED <<args, results, pc, err, lastError>>,
         queue # <<>>, NEW p, Advance(p),
         cell' = cell \/ (Head1.kind \in StatusKinds /\ cell' # "none")
  PROVE  IInv'
<1>1. /\ queue' \in Seq(OpType)
      /\ \A n \in DOMAIN queue' : \E m \in DOMAIN queue : queue'[n] = queue[m]
  BY AdvanceKeeps DEF IInv
<1>2. TypeInv'
  BY <1>1 DEF IInv, TypeInv
<1>3. ErrorInv'
  BY DEF IInv, ErrorInv
<1>4. 1 \in DOMAIN queue
  BY DEF IInv, TypeInv
<1>5. cell' # "none" <=> cell # "none"
  BY <1>4 DEF IInv, CellInv, Head1
<1>6. CellInv'
  BY <1>1, <1>5 DEF IInv, CellInv
<1>7. FailureSticks'
  BY NoReturnSafe
<1> QED  BY <1>2, <1>3, <1>6, <1>7 DEF IInv

\* An operation of the check that is submitted, or not, within it.
LEMMA CheckStepSafe ==
  ASSUME IInv, NEW kind \in StatusKinds, NEW at \in InCheck \ {"free"},
         NEW next \in InCheck, CheckStep(at, kind, next)
  PROVE  IInv'
<1>1. PICK ok \in BOOLEAN :
        Submit(kind, ok) /\ err' = IF kind = "validate" THEN lastError' ELSE ~ok
  BY DEF CheckStep
<1>2. /\ pc = at /\ pc' = IF err' THEN "free" ELSE next
      /\ UNCHANGED <<args, results, cell>>
  BY DEF CheckStep, memory
<1>3. /\ lastError' \in BOOLEAN /\ (lastError => lastError')
      /\ (err' => lastError') /\ err' \in BOOLEAN
  BY <1>1 DEF Submit, Api, IInv, TypeInv
<1>4. kind \in Kinds
  BY DEF StatusKinds, Kinds
<1>5. /\ queue' \in Seq(OpType)
      /\ \A n \in DOMAIN queue' :
           queue'[n].kind = kind \/ (n \in DOMAIN queue /\ queue'[n] = queue[n])
  <2>1. CASE ok
    BY <1>1, <1>4, <2>1, EnqueueKeeps DEF Submit, IInv
  <2>2. CASE ~ok
    BY <1>1, <2>2 DEF Submit, IInv, TypeInv
  <2> QED  BY <2>1, <2>2
<1>6. pc' \in InCheck /\ pc' # "idle" /\ pc' # "sync" /\ pc # "idle"
  BY <1>2 DEF InCheck
<1>7. TypeInv'
  BY <1>2, <1>3, <1>5, <1>6 DEF IInv, TypeInv
<1>8. ErrorInv' /\ FailureSticks'
  BY <1>2, <1>3, <1>6, NoReturnSafe DEF ErrorInv
<1>9. CellInv'
  BY <1>2, <1>5, <1>6 DEF IInv, CellInv
<1> QED  BY <1>7, <1>8, <1>9 DEF IInv

-----------------------------------------------------------------------------
(***************************************************************************)
(* The invariant, action by action.                                        *)
(***************************************************************************)

LEMMA InitInv == Init => IInv
<1> SUFFICES ASSUME Init  PROVE IInv
  OBVIOUS
<1>1. args = <<>> /\ results = <<>> /\ queue = <<>> /\ pc = "idle" /\ cell = "none"
      /\ err = FALSE /\ lastError = FALSE
  BY DEF Init
<1>2. TypeInv
  <2>1. args \in Seq(ArgType) /\ results \in Seq(Status) /\ queue \in Seq(OpType)
    BY <1>1, EmptySeq
  <2>2. Len(args) = Len(results) + 0
    BY <1>1, EmptySeq
  <2> QED  BY <1>1, <2>1, <2>2 DEF TypeInv
<1>3. ErrorInv /\ CellInv /\ FailureSticks
  BY <1>1, EmptySeq DEF ErrorInv, CellInv, FailureSticks, InCheck
<1> QED  BY <1>2, <1>3 DEF IInv

LEMMA BeginInv ==
  ASSUME IInv, NEW a \in Arguments, Begin(a)
  PROVE  IInv'
<1>1. /\ pc = "idle" /\ args' = Append(args, a) /\ err' = FALSE
      /\ UNCHANGED <<lastError, queue, cell>>
  BY DEF Begin, deviceVars
<1>2. /\ args \in Seq(ArgType) /\ a \in ArgType
      /\ Len(args) = Len(results) /\ Len(results) \in Nat
  <2>1. results \in Seq(Status)
    BY DEF IInv, TypeInv
  <2> QED  BY <1>1, <2>1, ArgumentsType DEF IInv, TypeInv
<1>3. /\ args' \in Seq(ArgType) /\ Len(args') = Len(results) + 1
      /\ args'[Len(results) + 1] = a
      /\ \A c \in DOMAIN results : args'[c] = args[c]
  <2>1. results \in Seq(Status)
    BY DEF IInv, TypeInv
  <2> QED  BY <1>1, <1>2, <2>1
<1>4. CASE \E status \in {"invalid", "ok"} :
             /\ Return(status)
             /\ status = "ok" => a.entry = "scatter" /\ a.from = 0 /\ a.list = <<>>
  <2>1. PICK status \in {"invalid", "ok"} :
          /\ Return(status)
          /\ status = "ok" => a.entry = "scatter" /\ a.from = 0 /\ a.list = <<>>
    BY <1>4
  <2>2. pc' = "idle" /\ results' = Append(results, status) /\ status \in Status
    BY <2>1 DEF Return, Status
  <2>3. /\ results' \in Seq(Status) /\ Len(results') = Len(results) + 1
        /\ \A c \in DOMAIN results' : results'[c] = "failed" => lastError'
        /\ FailureSticks'
    BY <1>1, <1>3, <2>1, <2>2, ReturnSafe
  <2>4. TypeInv'
    <3>1. Len(args') = Len(results') + 0
      BY <1>2, <1>3, <2>3
    <3>2. queue' \in Seq(OpType) /\ err' \in BOOLEAN /\ lastError' \in BOOLEAN
      BY <1>1 DEF IInv, TypeInv
    <3> QED  BY <1>3, <2>2, <2>3, <3>1, <3>2 DEF TypeInv
  <2>5. ErrorInv' /\ CellInv'
    BY <1>1, <2>2, <2>3 DEF IInv, ErrorInv, CellInv, InCheck
  <2> QED  BY <2>3, <2>4, <2>5 DEF IInv
<1>5. CASE pc' \in {"grid", "launch"} /\ UNCHANGED results
  <2>1. TypeInv'
    BY <1>1, <1>3, <1>5 DEF IInv, TypeInv
  <2>2. ErrorInv' /\ FailureSticks'
    BY <1>1, <1>3, <1>5, NoReturnSafe DEF ErrorInv
  <2>3. CellInv'
    BY <1>1, <1>5 DEF IInv, CellInv, InCheck
  <2> QED  BY <2>1, <2>2, <2>3 DEF IInv
<1>6. \/ Return("invalid")
      \/ pc' = "grid" /\ UNCHANGED results
      \/ a.entry = "scatter" /\ a.from = 0 /\ a.list = <<>> /\ Return("ok")
      \/ pc' = "launch" /\ UNCHANGED results
  BY DEF Begin
<1> QED  BY <1>4, <1>5, <1>6

LEMMA CheckGridInv ==
  ASSUME IInv, CheckGrid
  PROVE  IInv'
<1>1. pc = "grid" /\ UNCHANGED <<err, queue, cell>>
  BY DEF CheckGrid, deviceVars, memory
<1>2. /\ args \in Seq(ArgType) /\ results \in Seq(Status)
      /\ Len(args) = Len(results) + 1 /\ Len(results) \in Nat
      /\ lastError \in BOOLEAN
  BY <1>1 DEF IInv, TypeInv
<1>3. CASE \E status \in {"failed", "invalid"} :
             /\ lastError' = (lastError \/ status = "failed")
             /\ Return(status)
             /\ UNCHANGED args
  <2>1. PICK status \in {"failed", "invalid"} :
          /\ lastError' = (lastError \/ status = "failed")
          /\ Return(status)
          /\ UNCHANGED args
    BY <1>3
  <2>2. pc' = "idle" /\ results' = Append(results, status) /\ status \in Status
    BY <2>1 DEF Return, Status
  <2>3. /\ results' \in Seq(Status) /\ Len(results') = Len(results) + 1
        /\ \A c \in DOMAIN results' : results'[c] = "failed" => lastError'
        /\ FailureSticks'
    BY <1>2, <2>1, <2>2, ReturnSafe
  <2>4. TypeInv'
    BY <1>1, <1>2, <2>1, <2>2, <2>3 DEF IInv, TypeInv
  <2>5. ErrorInv' /\ CellInv'
    BY <1>1, <2>1, <2>2, <2>3 DEF IInv, ErrorInv, CellInv, InCheck
  <2> QED  BY <2>3, <2>4, <2>5 DEF IInv
<1>4. CASE /\ \/ args' = [args EXCEPT ![Len(args)].entry = "fast"]
              \/ UNCHANGED args
           /\ pc' \in {"grid", "init", "launch"}
           /\ UNCHANGED <<results, lastError>>
  <2>1. args' \in Seq(ArgType) /\ Len(args') = Len(args)
        /\ \A c \in DOMAIN results : args'[c] = args[c]
    <3>1. CASE args' = [args EXCEPT ![Len(args)].entry = "fast"]
      <4>1. args[Len(args)] \in ArgType
        BY <1>2
      <4>2. [args[Len(args)] EXCEPT !.entry = "fast"] \in ArgType
        BY <4>1 DEF ArgType, Decodes
      <4> QED  BY <1>2, <3>1, <4>2
    <3>2. CASE UNCHANGED args
      BY <1>2, <3>2
    <3> QED  BY <1>4, <3>1, <3>2
  <2>2. TypeInv'
    BY <1>1, <1>2, <1>4, <2>1 DEF IInv, TypeInv
  <2>3. ErrorInv' /\ FailureSticks'
    BY <1>1, <1>4, <2>1, NoReturnSafe DEF IInv, ErrorInv
  <2>4. CellInv'
    BY <1>1, <1>4 DEF IInv, CellInv, InCheck
  <2> QED  BY <2>2, <2>3, <2>4 DEF IInv
<1> QED  BY <1>3, <1>4 DEF CheckGrid

\* A step of the host that may return, with an error if it reports one, and
\* submits nothing that has to do with the check.
LEMMA HostSafe ==
  ASSUME IInv, pc # "idle", UNCHANGED args,
         queue' = queue \/ \E kind \in Kinds \ StatusKinds : Enqueue(kind),
         lastError' \in BOOLEAN, lastError => lastError',
         err' \in BOOLEAN, err' => lastError',
         \/ \E status \in Status : /\ results' = Append(results, status) /\ pc' = "idle"
                                   /\ status = "failed" => lastError'
                                   /\ status = "ok" => ~lastError
         \/ /\ UNCHANGED results
            /\ pc' \in {"launch", "finish", "sync", "malloc"} \cup InCheck
            /\ pc' = "sync" => ~lastError',
         pc' \in InCheck <=> cell' # "none",
         cell' # cell => queue = <<>> \/ cell' # "none", queue' = queue \/ cell' = cell
  PROVE  IInv'
<1>1. /\ queue' \in Seq(OpType)
      /\ \A n \in DOMAIN queue' :
           queue'[n].kind \in StatusKinds => n \in DOMAIN queue /\ queue'[n] = queue[n]
  <2>1. CASE queue' = queue
    BY <2>1 DEF IInv, TypeInv
  <2>2. CASE \E kind \in Kinds \ StatusKinds : Enqueue(kind)
    BY <2>2, EnqueueKeeps DEF IInv
  <2> QED  BY <2>1, <2>2
<1>2. CellInv'
  <2>1. ASSUME NEW n \in DOMAIN queue', queue'[n].kind \in StatusKinds  PROVE cell' # "none"
    <3>1. n \in DOMAIN queue /\ cell # "none"
      BY <1>1, <2>1 DEF IInv, CellInv
    <3>2. queue # <<>>
      BY <3>1, EmptySeq
    <3> QED  BY <3>1, <3>2
  <2> QED  BY <2>1 DEF CellInv
<1>3. CASE \E status \in Status : /\ results' = Append(results, status) /\ pc' = "idle"
                                  /\ status = "failed" => lastError'
                                  /\ status = "ok" => ~lastError
  <2>1. PICK status \in Status : /\ results' = Append(results, status) /\ pc' = "idle"
                                 /\ status = "failed" => lastError'
                                 /\ status = "ok" => ~lastError
    BY <1>3
  <2>2. /\ results' \in Seq(Status) /\ Len(results') = Len(results) + 1
        /\ \A c \in DOMAIN results' : results'[c] = "failed" => lastError'
        /\ FailureSticks'
    BY <2>1, ReturnSafe
  <2>3. TypeInv' /\ ErrorInv'
    BY <1>1, <2>1, <2>2 DEF IInv, TypeInv, ErrorInv
  <2> QED  BY <1>2, <2>2, <2>3 DEF IInv
<1>4. CASE /\ UNCHANGED results
           /\ pc' \in {"launch", "finish", "sync", "malloc"} \cup InCheck
           /\ pc' = "sync" => ~lastError'
  <2>1. (\A c \in DOMAIN results' : results'[c] = "failed" => lastError') /\ FailureSticks'
    BY <1>4, NoReturnSafe
  <2>2. TypeInv' /\ ErrorInv'
    BY <1>1, <1>4, <2>1 DEF IInv, TypeInv, ErrorInv, InCheck
  <2> QED  BY <1>2, <2>1, <2>2 DEF IInv
<1> QED  BY <1>3, <1>4

LEMMA LaunchInitInv ==
  ASSUME IInv, LaunchInit
  PROVE  IInv'
<1>1. PICK ok \in BOOLEAN : Submit("init", ok)
  BY DEF LaunchInit
<1>2. /\ pc = "init" /\ UNCHANGED <<args, err, cell>>
      /\ IF lastError' THEN Return("failed") ELSE pc' = "malloc" /\ UNCHANGED results
  BY DEF LaunchInit, memory
<1>3. queue' = queue \/ \E kind \in Kinds \ StatusKinds : Enqueue(kind)
  BY <1>1 DEF Submit, Kinds, StatusKinds
<1>4. lastError' \in BOOLEAN /\ (lastError => lastError') /\ (err => lastError)
      /\ err \in BOOLEAN
  BY <1>1 DEF Submit, Api, IInv, TypeInv, ErrorInv
<1>5. cell = "none" /\ pc' \notin InCheck
  BY <1>2 DEF IInv, CellInv, InCheck, Return
<1> QED  BY <1>2, <1>3, <1>4, <1>5, HostSafe DEF Return, Status

LEMMA MallocInv ==
  ASSUME IInv, Malloc
  PROVE  IInv'
<1>1. pc = "malloc" /\ UNCHANGED <<args, err, queue>>
  BY DEF Malloc, deviceVars
<1>2. err \in BOOLEAN /\ (err => lastError) /\ lastError \in BOOLEAN /\ cell = "none"
  BY <1>1 DEF IInv, TypeInv, ErrorInv, CellInv, InCheck
<1>3. CASE Api(FALSE) /\ Return("failed") /\ UNCHANGED cell
  BY <1>1, <1>2, <1>3, HostSafe DEF Api, Return, Status, InCheck
<1>4. CASE Api(TRUE) /\ pc' = "memset" /\ cell' = "junk" /\ UNCHANGED results
  BY <1>1, <1>2, <1>4, HostSafe DEF Api, InCheck
<1> QED  BY <1>3, <1>4 DEF Malloc

LEMMA AwaitStatusInv ==
  ASSUME IInv, AwaitStatus
  PROVE  IInv'
<1>1. PICK ok \in BOOLEAN : Drained(ok) /\ err' = ~ok
  BY DEF AwaitStatus
<1>2. pc = "wait" /\ pc' = "free" /\ UNCHANGED <<args, results, queue, cell>>
  BY DEF AwaitStatus, deviceVars, memory
<1>3. lastError' \in BOOLEAN /\ (lastError => lastError') /\ err' \in BOOLEAN
      /\ (err' => lastError')
  BY <1>1 DEF Drained, Api, IInv, TypeInv
<1>4. cell # "none"
  BY <1>2 DEF IInv, CellInv, InCheck
<1> QED  BY <1>2, <1>3, <1>4, HostSafe DEF InCheck

LEMMA FreeStatusInv ==
  ASSUME IInv, FreeStatus
  PROVE  IInv'
<1>1. /\ pc = "free" /\ queue = <<>> /\ cell' = "none"
      /\ UNCHANGED <<args, err, queue>>
  BY DEF FreeStatus, deviceVars
<1>2. lastError' \in BOOLEAN /\ (lastError => lastError') /\ err \in BOOLEAN
      /\ (err => lastError)
  BY DEF FreeStatus, Api, IInv, TypeInv, ErrorInv
<1>3. \/ \E status \in {"failed", "invalid"} :
           /\ results' = Append(results, status) /\ pc' = "idle"
           /\ status = "failed" => err
      \/ pc' = "launch" /\ UNCHANGED results
  BY DEF FreeStatus, Return
<1>4. pc' \notin InCheck
  BY <1>3 DEF InCheck
<1> QED  BY <1>1, <1>2, <1>3, <1>4, HostSafe DEF Status

LEMMA LaunchWorkInv ==
  ASSUME IInv, LaunchWork
  PROVE  IInv'
<1>1. pc = "launch" /\ UNCHANGED <<args, cell>>
  BY DEF LaunchWork, memory
<1>2. cell = "none" /\ err \in BOOLEAN /\ lastError \in BOOLEAN /\ (err => lastError)
  BY <1>1 DEF IInv, TypeInv, CellInv, ErrorInv, InCheck
<1>3. CASE Return("invalid") /\ UNCHANGED <<err, lastError, queue>>
  BY <1>1, <1>2, <1>3, HostSafe DEF Return, Status, InCheck
<1>4. CASE /\ \E ok \in BOOLEAN : Submit(Work(Current), ok)
           /\ err' = lastError' /\ pc' = "finish" /\ UNCHANGED results
  <2>1. PICK ok \in BOOLEAN : Submit(Work(Current), ok)
    BY <1>4
  <2>2. Work(Current) \in Kinds \ StatusKinds
    <3>1. results \in Seq(Status) /\ args \in Seq(ArgType) /\ Len(args) = Len(results) + 1
      BY <1>1 DEF IInv, TypeInv
    <3>2. Current \in ArgType
      BY <3>1 DEF Current
    <3> QED  BY <3>2 DEF ArgType, Work, Kinds, StatusKinds, Decodes
  <2>3. queue' = queue \/ \E kind \in Kinds \ StatusKinds : Enqueue(kind)
    BY <2>1, <2>2 DEF Submit
  <2>4. lastError' \in BOOLEAN /\ (lastError => lastError')
    BY <1>2, <2>1 DEF Submit, Api
  <2> QED  BY <1>1, <1>2, <1>4, <2>3, <2>4, HostSafe DEF InCheck
<1> QED  BY <1>3, <1>4 DEF LaunchWork

LEMMA FinishInv ==
  ASSUME IInv, Finish
  PROVE  IInv'
<1>1. pc = "finish" /\ UNCHANGED <<args, err, lastError, queue, cell>>
  BY DEF Finish, deviceVars, memory
<1>2. cell = "none" /\ err \in BOOLEAN /\ lastError \in BOOLEAN /\ (err => lastError)
  BY <1>1 DEF IInv, TypeInv, CellInv, ErrorInv, InCheck
<1>3. \/ lastError /\ Return("failed")
      \/ ~lastError /\ ((pc' = "sync" /\ UNCHANGED results) \/ Return("ok"))
  BY <1>2 DEF Finish
<1> QED  BY <1>1, <1>2, <1>3, HostSafe DEF Return, Status, InCheck

LEMMA SynchronizeInv ==
  ASSUME IInv, Synchronize
  PROVE  IInv'
<1>1. PICK ok \in BOOLEAN : /\ lastError' = (lastError \/ ~ok)
                            /\ Return(IF ok THEN "ok" ELSE "failed")
  BY DEF Synchronize
<1>2. pc = "sync" /\ UNCHANGED <<args, err, queue, cell>>
  BY DEF Synchronize, deviceVars, memory
<1>3. cell = "none" /\ err \in BOOLEAN /\ lastError \in BOOLEAN /\ (err => lastError)
      /\ ~lastError
  BY <1>2 DEF IInv, TypeInv, CellInv, ErrorInv, InCheck
<1> QED  BY <1>1, <1>2, <1>3, HostSafe DEF Return, Status, InCheck

\* Every part of every operation of the stream.
LEMMA DeviceStepInv ==
  ASSUME IInv, DeviceStep
  PROVE  IInv'
<1>1. CASE RunMemset
  BY <1>1, DeviceSafe DEF RunMemset, Running, hostVars, StatusKinds
<1>2. CASE RunCopy
  BY <1>2, DeviceSafe DEF RunCopy, Running, memory, hostVars
<1>3. ASSUME NEW p \in 0 .. Threads - 1, RunInit(p)  PROVE IInv'
  BY <1>3, DeviceSafe DEF RunInit, Running, hostVars
<1>4. ASSUME NEW b \in Example, RunValidate(b)  PROVE IInv'
  <2>1. cell' = cell \/ (Head1.kind \in StatusKinds /\ cell' # "none")
    BY <1>4 DEF RunValidate, Running, StatusKinds
  <2> QED  BY <1>4, <2>1, DeviceSafe DEF RunValidate, Running, hostVars
<1>5. ASSUME NEW b \in Example, RunDecode(b)  PROVE IInv'
  <2>1. Advance(b) /\ queue # <<>> /\ UNCHANGED <<hostVars, lastError, cell>>
    BY <1>5 DEF RunDecode, Running
  <2> QED  BY <2>1, DeviceSafe DEF hostVars
<1>6. ASSUME NEW b \in Example, RunDraws(b)  PROVE IInv'
  BY <1>6, DeviceSafe DEF RunDraws, Running, hostVars
<1>7. ASSUME NEW b \in Example, NEW l \in 0 .. Threads - 1, RunBuild(b, l)  PROVE IInv'
  BY <1>7, DeviceSafe DEF RunBuild, Running, hostVars
<1>8. ASSUME NEW i, RunScatter(i)  PROVE IInv'
  BY <1>8, DeviceSafe DEF RunScatter, Running, hostVars
<1> QED  BY <1>1, <1>2, <1>3, <1>4, <1>5, <1>6, <1>7, <1>8 DEF DeviceStep

\* Nothing that the invariant speaks of changes, but that the stream may lose
\* all its operations.
LEMMA QuietInv ==
  ASSUME IInv, UNCHANGED <<args, results, pc, err, lastError, cell>>,
         queue' = queue \/ queue' = <<>>
  PROVE  IInv'
<1>1. queue' \in Seq(OpType) /\ \A n \in DOMAIN queue' : n \in DOMAIN queue /\ queue' = queue
  <2>1. CASE queue' = queue
    BY <2>1 DEF IInv, TypeInv
  <2>2. CASE queue' = <<>>
    <3>1. queue' \in Seq(OpType) /\ DOMAIN queue' = {}
      BY <2>2, EmptySeq
    <3> QED  BY <3>1
  <2> QED  BY <2>1, <2>2
<1>2. TypeInv'
  BY <1>1 DEF IInv, TypeInv
<1>3. ErrorInv' /\ FailureSticks'
  BY NoReturnSafe DEF IInv, ErrorInv
<1>4. CellInv'
  BY <1>1 DEF IInv, CellInv
<1> QED  BY <1>2, <1>3, <1>4 DEF IInv

LEMMA NextInv == IInv /\ [Next]_vars => IInv'
<1> SUFFICES ASSUME IInv, [Next]_vars  PROVE IInv'
  OBVIOUS
<1>1. CASE \E a \in Arguments : Begin(a)
  BY <1>1, BeginInv
<1>2. CASE CheckGrid
  BY <1>2, CheckGridInv
<1>3. CASE LaunchInit
  BY <1>3, LaunchInitInv
<1>4. CASE Malloc
  BY <1>4, MallocInv
<1>5. CASE Memset
  BY <1>5, CheckStepSafe DEF Memset, StatusKinds, InCheck
<1>6. CASE LaunchValidate
  BY <1>6, CheckStepSafe DEF LaunchValidate, StatusKinds, InCheck
<1>7. CASE CopyStatus
  BY <1>7, CheckStepSafe DEF CopyStatus, StatusKinds, InCheck
<1>8. CASE AwaitStatus
  BY <1>8, AwaitStatusInv
<1>9. CASE FreeStatus
  BY <1>9, FreeStatusInv
<1>10. CASE LaunchWork
  BY <1>10, LaunchWorkInv
<1>11. CASE Finish
  BY <1>11, FinishInv
<1>12. CASE Synchronize
  BY <1>12, SynchronizeInv
<1>13. CASE DeviceStep
  BY <1>13, DeviceStepInv
<1>14. CASE Fault
  BY <1>14, QuietInv DEF Fault, hostVars, memory
<1>15. CASE SetSynchronization
  BY <1>15, QuietInv DEF SetSynchronization, hostVars, deviceVars, memory
<1>16. CASE UNCHANGED vars
  BY <1>16, QuietInv DEF vars, hostVars, deviceVars, memory
<1> QED
  BY <1>1, <1>2, <1>3, <1>4, <1>5, <1>6, <1>7, <1>8, <1>9, <1>10, <1>11, <1>12,
     <1>13, <1>14, <1>15, <1>16 DEF Next, HostStep

LEMMA CudaInvariant == Spec => []IInv
  BY InitInv, NextInv, PTL DEF Spec

-----------------------------------------------------------------------------
(***************************************************************************)
(* The arguments of the calls so far.  A call that has not been refused    *)
(* has a beam in range, and one that reads the outputs of another has the  *)
(* same beam as that.                                                      *)
(***************************************************************************)

Going(c) == c \notin DOMAIN results \/ results[c] # "invalid"

ArgInv ==
  \A c \in DOMAIN args :
    /\ args[c].from \in 0 .. c - 1
    /\ args[c].entry \in Decodes => args[c].from = 0
    /\ args[c].entry \in Decodes \ {"variable"} => args[c].meta = Uniform(args[c].beam)
    /\ args[c].from # 0 => args[c].beam = args[args[c].from].beam /\ args[c].beam >= 1
    /\ Going(c) => ~Refused(args[c])

\* A scatter that goes on has entries to add.
ListGiven(c) == args[c].entry = "scatter" /\ args[c].from = 0 => args[c].list # <<>>

\* A call's arguments stay, but that "forward" may become "fast".
ArgsKept ==
  /\ DOMAIN args \subseteq DOMAIN args'
  /\ \A c \in DOMAIN args :
       /\ args'[c].beam = args[c].beam /\ args'[c].meta = args[c].meta
       /\ args'[c].from = args[c].from /\ args'[c].list = args[c].list
       /\ args'[c].entry = args[c].entry
            \/ (args[c].entry = "forward" /\ args'[c].entry = "fast" /\ c = Len(args))

\* A call is asked for on its own, or reads what an earlier one has written.
LEMMA ArgumentsFrom ==
  ASSUME TypeInv, ArgInv, NEW a \in Arguments
  PROVE  \/ /\ a \in Requests /\ a.from = 0 /\ a.entry \in Decodes \cup {"scatter"}
            /\ a.entry \in Decodes \ {"variable"} => a.meta = Uniform(a.beam)
         \/ \E d \in DOMAIN results :
              /\ results[d] = "ok" /\ a.from = d /\ a.entry \in {"build", "scatter"}
              /\ a.beam = args[d].beam /\ a.meta = args[d].meta /\ a.beam \in 1 .. MaxBeam
<1>1. ASSUME a \in Requests
      PROVE  /\ a.from = 0 /\ a.entry \in Decodes \cup {"scatter"}
             /\ a.entry \in Decodes \ {"variable"} => a.meta = Uniform(a.beam)
  <2>1. a = [entry |-> a.entry, beam |-> a.beam, meta |-> a.meta, from |-> 0, list |-> a.list]
    BY <1>1, RequestsAssumption DEF Call
  <2>2. a.from = 0
    BY <2>1
  <2> QED  BY <1>1, <2>2, RequestsAssumption DEF Decodes
<1>2. ASSUME NEW d \in DOMAIN results, NEW entry \in {"build", "scatter"},
             a = Call(entry, args[d].beam, args[d].meta, d, <<>>),
             results[d] = "ok", args[d].entry \in {"full", "build"}
      PROVE  /\ a.from = d /\ a.entry \in {"build", "scatter"}
             /\ a.beam = args[d].beam /\ a.meta = args[d].meta /\ a.beam \in 1 .. MaxBeam
  <2>1. /\ a.from = d /\ a.entry \in {"build", "scatter"}
        /\ a.beam = args[d].beam /\ a.meta = args[d].meta
    BY <1>2 DEF Call
  <2>2. d \in DOMAIN args
    BY <1>2 DEF TypeInv
  <2>3. Going(d)
    BY <1>2 DEF Going
  <2> QED  BY <1>2, <2>1, <2>2, <2>3 DEF ArgInv, Refused
<1> QED  BY <1>1, <1>2 DEF Arguments, Usable

LEMMA BeginArgs ==
  ASSUME TypeInv, ArgInv, NEW a \in Arguments, Begin(a)
  PROVE  ArgInv' /\ ArgsKept /\ (pc' # "idle" => ListGiven(Len(args))')
<1>1. /\ args \in Seq(ArgType) /\ results \in Seq(Status) /\ Len(args) = Len(results)
      /\ a \in ArgType /\ args' = Append(args, a)
  BY ArgumentsType DEF TypeInv, Begin
<1>2. PICK n \in Nat : n = Len(args)
  BY <1>1
<1>3. /\ Len(args') = n + 1 /\ DOMAIN args' = 1 .. n + 1 /\ args'[n + 1] = a
      /\ \A c \in 1 .. n : args'[c] = args[c]
      /\ DOMAIN args = 1 .. n /\ DOMAIN results = 1 .. n
  BY <1>1, <1>2
<1>4. ArgsKept
  BY <1>2, <1>3 DEF ArgsKept
<1>5. \/ /\ results' = results \/ results' = Append(results, "ok")
         /\ ~Refused(a)
      \/ Refused(a) /\ results' = Append(results, "invalid")
  BY DEF Begin, Return, Refused
<1>6. /\ \A c \in 1 .. n : c \in DOMAIN results' /\ results'[c] = results[c]
      /\ Refused(a) => n + 1 \in DOMAIN results' /\ results'[n + 1] = "invalid"
  <2>1. CASE results' = results
    BY <1>3, <1>5, <2>1, <1>1
  <2>2. ASSUME NEW status \in Status, results' = Append(results, status)
        PROVE  /\ \A c \in 1 .. n : c \in DOMAIN results' /\ results'[c] = results[c]
               /\ n + 1 \in DOMAIN results' /\ results'[n + 1] = status
    BY <1>1, <1>2, <1>3, <2>2
  <2>3. "ok" \in Status /\ "invalid" \in Status
    BY DEF Status
  <2>4. CASE ~Refused(a)
    BY <1>5, <2>1, <2>2, <2>3, <2>4
  <2>5. CASE Refused(a)
    BY <1>5, <2>2, <2>3, <2>5
  <2> QED  BY <2>4, <2>5
<1>7. ASSUME NEW c \in 1 .. n
      PROVE  /\ args'[c].from \in 0 .. c - 1
             /\ args'[c].entry \in Decodes => args'[c].from = 0
             /\ args'[c].entry \in Decodes \ {"variable"} => args'[c].meta = Uniform(args'[c].beam)
             /\ args'[c].from # 0 => /\ args'[c].beam = args'[args'[c].from].beam
                                     /\ args'[c].beam >= 1
             /\ Going(c)' => ~Refused(args'[c])
  <2>1. args'[c] = args[c]
    BY <1>3
  <2>2. args[c].from # 0 => args'[args[c].from] = args[args[c].from]
    BY <1>3 DEF ArgInv
  <2>3. Going(c)' => Going(c)
    BY <1>3, <1>6 DEF Going
  <2>4. /\ args[c].from \in 0 .. c - 1
        /\ args[c].entry \in Decodes => args[c].from = 0
        /\ args[c].entry \in Decodes \ {"variable"} => args[c].meta = Uniform(args[c].beam)
        /\ args[c].from # 0 => args[c].beam = args[args[c].from].beam /\ args[c].beam >= 1
        /\ Going(c) => ~Refused(args[c])
    BY <1>3 DEF ArgInv
  <2> QED  BY <2>1, <2>2, <2>3, <2>4
<1>8. /\ a.from \in 0 .. n
      /\ a.entry \in Decodes => a.from = 0
      /\ a.entry \in Decodes \ {"variable"} => a.meta = Uniform(a.beam)
      /\ a.from # 0 => a.beam = args'[a.from].beam /\ a.beam >= 1
  <2>1. CASE /\ a.from = 0
             /\ a.entry \in Decodes \ {"variable"} => a.meta = Uniform(a.beam)
    BY <2>1
  <2>2. ASSUME NEW d \in DOMAIN results, a.from = d, a.entry \in {"build", "scatter"},
               a.beam = args[d].beam, a.beam \in 1 .. MaxBeam
        PROVE  /\ a.from \in 0 .. n
               /\ a.entry \notin Decodes
               /\ a.beam = args'[a.from].beam /\ a.beam >= 1
    <3>1. d \in 1 .. n /\ args'[d] = args[d]
      BY <1>3
    <3>2. a.entry \notin Decodes
      BY <2>2 DEF Decodes
    <3>3. a.beam >= 1
      BY <2>2, SizesAssumption
    <3> QED  BY <2>2, <3>1, <3>2, <3>3
  <2> QED  BY <2>1, <2>2, ArgumentsFrom
<1>9. Going(n + 1)' => ~Refused(a)
  BY <1>6 DEF Going
<1>10. ArgInv'
  <2> SUFFICES ASSUME NEW c \in 1 .. n + 1
               PROVE  /\ args'[c].from \in 0 .. c - 1
                      /\ args'[c].entry \in Decodes => args'[c].from = 0
                      /\ args'[c].entry \in Decodes \ {"variable"} =>
                           args'[c].meta = Uniform(args'[c].beam)
                      /\ args'[c].from # 0 => /\ args'[c].beam = args'[args'[c].from].beam
                                              /\ args'[c].beam >= 1
                      /\ Going(c)' => ~Refused(args'[c])
    BY <1>3 DEF ArgInv
  <2>1. CASE c \in 1 .. n
    BY <1>7, <2>1
  <2>2. CASE c = n + 1
    BY <1>3, <1>8, <1>9, <2>2
  <2> QED  BY <2>1, <2>2
<1>11. pc' # "idle" => ListGiven(Len(args))'
  BY <1>3 DEF Begin, Return, ListGiven
<1> QED  BY <1>4, <1>10, <1>11

LEMMA CheckGridArgs ==
  ASSUME TypeInv, ArgInv, ListGiven(Len(args)), CheckGrid
  PROVE  ArgInv' /\ ArgsKept /\ (pc' # "idle" => ListGiven(Len(args))')
<1>1. /\ args \in Seq(ArgType) /\ results \in Seq(Status)
      /\ Len(args) = Len(results) + 1 /\ pc = "grid"
  BY DEF TypeInv, CheckGrid
<1>2. PICK n \in Nat : n = Len(results)
  BY <1>1
<1>3. DOMAIN args = 1 .. n + 1 /\ DOMAIN results = 1 .. n /\ Len(args) = n + 1
  BY <1>1, <1>2
<1>4. CASE /\ UNCHANGED args
           /\ results' = results \/ \E status \in {"failed", "invalid"} : Return(status)
  <2>1. ArgsKept
    BY <1>1, <1>4 DEF ArgsKept
  <2>2. \A c \in 1 .. n + 1 : Going(c)' => Going(c)
    <3>1. CASE results' = results
      BY <3>1 DEF Going
    <3>2. ASSUME NEW status \in {"failed", "invalid"}, Return(status)
          PROVE  \A c \in 1 .. n + 1 : Going(c)' => Going(c)
      <4>1. status \in Status /\ results' = Append(results, status)
        BY <3>2 DEF Return, Status
      <4>2. /\ DOMAIN results' = DOMAIN results \cup {Len(results) + 1}
            /\ \A c \in DOMAIN results : results'[c] = results[c]
        BY <4>1, ReturnKeeps
      <4> QED  BY <1>3, <4>2 DEF Going
    <3> QED  BY <1>4, <3>1, <3>2
  <2>3. ArgInv'
    BY <1>3, <1>4, <2>2 DEF ArgInv
  <2> QED  BY <1>4, <2>1, <2>3 DEF ListGiven
<1>5. CASE /\ Current.entry = "forward" /\ UNCHANGED results
           /\ args' = [args EXCEPT ![Len(args)].entry = "fast"]
  <2>1. PICK a \in ArgType : a = args[n + 1] /\ a.entry = "forward"
    BY <1>1, <1>3, <1>5 DEF Current
  <2>2. PICK e \in ArgType : e = [a EXCEPT !.entry = "fast"]
    BY <2>1 DEF ArgType, Decodes
  <2>3. /\ e.beam = a.beam /\ e.meta = a.meta /\ e.from = a.from /\ e.list = a.list
        /\ e.entry = "fast"
    BY <2>1, <2>2 DEF ArgType
  <2>4. args' = [args EXCEPT ![n + 1] = e]
    BY <1>3, <1>5, <2>1, <2>2
  <2>5. /\ args' \in Seq(ArgType) /\ Len(args') = n + 1 /\ DOMAIN args' = 1 .. n + 1
        /\ args'[n + 1] = e /\ \A c \in 1 .. n : args'[c] = args[c]
    BY <1>1, <1>3, <2>4
  <2>6. ArgsKept
    BY <1>3, <2>1, <2>3, <2>5 DEF ArgsKept
  <2>7. \A c \in 1 .. n + 1 : Going(c)' <=> Going(c)
    BY <1>5 DEF Going
  <2>8. ASSUME NEW c \in 1 .. n + 1
        PROVE  /\ args'[c].from \in 0 .. c - 1
               /\ args'[c].entry \in Decodes => args'[c].from = 0
               /\ args'[c].entry \in Decodes \ {"variable"} => args'[c].meta = Uniform(args'[c].beam)
               /\ args'[c].from # 0 => /\ args'[c].beam = args'[args'[c].from].beam
                                       /\ args'[c].beam >= 1
               /\ Going(c)' => ~Refused(args'[c])
    <3>1. CASE c \in 1 .. n
      <4>1. args'[c] = args[c]
        BY <2>5, <3>1
      <4>2. args[c].from # 0 => args'[args[c].from] = args[args[c].from]
        BY <1>3, <2>5, <3>1 DEF ArgInv
      <4> QED  BY <1>3, <2>7, <3>1, <4>1, <4>2 DEF ArgInv
    <3>2. CASE c = n + 1
      <4>1. /\ a.from = 0 /\ a.meta = Uniform(a.beam) /\ (Going(c) => ~Refused(a))
        BY <1>3, <2>1, <3>2 DEF ArgInv, Decodes
      <4>2. Refused(e) => Refused(a)
        BY <2>1, <2>3 DEF Refused
      <4> QED  BY <1>2, <2>3, <2>5, <2>7, <3>2, <4>1, <4>2
    <3> QED  BY <3>1, <3>2
  <2>9. ArgInv'
    BY <2>5, <2>8 DEF ArgInv
  <2>10. ListGiven(Len(args))'
    BY <2>3, <2>5 DEF ListGiven
  <2> QED  BY <2>6, <2>9, <2>10
<1> QED  BY <1>4, <1>5 DEF CheckGrid

\* A step that leaves the arguments alone, and may return.
LEMMA OtherArgs ==
  ASSUME TypeInv, ArgInv, UNCHANGED args,
         results' = results \/ \E status \in Status : results' = Append(results, status)
  PROVE  ArgInv' /\ ArgsKept
<1>1. \A c \in DOMAIN args : Going(c)' => Going(c)
  <2>1. CASE results' = results
    BY <2>1 DEF Going
  <2>2. ASSUME NEW status \in Status, results' = Append(results, status)
        PROVE  \A c \in DOMAIN args : Going(c)' => Going(c)
    <3>1. /\ DOMAIN results' = DOMAIN results \cup {Len(results) + 1}
          /\ \A c \in DOMAIN results : results'[c] = results[c]
      BY <2>2, ReturnKeeps
    <3> QED  BY <3>1 DEF Going
  <2> QED  BY <2>1, <2>2
<1>2. ArgInv'
  BY <1>1 DEF ArgInv
<1> QED  BY <1>2 DEF ArgsKept

-----------------------------------------------------------------------------
(***************************************************************************)
(* The buffers, and the parts of the operations on the stream.             *)
(***************************************************************************)

IsBuffers(o, a) ==
  \E tokens, scores, traces, entries, draws :
    /\ o = [tokens |-> tokens, scores |-> scores, traces |-> traces,
            entries |-> entries, draws |-> draws]
    /\ DOMAIN tokens = 0 .. TokenCount(a) - 1
    /\ DOMAIN traces = 0 .. TokenCount(a) - 1
    /\ DOMAIN entries = 0 .. TokenCount(a) - 1
    /\ DOMAIN scores = 0 .. ScoreCount(a) - 1

BufferInv ==
  /\ \E S : out \in Seq(S)
  /\ Len(out) = Len(args)
  /\ \A c \in DOMAIN args : IsBuffers(out[c], args[c])

\* Parts, by the arguments alone.
PartsOf(op) ==
  CASE op.kind \in {"memset", "copy"} -> {0}
    [] op.kind = "init" -> 0 .. Threads - 1
    [] op.kind \in {"validate", "decode"} -> Example
    [] op.kind = "build" -> Example \X (-1 .. Threads - 1)
    [] op.kind = "scatter" ->
         IF args[op.call].from = 0 THEN 0 .. Len(args[op.call].list) - 1
         ELSE 0 .. TokenCount(args[args[op.call].from]) - 1

OpInv(op) ==
  /\ op.call \in DOMAIN args
  /\ op.kind = "scatter" => args[op.call].entry = "scatter" /\ ListGiven(op.call)

PartInv ==
  IF queue = <<>> THEN done = {}
  ELSE done \subseteq PartsOf(Head1) /\ done # PartsOf(Head1)

StreamInv ==
  /\ pc # "idle" => ListGiven(Len(args))
  /\ \A n \in DOMAIN queue : OpInv(queue[n])
  /\ PartInv

LEMMA BufferFields ==
  ASSUME NEW o, NEW a, IsBuffers(o, a)
  PROVE  /\ DOMAIN o.tokens = 0 .. TokenCount(a) - 1
         /\ DOMAIN o.traces = 0 .. TokenCount(a) - 1
         /\ DOMAIN o.entries = 0 .. TokenCount(a) - 1
         /\ DOMAIN o.scores = 0 .. ScoreCount(a) - 1
<1>1. PICK tokens, scores, traces, entries, draws :
        /\ o = [tokens |-> tokens, scores |-> scores, traces |-> traces,
                entries |-> entries, draws |-> draws]
        /\ DOMAIN tokens = 0 .. TokenCount(a) - 1
        /\ DOMAIN traces = 0 .. TokenCount(a) - 1
        /\ DOMAIN entries = 0 .. TokenCount(a) - 1
        /\ DOMAIN scores = 0 .. ScoreCount(a) - 1
  BY Zenon DEF IsBuffers
<1>2. /\ o.tokens = tokens /\ o.traces = traces /\ o.entries = entries /\ o.scores = scores
  BY <1>1
<1> QED  BY <1>1, <1>2

LEMMA ProductPositive == \A m, n \in Nat \ {0} : m * n \in Nat \ {0}
  OBVIOUS

\* A beam in range has slots.
LEMMA CountsPositive ==
  ASSUME NEW a, a.beam \in Nat \ {0}
  PROVE  /\ TokenCount(a) \in Nat \ {0} /\ ScoreCount(a) \in Nat \ {0}
<1>1. Batch \in Nat \ {0} /\ Steps \in Nat \ {0}
  BY SizesAssumption
<1>2. Batch * Steps \in Nat \ {0}
  BY <1>1, ProductPositive
<1> QED  BY <1>1, <1>2, ProductPositive DEF TokenCount, ScoreCount

LEMMA PartsAre ==
  ASSUME TypeInv, ArgInv, BufferInv, NEW op \in OpType, OpInv(op)
  PROVE  Parts(op) = PartsOf(op) /\ PartsOf(op) # {}
<1>1. /\ args \in Seq(ArgType) /\ op.call \in DOMAIN args /\ DOMAIN args = 1 .. Len(args)
      /\ args[op.call] \in ArgType /\ op.kind \in Kinds /\ Len(args) \in Nat
  BY DEF TypeInv, OpInv, OpType
<1>2. 0 \in Example /\ 0 \in 0 .. Threads - 1
  BY SizesAssumption DEF Example
<1>3. CASE op.kind # "scatter"
  <2>1. Parts(op) = PartsOf(op)
    BY <1>3 DEF Parts, PartsOf
  <2>2. <<0, 0>> \in Example \X (-1 .. Threads - 1)
    BY <1>2, SizesAssumption
  <2>3. PartsOf(op) \in {{0}, 0 .. Threads - 1, Example, Example \X (-1 .. Threads - 1)}
    BY <1>1, <1>3 DEF PartsOf, Kinds
  <2> QED  BY <1>2, <2>1, <2>2, <2>3
<1>4. CASE op.kind = "scatter" /\ args[op.call].from = 0
  <2>1. PICK s \in Seq([index : Int, value : Int]) : s = args[op.call].list /\ s # <<>>
    BY <1>1, <1>4 DEF ArgType, OpInv, ListGiven
  <2>2. Len(s) \in Nat \ {0}
    BY <2>1
  <2>3. Parts(op) = 0 .. Len(s) - 1 /\ PartsOf(op) = 0 .. Len(s) - 1
    BY <1>4, <2>1 DEF Parts, PartsOf, Entries
  <2> QED  BY <2>2, <2>3
<1>5. CASE op.kind = "scatter" /\ args[op.call].from # 0
  <2>1. PICK d : d = args[op.call].from
    OBVIOUS
  <2>2. d \in DOMAIN args /\ args[d].beam = args[op.call].beam /\ args[op.call].beam >= 1
    BY <1>1, <1>5, <2>1 DEF ArgInv
  <2>3. args[op.call].beam \in Nat \ {0}
    BY <1>1, <2>2 DEF ArgType
  <2>4. TokenCount(args[d]) \in Nat \ {0}
    BY <2>2, <2>3, CountsPositive
  <2>5. DOMAIN out[d].entries = 0 .. TokenCount(args[d]) - 1
    BY <2>2, BufferFields DEF BufferInv
  <2>6. PICK n \in Nat \ {0} : n = TokenCount(args[d])
    BY <2>4
  <2>7. Parts(op) = 0 .. n - 1 /\ PartsOf(op) = 0 .. n - 1
    BY <1>5, <2>1, <2>5, <2>6 DEF Parts, PartsOf, Entries
  <2>8. 0 \in 0 .. n - 1
    OBVIOUS
  <2> QED  BY <2>7, <2>8
<1> QED  BY <1>3, <1>4, <1>5

\* The parts of an operation on the stream are those it had when enqueued.
LEMMA PartsKept ==
  ASSUME TypeInv, ArgInv, ArgsKept, NEW op \in OpType, OpInv(op)
  PROVE  OpInv(op)' /\ PartsOf(op)' = PartsOf(op)
<1>1. PICK c : c = op.call
  OBVIOUS
<1>2. /\ c \in DOMAIN args /\ c \in DOMAIN args' /\ c \in Nat
  BY <1>1 DEF TypeInv, OpInv, ArgsKept
<1>3. /\ args'[c].from = args[c].from /\ args'[c].list = args[c].list
      /\ op.kind = "scatter" => args[c].entry = "scatter" /\ args'[c].entry = "scatter"
  BY <1>1, <1>2 DEF ArgsKept, OpInv
<1>4. OpInv(op)'
  BY <1>1, <1>2, <1>3 DEF OpInv, ListGiven
<1>5. op.kind = "scatter" /\ args[c].from # 0 =>
        args'[args[c].from].beam = args[args[c].from].beam
  <2>1. args \in Seq(ArgType)
    BY DEF TypeInv
  <2> QED  BY <1>2, <2>1 DEF ArgInv, ArgsKept
<1>6. PartsOf(op)' = PartsOf(op)
  <2>1. CASE op.kind = "scatter"
    BY <1>1, <1>3, <1>5, <2>1 DEF PartsOf, TokenCount
  <2>2. CASE op.kind # "scatter"
    BY <2>2 DEF PartsOf
  <2> QED  BY <2>1, <2>2
<1> QED  BY <1>4, <1>6

\* A step that does not touch the stream.
LEMMA StreamKept ==
  ASSUME TypeInv, ArgInv, StreamInv, ArgsKept, UNCHANGED <<queue, done>>,
         pc' # "idle" => ListGiven(Len(args))'
  PROVE  StreamInv'
<1>1. queue \in Seq(OpType)
  BY DEF TypeInv
<1>2. \A n \in DOMAIN queue : /\ queue'[n] = queue[n] /\ queue[n] \in OpType
                              /\ OpInv(queue[n]) /\ OpInv(queue[n])'
                              /\ PartsOf(queue[n])' = PartsOf(queue[n])
  <2> SUFFICES ASSUME NEW n \in DOMAIN queue
               PROVE  /\ queue'[n] = queue[n] /\ queue[n] \in OpType
                      /\ OpInv(queue[n]) /\ OpInv(queue[n])'
                      /\ PartsOf(queue[n])' = PartsOf(queue[n])
    OBVIOUS
  <2>1. PICK op \in OpType : op = queue[n]
    BY <1>1
  <2>2. OpInv(op)
    BY <2>1 DEF StreamInv
  <2>3. OpInv(op)' /\ PartsOf(op)' = PartsOf(op)
    BY <2>2, PartsKept
  <2> QED  BY <2>1, <2>2, <2>3
<1>3. PartInv'
  <2>1. CASE queue = <<>>
    BY <2>1 DEF StreamInv, PartInv
  <2>2. CASE queue # <<>>
    <3>1. 1 \in DOMAIN queue
      BY <1>1, <2>2
    <3> QED  BY <1>2, <2>2, <3>1 DEF StreamInv, PartInv, Head1
  <2> QED  BY <2>1, <2>2
<1> QED  BY <1>2, <1>3 DEF StreamInv

\* A step of the host that enqueues an operation of the current call.
LEMMA StreamEnqueued ==
  ASSUME TypeInv, ArgInv, BufferInv, StreamInv, NEW kind \in Kinds, Enqueue(kind),
         pc # "idle", UNCHANGED <<args, done>>,
         kind = "scatter" => Current.entry = "scatter"
  PROVE  StreamInv'
<1>1. /\ queue \in Seq(OpType) /\ args \in Seq(ArgType) /\ results \in Seq(Status)
      /\ Len(args) \in DOMAIN args /\ Len(args) \in Nat
  <2>1. args \in Seq(ArgType) /\ results \in Seq(Status) /\ Len(args) = Len(results) + 1
    BY DEF TypeInv
  <2> QED  BY <2>1 DEF TypeInv
<1>2. PICK op \in OpType : op = Op(kind) /\ op.kind = kind /\ op.call = Len(args)
  <2>1. Op(kind) \in OpType /\ Op(kind).kind = kind /\ Op(kind).call = Len(args)
    BY <1>1 DEF Op, OpType
  <2> QED  BY <2>1
<1>3. queue' = Append(queue, op)
  BY <1>2 DEF Enqueue
<1>4. OpInv(op)
  BY <1>1, <1>2 DEF OpInv, StreamInv, Current
<1>5. ASSUME NEW o  PROVE OpInv(o)' <=> OpInv(o)
  BY DEF OpInv, ListGiven
<1>6. ASSUME NEW o  PROVE PartsOf(o)' = PartsOf(o)
  BY DEF PartsOf
<1>7. \A n \in DOMAIN queue' : OpInv(queue'[n])
  <2>1. /\ DOMAIN queue' = DOMAIN queue \cup {Len(queue) + 1}
        /\ \A n \in DOMAIN queue : queue'[n] = queue[n]
        /\ queue'[Len(queue) + 1] = op
    BY <1>1, <1>3
  <2> QED  BY <1>4, <2>1 DEF StreamInv
<1>8. PartInv'
  <2>1. queue' # <<>>
    BY <1>1, <1>3
  <2>2. CASE queue = <<>>
    <3>1. Head1' = op /\ done' = {}
      BY <1>3, <2>2 DEF Head1, StreamInv, PartInv
    <3>2. PartsOf(op) # {}
      BY <1>4, PartsAre
    <3> QED  BY <1>6, <2>1, <3>1, <3>2 DEF PartInv
  <2>3. CASE queue # <<>>
    <3>1. Head1' = Head1
      BY <1>1, <1>3, <2>3 DEF Head1
    <3> QED  BY <1>6, <2>1, <2>3, <3>1 DEF PartInv, StreamInv
  <2> QED  BY <2>2, <2>3
<1>9. (pc' # "idle" => ListGiven(Len(args))) /\ (ListGiven(Len(args))' <=> ListGiven(Len(args)))
  BY DEF StreamInv, ListGiven
<1> QED  BY <1>5, <1>7, <1>8, <1>9 DEF StreamInv

\* A step of the device.
LEMMA StreamAdvanced ==
  ASSUME TypeInv, ArgInv, BufferInv, StreamInv, UNCHANGED <<args, pc>>,
         queue # <<>>, NEW p \in Parts(Head1) \ done, Advance(p)
  PROVE  StreamInv'
<1>1. queue \in Seq(OpType) /\ Head1 \in OpType /\ OpInv(Head1)
  <2>1. queue \in Seq(OpType) /\ 1 \in DOMAIN queue
    BY DEF TypeInv
  <2> QED  BY <2>1 DEF Head1, StreamInv
<1>2. Parts(Head1) = PartsOf(Head1)
  BY <1>1, PartsAre
<1>3. ASSUME NEW o  PROVE OpInv(o)' <=> OpInv(o)
  BY DEF OpInv, ListGiven
<1>4. ASSUME NEW o  PROVE PartsOf(o)' = PartsOf(o)
  BY DEF PartsOf
<1>5. CASE done \cup {p} = Parts(Head1) /\ queue' = Tail(queue) /\ done' = {}
  <2>1. /\ queue' \in Seq(OpType)
        /\ \A n \in DOMAIN queue' : OpInv(queue'[n])
    <3>1. /\ queue' \in Seq(OpType)
          /\ \A n \in DOMAIN queue' : \E m \in DOMAIN queue : queue'[n] = queue[m]
      BY AdvanceKeeps
    <3> QED  BY <3>1 DEF StreamInv
  <2>2. PartInv'
    <3>1. CASE queue' = <<>>
      BY <1>5, <3>1 DEF PartInv
    <3>2. CASE queue' # <<>>
      <4>1. PICK op \in OpType : op = Head1' /\ OpInv(op)
        <5>1. 1 \in DOMAIN queue'
          BY <2>1, <3>2
        <5> QED  BY <2>1, <5>1 DEF Head1
      <4>2. PartsOf(op) # {}
        BY <4>1, PartsAre
      <4> QED  BY <1>4, <1>5, <3>2, <4>1, <4>2 DEF PartInv
    <3> QED  BY <3>1, <3>2
  <2> QED  BY <1>3, <2>1, <2>2 DEF StreamInv, ListGiven
<1>6. CASE done \cup {p} # Parts(Head1) /\ queue' = queue /\ done' = done \cup {p}
  <2>1. PartInv'
    <3>1. Head1' = Head1
      BY <1>6 DEF Head1
    <3> QED  BY <1>2, <1>4, <1>6, <3>1 DEF PartInv, StreamInv
  <2> QED  BY <1>3, <1>6, <2>1 DEF StreamInv, ListGiven
<1> QED  BY <1>5, <1>6 DEF Advance

-----------------------------------------------------------------------------
(***************************************************************************)
(* What the actions make of the buffers.                                   *)
(***************************************************************************)

Buffers(tokens, scores, traces, entries, draws) ==
  [tokens |-> tokens, scores |-> scores, traces |-> traces, entries |-> entries,
   draws |-> draws]

LEMMA BuffersFields ==
  ASSUME NEW tk, NEW sc, NEW tr, NEW en, NEW dr, NEW e, e = Buffers(tk, sc, tr, en, dr)
  PROVE  /\ e.tokens = tk /\ e.scores = sc /\ e.traces = tr /\ e.entries = en /\ e.draws = dr
BY DEF Buffers

\* A record of buffers, field by field.
LEMMA BuffersAre ==
  ASSUME NEW o, NEW a
  PROVE  IsBuffers(o, a) <=>
           /\ o = Buffers(o.tokens, o.scores, o.traces, o.entries, o.draws)
           /\ DOMAIN o.tokens = 0 .. TokenCount(a) - 1
           /\ DOMAIN o.traces = 0 .. TokenCount(a) - 1
           /\ DOMAIN o.entries = 0 .. TokenCount(a) - 1
           /\ DOMAIN o.scores = 0 .. ScoreCount(a) - 1
<1>1. ASSUME IsBuffers(o, a)
      PROVE  /\ o = Buffers(o.tokens, o.scores, o.traces, o.entries, o.draws)
  <2>1. PICK tk, sc, tr, en, dr : o = Buffers(tk, sc, tr, en, dr)
    BY <1>1, Zenon DEF IsBuffers, Buffers
  <2>2. /\ o.tokens = tk /\ o.scores = sc /\ o.traces = tr /\ o.entries = en /\ o.draws = dr
    BY <2>1, BuffersFields
  <2> QED  BY <2>1, <2>2
<1>2. ASSUME /\ o = Buffers(o.tokens, o.scores, o.traces, o.entries, o.draws)
             /\ DOMAIN o.tokens = 0 .. TokenCount(a) - 1
             /\ DOMAIN o.traces = 0 .. TokenCount(a) - 1
             /\ DOMAIN o.entries = 0 .. TokenCount(a) - 1
             /\ DOMAIN o.scores = 0 .. ScoreCount(a) - 1
      PROVE  IsBuffers(o, a)
  <2>1. PICK tk, sc, tr, en, dr : /\ tk = o.tokens /\ sc = o.scores /\ tr = o.traces
                                  /\ en = o.entries /\ dr = o.draws
    OBVIOUS
  <2>2. /\ o = [tokens |-> tk, scores |-> sc, traces |-> tr, entries |-> en, draws |-> dr]
        /\ DOMAIN tk = 0 .. TokenCount(a) - 1 /\ DOMAIN tr = 0 .. TokenCount(a) - 1
        /\ DOMAIN en = 0 .. TokenCount(a) - 1 /\ DOMAIN sc = 0 .. ScoreCount(a) - 1
    BY <1>2, <2>1 DEF Buffers
  <2> QED  BY <2>2, Zenon DEF IsBuffers
<1> QED  BY <1>1, <1>2, BufferFields

LEMMA MadeBuffers ==
  ASSUME NEW a, NEW tk, NEW sc, NEW tr, NEW en, NEW dr,
         DOMAIN tk = 0 .. TokenCount(a) - 1, DOMAIN tr = 0 .. TokenCount(a) - 1,
         DOMAIN en = 0 .. TokenCount(a) - 1, DOMAIN sc = 0 .. ScoreCount(a) - 1
  PROVE  IsBuffers(Buffers(tk, sc, tr, en, dr), a)
BY Zenon DEF IsBuffers, Buffers

\* A step that leaves these buffers at h, and the other calls' as they are.
Written(h, tokens, scores, traces, entries, draws) ==
  /\ BufferInv'
  /\ out'[h].tokens = tokens /\ out'[h].scores = scores /\ out'[h].traces = traces
  /\ out'[h].entries = entries /\ out'[h].draws = draws
  /\ \A c \in DOMAIN args \ {h} : out'[c] = out[c]

LEMMA OutWritten ==
  ASSUME TypeInv, BufferInv, NEW h \in DOMAIN args, UNCHANGED args,
         NEW o, out' = [out EXCEPT ![h] = o], IsBuffers(o, args[h])
  PROVE  Written(h, o.tokens, o.scores, o.traces, o.entries, o.draws)
<1>1. PICK S : out \in Seq(S)
  BY DEF BufferInv
<1>2. PICK R : R = S \cup {o}
  OBVIOUS
<1>3. out \in Seq(R) /\ o \in R /\ DOMAIN out = DOMAIN args /\ Len(out) = Len(args)
  <2>1. args \in Seq(ArgType) /\ Len(out) = Len(args)
    BY DEF TypeInv, BufferInv
  <2> QED  BY <1>1, <1>2, <2>1
<1>4. /\ out' \in Seq(R) /\ Len(out') = Len(out) /\ out'[h] = o
      /\ \A c \in DOMAIN args \ {h} : out'[c] = out[c]
  BY <1>3
<1>5. BufferInv'
  BY <1>3, <1>4 DEF BufferInv
<1> QED  BY <1>4, <1>5 DEF Written

\* The operation that runs belongs to a call.
LEMMA HeadCall ==
  ASSUME TypeInv, StreamInv, queue # <<>>
  PROVE  Head1 \in OpType /\ Head1.call \in DOMAIN args /\ OpInv(Head1)
<1>1. queue \in Seq(OpType) /\ 1 \in DOMAIN queue
  BY DEF TypeInv
<1> QED  BY <1>1 DEF Head1, StreamInv, OpInv

LEMMA InitWrites ==
  ASSUME TypeInv, BufferInv, StreamInv, NEW p, RunInit(p)
  PROVE  LET h == Head1.call
         IN  Written(h, Struck(out[h].tokens, p), Struck(out[h].scores, p), out[h].traces,
                     out[h].entries, out[h].draws)
<1> DEFINE h == Head1.call
<1>1. PICK o : o = out[h]
  OBVIOUS
<1>2. h \in DOMAIN args /\ UNCHANGED args
  BY HeadCall DEF RunInit, Running, hostVars
<1>3. IsBuffers(o, args[h])
  BY <1>1, <1>2 DEF BufferInv
<1>4. PICK tk, sc, tr, en, dr :
        /\ tk = Struck(o.tokens, p) /\ sc = Struck(o.scores, p)
        /\ tr = o.traces /\ en = o.entries /\ dr = o.draws
  OBVIOUS
<1>5. out' = [out EXCEPT ![h] = [o EXCEPT !.tokens = tk, !.scores = sc]]
  <2>1. out' = [out EXCEPT ![h] = [out[h] EXCEPT !.tokens = Struck(out[h].tokens, p),
                                                 !.scores = Struck(out[h].scores, p)]]
    BY DEF RunInit, Buffer
  <2>2. [out[h] EXCEPT !.tokens = Struck(out[h].tokens, p), !.scores = Struck(out[h].scores, p)]
          = [o EXCEPT !.tokens = tk, !.scores = sc]
    BY <1>1, <1>4, Zenon
  <2> QED  BY <2>1, <2>2, Zenon
<1>6. PICK e : e = [o EXCEPT !.tokens = tk, !.scores = sc]
  OBVIOUS
<1>7. e = Buffers(tk, sc, tr, en, dr)
  <2>1. o = Buffers(o.tokens, o.scores, tr, en, dr)
    BY <1>3, <1>4, BuffersAre
  <2>2. o \in [tokens : {o.tokens}, scores : {o.scores}, traces : {tr}, entries : {en}, draws : {dr}]
    BY <2>1 DEF Buffers
  <2>3. e \in [tokens : {tk}, scores : {sc}, traces : {tr}, entries : {en}, draws : {dr}]
    BY <1>6, <2>2
  <2> QED  BY <2>3 DEF Buffers
<1>8. IsBuffers(e, args[h])
  <2>1. /\ DOMAIN o.tokens = 0 .. TokenCount(args[h]) - 1
        /\ DOMAIN tr = 0 .. TokenCount(args[h]) - 1
        /\ DOMAIN en = 0 .. TokenCount(args[h]) - 1
        /\ DOMAIN o.scores = 0 .. ScoreCount(args[h]) - 1
    BY <1>3, <1>4, BufferFields
  <2>2. DOMAIN tk = DOMAIN o.tokens /\ DOMAIN sc = DOMAIN o.scores
    BY <1>4 DEF Struck
  <2> QED  BY <1>7, <2>1, <2>2, MadeBuffers
<1>9. Written(h, e.tokens, e.scores, e.traces, e.entries, e.draws)
  <2>1. out' = [out EXCEPT ![h] = e]
    BY <1>5, <1>6, Zenon
  <2> QED  BY <1>2, <1>8, <2>1, OutWritten
<1>10. e.tokens = tk /\ e.scores = sc /\ e.traces = tr /\ e.entries = en /\ e.draws = dr
  BY <1>7, BuffersFields
<1> QED  BY <1>1, <1>4, <1>9, <1>10, Zenon

\* What a call's buffers become, whoever writes to them.
LEMMA BufferReplaced ==
  ASSUME TypeInv, BufferInv, NEW h \in DOMAIN args, UNCHANGED args,
         NEW tk, NEW sc, NEW tr, NEW en, NEW dr,
         DOMAIN tk = DOMAIN out[h].tokens, DOMAIN sc = DOMAIN out[h].scores,
         DOMAIN tr = DOMAIN out[h].traces, DOMAIN en = DOMAIN out[h].entries,
         NEW e, e = Buffers(tk, sc, tr, en, dr), out' = [out EXCEPT ![h] = e]
  PROVE  Written(h, tk, sc, tr, en, dr)
<1>1. IsBuffers(out[h], args[h])
  BY DEF BufferInv
<1>2. /\ DOMAIN tk = 0 .. TokenCount(args[h]) - 1 /\ DOMAIN tr = 0 .. TokenCount(args[h]) - 1
      /\ DOMAIN en = 0 .. TokenCount(args[h]) - 1 /\ DOMAIN sc = 0 .. ScoreCount(args[h]) - 1
  BY <1>1, BufferFields
<1>3. IsBuffers(e, args[h])
  BY <1>2, MadeBuffers
<1>4. Written(h, e.tokens, e.scores, e.traces, e.entries, e.draws)
  BY <1>3, OutWritten
<1>5. e.tokens = tk /\ e.scores = sc /\ e.traces = tr /\ e.entries = en /\ e.draws = dr
  BY BuffersFields
<1> QED  BY <1>4, <1>5

\* The current buffers of a call, field by field.
LEMMA BuffersNow ==
  ASSUME BufferInv, NEW h \in DOMAIN args, NEW o, o = out[h]
  PROVE  o \in [tokens : {o.tokens}, scores : {o.scores}, traces : {o.traces},
                entries : {o.entries}, draws : {o.draws}]
<1>1. IsBuffers(o, args[h])
  BY DEF BufferInv
<1>2. o = Buffers(o.tokens, o.scores, o.traces, o.entries, o.draws)
  BY <1>1, BuffersAre
<1> QED  BY <1>2 DEF Buffers

LEMMA DecodeWrites ==
  ASSUME TypeInv, BufferInv, StreamInv, NEW b, RunDecode(b)
  PROVE  LET h == Head1.call
             tokens == [x \in TokenSlots(args[h], b) |-> Address(TokenSlot(args[h], x))]
             scores == [x \in ScoreSlots(args[h], b) |-> ScoreSlot(args[h], x)]
         IN  Written(h, Store(out[h].tokens, tokens), Store(out[h].scores, scores),
                     IF args[h].entry = "full" THEN Store(out[h].traces, tokens)
                     ELSE out[h].traces, out[h].entries, out[h].draws)
<1> DEFINE h == Head1.call
           tokens == [x \in TokenSlots(args[h], b) |-> Address(TokenSlot(args[h], x))]
           scores == [x \in ScoreSlots(args[h], b) |-> ScoreSlot(args[h], x)]
<1>1. PICK o : o = out[h]
  OBVIOUS
<1>2. h \in DOMAIN args /\ UNCHANGED args
  BY HeadCall DEF RunDecode, Running, hostVars
<1>3. PICK tk, sc, tr, en, dr :
        /\ tk = Store(o.tokens, tokens) /\ sc = Store(o.scores, scores)
        /\ tr = IF args[h].entry = "full" THEN Store(o.traces, tokens) ELSE o.traces
        /\ en = o.entries /\ dr = o.draws
  OBVIOUS
<1>4. out' = [out EXCEPT ![h] = [o EXCEPT !.tokens = tk, !.scores = sc, !.traces = tr]]
  <2>1. out' = [out EXCEPT ![h] =
          [out[h] EXCEPT !.tokens = Store(out[h].tokens, tokens),
                         !.scores = Store(out[h].scores, scores),
                         !.traces = IF args[h].entry = "full" THEN Store(out[h].traces, tokens)
                                    ELSE out[h].traces]]
    BY DEF RunDecode, Buffer, Arg
  <2> HIDE DEF tokens, scores
  <2>2. [out[h] EXCEPT !.tokens = Store(out[h].tokens, tokens),
                       !.scores = Store(out[h].scores, scores),
                       !.traces = IF args[h].entry = "full" THEN Store(out[h].traces, tokens)
                                  ELSE out[h].traces]
          = [o EXCEPT !.tokens = tk, !.scores = sc, !.traces = tr]
    BY <1>1, <1>3, Zenon
  <2> QED  BY <2>1, <2>2, Zenon
<1> HIDE DEF tokens, scores
<1>5. PICK e : e = [o EXCEPT !.tokens = tk, !.scores = sc, !.traces = tr]
  OBVIOUS
<1>6. e = Buffers(tk, sc, tr, en, dr)
  <2>1. o \in [tokens : {o.tokens}, scores : {o.scores}, traces : {o.traces},
               entries : {en}, draws : {dr}]
    BY <1>1, <1>2, <1>3, BuffersNow
  <2>2. e \in [tokens : {tk}, scores : {sc}, traces : {tr}, entries : {en}, draws : {dr}]
    BY <1>5, <2>1
  <2> QED  BY <2>2 DEF Buffers
<1>7. /\ DOMAIN tk = DOMAIN o.tokens /\ DOMAIN sc = DOMAIN o.scores
      /\ DOMAIN tr = DOMAIN o.traces /\ DOMAIN en = DOMAIN o.entries
  BY <1>3 DEF Store
<1>8. out' = [out EXCEPT ![h] = e]
  BY <1>4, <1>5, Zenon
<1>9. Written(h, tk, sc, tr, en, dr)
  BY <1>1, <1>2, <1>6, <1>7, <1>8, BufferReplaced
<1> QED  BY <1>1, <1>3, <1>9, Zenon DEF tokens, scores

LEMMA DrawsWrites ==
  ASSUME TypeInv, BufferInv, StreamInv, NEW b, RunDraws(b)
  PROVE  LET h == Head1.call
         IN  Written(h, out[h].tokens, out[h].scores, out[h].traces, out[h].entries,
                     [out[h].draws EXCEPT ![b] = Draw[b]])
<1> DEFINE h == Head1.call
<1>1. PICK o : o = out[h]
  OBVIOUS
<1>2. h \in DOMAIN args /\ UNCHANGED args
  BY HeadCall DEF RunDraws, Running, hostVars
<1>3. PICK dr : dr = [o.draws EXCEPT ![b] = Draw[b]]
  OBVIOUS
<1>4. out' = [out EXCEPT ![h] = [o EXCEPT !.draws = dr]]
  BY <1>1, <1>3 DEF RunDraws
<1>5. PICK e : e = [o EXCEPT !.draws = dr]
  OBVIOUS
<1>6. e = Buffers(o.tokens, o.scores, o.traces, o.entries, dr)
  <2>1. o \in [tokens : {o.tokens}, scores : {o.scores}, traces : {o.traces},
               entries : {o.entries}, draws : {o.draws}]
    BY <1>1, <1>2, BuffersNow
  <2>2. e \in [tokens : {o.tokens}, scores : {o.scores}, traces : {o.traces},
               entries : {o.entries}, draws : {dr}]
    BY <1>5, <2>1
  <2> QED  BY <2>2 DEF Buffers
<1>7. out' = [out EXCEPT ![h] = e]
  BY <1>4, <1>5, Zenon
<1>8. Written(h, o.tokens, o.scores, o.traces, o.entries, dr)
  BY <1>1, <1>2, <1>6, <1>7, BufferReplaced
<1> QED  BY <1>1, <1>3, <1>8, Zenon

\* The entries of call h after lane l of the block of example b.
Built(h, b, l) ==
  LET a == args[h]
      mine == {x \in TokenSlots(a, b) : (x[2] * a.beam + x[3]) % Threads = l}
      Entry(x) == EntryOf(a, x, out[a.from].traces[TokenSlot(a, x)], out[h].draws[b][x[3]])
  IN  [i \in DOMAIN out[h].entries |->
         IF \E x \in mine : TokenSlot(a, x) = i
         THEN Entry(CHOOSE x \in mine : TokenSlot(a, x) = i)
         ELSE out[h].entries[i]]

LEMMA BuildWrites ==
  ASSUME TypeInv, BufferInv, StreamInv, NEW b, NEW l, RunBuild(b, l)
  PROVE  LET h == Head1.call
         IN  Written(h, out[h].tokens, out[h].scores, out[h].traces, Built(h, b, l), out[h].draws)
<1> DEFINE h == Head1.call
<1>1. PICK o : o = out[h]
  OBVIOUS
<1>2. h \in DOMAIN args /\ UNCHANGED args
  BY HeadCall DEF RunBuild, Running, hostVars
<1>3. out' = [out EXCEPT ![h].entries = Built(h, b, l)]
  BY Zenon DEF RunBuild, Built, Arg, Buffer
<1>4. PICK en : en = Built(h, b, l) /\ DOMAIN en = DOMAIN o.entries
  <2>1. DOMAIN Built(h, b, l) = DOMAIN out[h].entries
    BY Zenon DEF Built
  <2> QED  BY <1>1, <2>1
<1>5. PICK e : e = [o EXCEPT !.entries = en]
  OBVIOUS
<1>6. e = Buffers(o.tokens, o.scores, o.traces, en, o.draws)
  <2>1. o \in [tokens : {o.tokens}, scores : {o.scores}, traces : {o.traces},
               entries : {o.entries}, draws : {o.draws}]
    BY <1>1, <1>2, BuffersNow
  <2>2. e \in [tokens : {o.tokens}, scores : {o.scores}, traces : {o.traces},
               entries : {en}, draws : {o.draws}]
    BY <1>5, <2>1
  <2> QED  BY <2>2 DEF Buffers
<1>7. out' = [out EXCEPT ![h] = e]
  BY <1>1, <1>3, <1>4, <1>5
<1>8. Written(h, o.tokens, o.scores, o.traces, en, o.draws)
  BY <1>1, <1>2, <1>4, <1>6, <1>7, BufferReplaced
<1> QED  BY <1>1, <1>4, <1>8, Zenon

-----------------------------------------------------------------------------
(***************************************************************************)
(* The rest of the state has its type.  What is copied to the host has     *)
(* been set before: there is no copy on the stream without a memset ahead  *)
(* of it or behind it.                                                     *)
(***************************************************************************)

Prepared(n) ==
  \/ cell \in {"ok", "invalid"}
  \/ \E m \in DOMAIN queue : m < n /\ queue[m].kind = "memset"

PreparedInv ==
  /\ pc \in {"validate", "copy"} /\ ~faulted => Prepared(Len(queue) + 1)
  /\ \A n \in DOMAIN queue : queue[n].kind = "copy" => Prepared(n)

StateInv ==
  /\ host \in Status /\ cell \in {"none", "junk", "ok", "invalid"}
  /\ sync \in BOOLEAN /\ faulted \in BOOLEAN
  /\ waited \subseteq DOMAIN results

ShapeInv == ArgInv /\ BufferInv /\ StreamInv /\ StateInv /\ PreparedInv

LEMMA PreparedKept ==
  ASSUME PreparedInv, UNCHANGED <<queue, faulted>>, cell' \in {cell, "ok", "invalid"},
         pc' \in {"validate", "copy"} => pc \in {"validate", "copy"}
  PROVE  PreparedInv'
BY DEF PreparedInv, Prepared

LEMMA PreparedEnqueued ==
  ASSUME TypeInv, PreparedInv, NEW kind \in Kinds, Enqueue(kind), UNCHANGED <<cell, faulted>>,
         kind = "copy" => Prepared(Len(queue) + 1),
         pc' \in {"validate", "copy"} => kind = "memset" \/ Prepared(Len(queue) + 1)
  PROVE  PreparedInv'
<1>1. PICK op : op = Op(kind) /\ op.kind = kind
  <2>1. Op(kind).kind = kind
    BY DEF Op
  <2> QED  BY <2>1
<1>2. PICK k \in Nat : k = Len(queue)
  BY DEF TypeInv
<1>3. /\ DOMAIN queue = 1 .. k /\ DOMAIN queue' = 1 .. k + 1 /\ Len(queue') = k + 1
      /\ \A n \in 1 .. k : queue'[n] = queue[n]
      /\ queue'[k + 1] = op
  BY <1>1, <1>2 DEF TypeInv, Enqueue
<1>4. \A n \in 1 .. k + 1 : Prepared(n) => Prepared(n)'
  BY <1>3 DEF Prepared
<1>5. \A n \in DOMAIN queue' : queue'[n].kind = "copy" => Prepared(n)'
  BY <1>1, <1>2, <1>3, <1>4 DEF PreparedInv
<1>6. kind = "memset" => Prepared(k + 2)'
  BY <1>1, <1>3 DEF Prepared
<1>7. Prepared(k + 1) => Prepared(k + 2)'
  BY <1>3 DEF Prepared
<1> QED  BY <1>2, <1>3, <1>5, <1>6, <1>7 DEF PreparedInv

LEMMA PreparedAdvanced ==
  ASSUME TypeInv, PreparedInv, queue # <<>>, NEW p, Advance(p), UNCHANGED <<pc, faulted>>,
         \/ cell' = cell /\ Head1.kind # "memset"
         \/ cell' \in {"ok", "invalid"}
  PROVE  PreparedInv'
<1>1. CASE cell' \in {"ok", "invalid"}
  BY <1>1 DEF PreparedInv, Prepared
<1>2. CASE cell' = cell /\ Head1.kind # "memset" /\ queue' = queue
  BY <1>2 DEF PreparedInv, Prepared
<1>3. CASE cell' = cell /\ Head1.kind # "memset" /\ queue' = Tail(queue)
  <2>1. PICK k \in Nat : Len(queue) = k + 1
    <3>1. queue \in Seq(OpType) /\ Len(queue) \in Nat \ {0}
      BY DEF TypeInv
    <3>2. Len(queue) - 1 \in Nat /\ Len(queue) = (Len(queue) - 1) + 1
      BY <3>1
    <3> QED  BY <3>2
  <2>2. /\ DOMAIN queue = 1 .. k + 1 /\ DOMAIN queue' = 1 .. k /\ Len(queue') = k
        /\ \A n \in 1 .. k : queue'[n] = queue[n + 1]
    BY <1>3, <2>1 DEF TypeInv
  <2>3. ASSUME NEW n \in 1 .. k + 1, Prepared(n + 1)  PROVE Prepared(n)'
    <3>1. CASE cell \in {"ok", "invalid"}
      BY <1>3, <3>1 DEF Prepared
    <3>2. CASE cell \notin {"ok", "invalid"}
      <4>1. PICK m \in 1 .. k + 1 : m < n + 1 /\ queue[m].kind = "memset"
        BY <2>2, <2>3, <3>2 DEF Prepared
      <4>2. m # 1
        BY <1>3, <4>1 DEF Head1
      <4>3. m - 1 \in 1 .. k /\ m - 1 < n /\ queue'[m - 1] = queue[m]
        BY <2>2, <4>1, <4>2
      <4> QED  BY <2>2, <4>1, <4>3 DEF Prepared
    <3> QED  BY <3>1, <3>2
  <2>4. \A n \in DOMAIN queue' : queue'[n].kind = "copy" => Prepared(n)'
    <3> SUFFICES ASSUME NEW n \in 1 .. k, queue'[n].kind = "copy"  PROVE Prepared(n)'
      BY <2>2
    <3>1. n + 1 \in DOMAIN queue /\ queue[n + 1].kind = "copy" /\ n \in 1 .. k + 1
      BY <2>2
    <3> QED  BY <2>3, <3>1 DEF PreparedInv
  <2>5. pc' \in {"validate", "copy"} /\ ~faulted' => Prepared(k + 1)'
    <3>1. k + 1 \in 1 .. k + 1 /\ Len(queue) + 1 = (k + 1) + 1
      BY <2>1
    <3> QED  BY <2>3, <3>1 DEF PreparedInv
  <2> QED  BY <2>2, <2>4, <2>5 DEF PreparedInv
<1> QED  BY <1>1, <1>2, <1>3 DEF Advance

\* The calls that have returned, with one more perhaps.
LEMMA WaitedKept ==
  ASSUME TypeInv, waited \subseteq DOMAIN results,
         results' = results \/ \E status \in Status : results' = Append(results, status),
         \/ waited' = waited
         \/ /\ waited' = waited \cup {Len(results) + 1}
            /\ \E status \in Status : results' = Append(results, status)
  PROVE  waited' \subseteq DOMAIN results'
<1>1. ASSUME NEW status \in Status, results' = Append(results, status)
      PROVE  DOMAIN results' = DOMAIN results \cup {Len(results) + 1}
  BY <1>1, ReturnKeeps
<1> QED  BY <1>1

\* A step of the host within a call.
LEMMA HostShape ==
  ASSUME TypeInv, ShapeInv, pc # "idle", UNCHANGED <<args, out, done, faulted, sync>>,
         \/ queue' = queue
         \/ \E kind \in Kinds :
              Enqueue(kind) /\ (kind = "scatter" => Current.entry = "scatter"),
         results' = results \/ \E status \in Status : results' = Append(results, status),
         host' = host, cell' \in {"none", "junk", "ok", "invalid"},
         waited' \subseteq DOMAIN results', PreparedInv'
  PROVE  ShapeInv'
<1>1. ArgInv' /\ ArgsKept
  BY OtherArgs DEF ShapeInv
<1>2. BufferInv'
  BY DEF ShapeInv, BufferInv
<1>3. StreamInv'
  <2>1. CASE queue' = queue
    <3>1. ListGiven(Len(args))'
      BY DEF ShapeInv, StreamInv, ListGiven
    <3> QED  BY <1>1, <2>1, <3>1, StreamKept DEF ShapeInv
  <2>2. ASSUME NEW kind \in Kinds, Enqueue(kind), kind = "scatter" => Current.entry = "scatter"
        PROVE  StreamInv'
    BY <2>2, StreamEnqueued DEF ShapeInv
  <2> QED  BY <2>1, <2>2
<1>4. StateInv'
  BY DEF ShapeInv, StateInv
<1> QED  BY <1>1, <1>2, <1>3, <1>4 DEF ShapeInv

\* A step of the device.
LEMMA DeviceShape ==
  ASSUME TypeInv, ShapeInv, queue # <<>>, NEW p \in Parts(Head1) \ done, Advance(p),
         UNCHANGED <<args, results, pc, waited, sync, faulted>>,
         host' \in Status, BufferInv',
         \/ cell' = cell /\ Head1.kind # "memset"
         \/ cell' \in {"ok", "invalid"}
  PROVE  ShapeInv'
<1>1. ArgInv'
  BY DEF ShapeInv, ArgInv, Going
<1>2. StreamInv' /\ PreparedInv'
  BY StreamAdvanced, PreparedAdvanced DEF ShapeInv
<1>3. StateInv'
  BY DEF ShapeInv, StateInv
<1> QED  BY <1>1, <1>2, <1>3 DEF ShapeInv

\* A step that touches neither calls nor buffers.
LEMMA QuietShape ==
  ASSUME TypeInv, ShapeInv, UNCHANGED <<args, results, pc, waited, host, cell, out>>,
         UNCHANGED <<queue, done, faulted>> \/ (queue' = <<>> /\ done' = {} /\ faulted' = TRUE),
         sync' \in BOOLEAN
  PROVE  ShapeInv'
<1>1. ArgInv' /\ BufferInv' /\ StateInv'
  BY DEF ShapeInv, ArgInv, Going, BufferInv, StateInv
<1>2. StreamInv' /\ PreparedInv'
  <2>1. CASE UNCHANGED <<queue, done, faulted>>
    <3>1. Head1' = Head1
      BY <2>1 DEF Head1
    <3> QED
      BY <2>1, <3>1 DEF ShapeInv, StreamInv, ListGiven, OpInv, PartInv, PartsOf, PreparedInv,
         Prepared
  <2>2. CASE queue' = <<>> /\ done' = {} /\ faulted' = TRUE
    BY <2>2, EmptySeq DEF ShapeInv, StreamInv, ListGiven, PartInv, PreparedInv
  <2> QED  BY <2>1, <2>2
<1> QED  BY <1>1, <1>2 DEF ShapeInv

\* A call begins with fresh buffers of its own.
LEMMA BeginBuffers ==
  ASSUME TypeInv, BufferInv, NEW a \in Arguments, Begin(a)
  PROVE  /\ BufferInv'
         /\ \A c \in DOMAIN args : out'[c] = out[c]
         /\ Len(args') = Len(args) + 1 /\ args'[Len(args')] = a
         /\ out'[Len(args')].traces = out'[Len(args')].tokens
         /\ \A i \in DOMAIN out'[Len(args')].tokens : out'[Len(args')].tokens[i] = Junk
<1>1. /\ args \in Seq(ArgType) /\ a \in ArgType /\ args' = Append(args, a)
      /\ Len(out) = Len(args) /\ out' = Append(out, Fresh(a))
  BY ArgumentsType DEF TypeInv, Begin, BufferInv
<1>2. PICK n \in Nat : n = Len(args)
  BY <1>1
<1>3. PICK S : out \in Seq(S)
  BY DEF BufferInv
<1>4. PICK R : R = S \cup {Fresh(a)}
  OBVIOUS
<1>5. out \in Seq(R) /\ Fresh(a) \in R
  BY <1>3, <1>4
<1>6. PICK f : f = Fresh(a)
  OBVIOUS
<1>7. /\ out' \in Seq(R) /\ Len(out') = n + 1 /\ out'[n + 1] = f
      /\ \A c \in 1 .. n : out'[c] = out[c]
  BY <1>1, <1>2, <1>5, <1>6
<1>8. /\ Len(args') = n + 1 /\ DOMAIN args' = 1 .. n + 1 /\ args'[n + 1] = a
      /\ \A c \in 1 .. n : args'[c] = args[c]
      /\ DOMAIN args = 1 .. n
  BY <1>1, <1>2
<1>9. PICK tk, sc, en, dr :
        /\ f = Buffers(tk, sc, tk, en, dr)
        /\ tk = [i \in 0 .. TokenCount(a) - 1 |-> Junk]
        /\ sc = [i \in 0 .. ScoreCount(a) - 1 |-> Junk]
        /\ en = [i \in 0 .. TokenCount(a) - 1 |-> JunkEntry]
  BY <1>6 DEF Fresh, Buffers
<1>10. IsBuffers(f, a)
  BY <1>9, MadeBuffers
<1>11. f.tokens = tk /\ f.traces = tk
  BY <1>9, BuffersFields
<1>12. \A c \in DOMAIN args' : IsBuffers(out'[c], args'[c])
  BY <1>7, <1>8, <1>10 DEF BufferInv
<1>13. BufferInv'
  BY <1>7, <1>8, <1>12 DEF BufferInv
<1>14. \A i \in DOMAIN tk : tk[i] = Junk
  BY <1>9
<1> QED  BY <1>2, <1>7, <1>8, <1>11, <1>13, <1>14

LEMMA SameBuffers ==
  ASSUME TypeInv, BufferInv, UNCHANGED out, ArgsKept, Len(args') = Len(args),
         DOMAIN args' = DOMAIN args
  PROVE  BufferInv'
<1>1. ASSUME NEW c \in DOMAIN args  PROVE IsBuffers(out[c], args'[c])
  <2>1. args'[c].beam = args[c].beam
    BY DEF ArgsKept
  <2>2. TokenCount(args'[c]) = TokenCount(args[c]) /\ ScoreCount(args'[c]) = ScoreCount(args[c])
    BY <2>1 DEF TokenCount, ScoreCount
  <2>3. IsBuffers(out[c], args[c])
    BY DEF BufferInv
  <2> QED  BY <2>2, <2>3, BuffersAre
<1> QED  BY <1>1 DEF BufferInv

LEMMA InitShape == Init => ShapeInv
<1> SUFFICES ASSUME Init  PROVE ShapeInv
  OBVIOUS
<1>1. /\ args = <<>> /\ results = <<>> /\ queue = <<>> /\ out = <<>> /\ pc = "idle"
      /\ done = {} /\ cell = "none" /\ host = "failed" /\ waited = {}
      /\ sync = TRUE /\ faulted = FALSE
  BY DEF Init
<1>2. ArgInv /\ StateInv
  BY <1>1, EmptySeq DEF ArgInv, StateInv, Status
<1>3. BufferInv
  BY <1>1, EmptySeq DEF BufferInv
<1>4. StreamInv /\ PreparedInv
  BY <1>1, EmptySeq DEF StreamInv, PartInv, PreparedInv
<1> QED  BY <1>2, <1>3, <1>4 DEF ShapeInv

LEMMA BeginShape ==
  ASSUME TypeInv, ShapeInv, NEW a \in Arguments, Begin(a)
  PROVE  ShapeInv' /\ ArgsKept
<1>1. ArgInv' /\ ArgsKept /\ (pc' # "idle" => ListGiven(Len(args))')
  BY BeginArgs DEF ShapeInv
<1>2. BufferInv'
  BY BeginBuffers DEF ShapeInv
<1>3. UNCHANGED <<waited, sync, queue, done, faulted, cell>> /\ host' = "failed"
  BY DEF Begin, deviceVars
<1>4. StreamInv'
  BY <1>1, <1>3, StreamKept DEF ShapeInv
<1>5. /\ pc' \in {"idle", "grid", "launch"}
      /\ results' = results \/ \E status \in Status : results' = Append(results, status)
  BY DEF Begin, Return, Status
<1>6. waited' \subseteq DOMAIN results'
  BY <1>3, <1>5, WaitedKept DEF ShapeInv, StateInv
<1>7. StateInv'
  BY <1>3, <1>6 DEF ShapeInv, StateInv, Status
<1>8. PreparedInv'
  BY <1>3, <1>5, PreparedKept DEF ShapeInv
<1> QED  BY <1>1, <1>2, <1>4, <1>7, <1>8 DEF ShapeInv

LEMMA CheckGridShape ==
  ASSUME TypeInv, ShapeInv, CheckGrid
  PROVE  ShapeInv' /\ ArgsKept
<1>1. /\ pc = "grid"
      /\ UNCHANGED <<waited, sync, host, queue, done, faulted, cell, out>>
  BY DEF CheckGrid, deviceVars, memory
<1>2. ArgInv' /\ ArgsKept /\ (pc' # "idle" => ListGiven(Len(args))')
  BY <1>1, CheckGridArgs DEF ShapeInv, StreamInv
<1>3. Len(args') = Len(args) /\ DOMAIN args' = DOMAIN args
  <2>1. args \in Seq(ArgType)
    BY DEF TypeInv
  <2>2. CASE UNCHANGED args
    BY <2>2
  <2>3. CASE args' = [args EXCEPT ![Len(args)].entry = "fast"]
    BY <2>1, <2>3
  <2> QED  BY <2>2, <2>3 DEF CheckGrid
<1>4. BufferInv'
  BY <1>1, <1>2, <1>3, SameBuffers DEF ShapeInv
<1>5. StreamInv'
  BY <1>1, <1>2, StreamKept DEF ShapeInv
<1>6. /\ pc' \in {"idle", "grid", "init", "launch"}
      /\ results' = results \/ \E status \in Status : results' = Append(results, status)
  BY DEF CheckGrid, Return, Status
<1>7. waited' \subseteq DOMAIN results'
  BY <1>1, <1>6, WaitedKept DEF ShapeInv, StateInv
<1>8. StateInv'
  BY <1>1, <1>7 DEF ShapeInv, StateInv
<1>9. PreparedInv'
  BY <1>1, <1>6, PreparedKept DEF ShapeInv
<1> QED  BY <1>2, <1>4, <1>5, <1>8, <1>9 DEF ShapeInv

LEMMA LaunchInitShape ==
  ASSUME IInv, ShapeInv, LaunchInit
  PROVE  ShapeInv'
<1>1. PICK ok \in BOOLEAN : Submit("init", ok)
  BY DEF LaunchInit
<1>2. /\ pc = "init" /\ UNCHANGED <<args, host, waited, sync, done, faulted, cell, out>>
      /\ pc' \in {"idle", "malloc"}
      /\ results' = results \/ \E status \in Status : results' = Append(results, status)
  BY DEF LaunchInit, memory, Return, Status
<1>3. queue' = queue \/ Enqueue("init")
  BY <1>1 DEF Submit
<1>4. "init" \in Kinds
  BY DEF Kinds
<1>5. PreparedInv'
  BY <1>2, <1>3, <1>4, PreparedKept, PreparedEnqueued DEF IInv, ShapeInv
<1>6. waited' \subseteq DOMAIN results'
  BY <1>2, WaitedKept DEF IInv, ShapeInv, StateInv
<1> QED  BY <1>2, <1>3, <1>4, <1>5, <1>6, HostShape DEF IInv, ShapeInv, StateInv

LEMMA MallocShape ==
  ASSUME IInv, ShapeInv, Malloc
  PROVE  ShapeInv'
<1>1. /\ pc = "malloc" /\ UNCHANGED <<args, host, waited, sync, queue, done, faulted, out>>
      /\ pc' \in {"idle", "memset"} /\ cell' \in {cell, "junk"}
      /\ results' = results \/ \E status \in Status : results' = Append(results, status)
  BY DEF Malloc, deviceVars, Return, Status
<1>2. \A n \in DOMAIN queue : queue[n].kind # "copy"
  BY <1>1 DEF IInv, CellInv, InCheck, StatusKinds
<1>3. PreparedInv'
  BY <1>1, <1>2 DEF PreparedInv
<1>4. waited' \subseteq DOMAIN results'
  BY <1>1, WaitedKept DEF IInv, ShapeInv, StateInv
<1> QED  BY <1>1, <1>3, <1>4, HostShape DEF IInv, ShapeInv, StateInv

LEMMA CheckStepShape ==
  ASSUME IInv, ShapeInv, NEW kind \in StatusKinds, NEW at, NEW next, CheckStep(at, kind, next),
         at # "idle",
         kind = "copy" => at = "copy",
         next = "validate" => kind = "memset",
         next = "copy" => kind = "validate" /\ at = "validate"
  PROVE  ShapeInv'
<1>1. PICK ok \in BOOLEAN :
        Submit(kind, ok) /\ err' = IF kind = "validate" THEN lastError' ELSE ~ok
  BY DEF CheckStep
<1>2. /\ pc = at /\ pc' = IF err' THEN "free" ELSE next
      /\ UNCHANGED <<args, results, host, waited, sync, done, faulted, cell, out>>
  BY DEF CheckStep, memory
<1>3. /\ ok => Enqueue(kind) /\ ~faulted
      /\ ~ok => queue' = queue /\ pc' = "free"
  BY <1>1, <1>2 DEF Submit, Api, IInv, TypeInv, StateInv, ShapeInv
<1>4. kind \in Kinds /\ kind # "scatter"
  BY DEF StatusKinds, Kinds
<1>5. PreparedInv'
  <2>1. CASE ok
    <3>1. kind = "copy" => Prepared(Len(queue) + 1)
      BY <1>2, <1>3, <2>1 DEF ShapeInv, PreparedInv
    <3>2. pc' \in {"validate", "copy"} => kind = "memset" \/ Prepared(Len(queue) + 1)
      BY <1>2, <1>3, <2>1 DEF ShapeInv, PreparedInv
    <3> QED  BY <1>2, <1>3, <1>4, <2>1, <3>1, <3>2, PreparedEnqueued DEF IInv, ShapeInv
  <2>2. CASE ~ok
    BY <1>2, <1>3, <2>2, PreparedKept DEF ShapeInv
  <2> QED  BY <2>1, <2>2
<1> QED  BY <1>2, <1>3, <1>4, <1>5, HostShape DEF IInv, ShapeInv, StateInv

LEMMA AwaitStatusShape ==
  ASSUME IInv, ShapeInv, AwaitStatus
  PROVE  ShapeInv'
<1>1. /\ pc = "wait" /\ pc' = "free"
      /\ UNCHANGED <<args, results, host, waited, sync, queue, done, faulted, cell, out>>
  BY DEF AwaitStatus, deviceVars, memory
<1>2. PreparedInv'
  BY <1>1, PreparedKept DEF ShapeInv
<1> QED  BY <1>1, <1>2, HostShape DEF IInv, ShapeInv, StateInv

LEMMA FreeStatusShape ==
  ASSUME IInv, ShapeInv, FreeStatus
  PROVE  ShapeInv'
<1>1. /\ pc = "free" /\ pc' \in {"idle", "launch"} /\ queue = <<>> /\ cell' = "none"
      /\ UNCHANGED <<args, host, waited, sync, queue, done, faulted, out>>
      /\ results' = results \/ \E status \in Status : results' = Append(results, status)
  BY DEF FreeStatus, deviceVars, Return, Status
<1>2. PreparedInv'
  BY <1>1, EmptySeq DEF PreparedInv
<1>3. waited' \subseteq DOMAIN results'
  BY <1>1, WaitedKept DEF IInv, ShapeInv, StateInv
<1> QED  BY <1>1, <1>2, <1>3, HostShape DEF IInv, ShapeInv, StateInv

LEMMA LaunchWorkShape ==
  ASSUME IInv, ShapeInv, LaunchWork
  PROVE  ShapeInv'
<1>1. /\ pc = "launch" /\ pc' \in {"idle", "finish"}
      /\ UNCHANGED <<args, host, waited, sync, done, faulted, cell, out>>
      /\ results' = results \/ \E status \in Status : results' = Append(results, status)
  BY DEF LaunchWork, memory, Return, Status
<1>2. /\ Current.entry \in Decodes \cup {"build", "scatter"}
  <2>1. results \in Seq(Status) /\ args \in Seq(ArgType) /\ Len(args) = Len(results) + 1
    BY <1>1 DEF IInv, TypeInv
  <2>2. Current \in ArgType
    BY <2>1 DEF Current
  <2> QED  BY <2>2 DEF ArgType
<1>3. queue' = queue \/ Enqueue(Work(Current))
  BY DEF LaunchWork, Submit
<1>4. /\ Work(Current) \in Kinds /\ Work(Current) \notin {"copy", "memset"}
      /\ Work(Current) = "scatter" => Current.entry = "scatter"
  BY <1>2 DEF Work, Kinds, Decodes
<1>5. PreparedInv'
  BY <1>1, <1>3, <1>4, PreparedKept, PreparedEnqueued DEF IInv, ShapeInv
<1>6. waited' \subseteq DOMAIN results'
  BY <1>1, WaitedKept DEF IInv, ShapeInv, StateInv
<1> QED  BY <1>1, <1>3, <1>4, <1>5, <1>6, HostShape DEF IInv, ShapeInv, StateInv

LEMMA FinishShape ==
  ASSUME IInv, ShapeInv, Finish
  PROVE  ShapeInv'
<1>1. /\ pc = "finish" /\ pc' \in {"idle", "sync"}
      /\ UNCHANGED <<args, host, waited, sync, queue, done, faulted, cell, out>>
      /\ results' = results \/ \E status \in Status : results' = Append(results, status)
  BY DEF Finish, deviceVars, memory, Return, Status
<1>2. PreparedInv'
  BY <1>1, PreparedKept DEF ShapeInv
<1>3. waited' \subseteq DOMAIN results'
  BY <1>1, WaitedKept DEF IInv, ShapeInv, StateInv
<1> QED  BY <1>1, <1>2, <1>3, HostShape DEF IInv, ShapeInv, StateInv

LEMMA SynchronizeShape ==
  ASSUME IInv, ShapeInv, Synchronize
  PROVE  ShapeInv'
<1>1. /\ pc = "sync" /\ pc' = "idle"
      /\ UNCHANGED <<args, host, sync, queue, done, faulted, cell, out>>
      /\ \E status \in Status : results' = Append(results, status)
      /\ waited' = waited \/ waited' = waited \cup {Len(args)}
  BY DEF Synchronize, deviceVars, memory, Return, Status
<1>2. PreparedInv'
  BY <1>1, PreparedKept DEF ShapeInv
<1>3. Len(args) = Len(results) + 1
  BY <1>1 DEF IInv, TypeInv
<1>4. waited' \subseteq DOMAIN results'
  BY <1>1, <1>3, WaitedKept DEF IInv, ShapeInv, StateInv
<1> QED  BY <1>1, <1>2, <1>4, HostShape DEF IInv, ShapeInv, StateInv

LEMMA DeviceStepShape ==
  ASSUME IInv, ShapeInv, DeviceStep
  PROVE  ShapeInv'
<1> USE DEF IInv
<1>1. queue # <<>> /\ Head1.kind \in {"memset", "copy"} => 0 \in Parts(Head1) \ done
  BY DEF ShapeInv, StreamInv, PartInv, PartsOf, Parts
<1>2. CASE RunMemset
  <2>1. BufferInv'
    BY <1>2 DEF RunMemset, hostVars, ShapeInv, BufferInv
  <2> QED  BY <1>1, <1>2, <2>1, DeviceShape DEF RunMemset, Running, hostVars, ShapeInv, StateInv
<1>3. CASE RunCopy
  <2>1. BufferInv'
    BY <1>3 DEF RunCopy, memory, ShapeInv, BufferInv
  <2>2. 1 \in DOMAIN queue /\ queue[1].kind = "copy"
    BY <1>3 DEF RunCopy, Running, Head1, TypeInv
  <2>3. ~ \E m \in DOMAIN queue : m < 1
    BY DEF TypeInv
  <2>4. cell \in {"ok", "invalid"}
    BY <2>2, <2>3 DEF ShapeInv, PreparedInv, Prepared
  <2>5. host' \in Status
    BY <1>3, <2>4 DEF RunCopy, Status
  <2> QED  BY <1>1, <1>3, <2>1, <2>5, DeviceShape DEF RunCopy, Running, memory
<1>4. ASSUME NEW p \in 0 .. Threads - 1, RunInit(p)  PROVE ShapeInv'
  <2>1. BufferInv'
    BY <1>4, InitWrites DEF Written, ShapeInv
  <2> QED  BY <1>4, <2>1, DeviceShape DEF RunInit, Running, hostVars, ShapeInv, StateInv
<1>5. ASSUME NEW b \in Example, RunValidate(b)  PROVE ShapeInv'
  <2>1. BufferInv'
    BY <1>5 DEF RunValidate, hostVars, ShapeInv, BufferInv
  <2>2. cell' = cell \/ cell' = "invalid"
    BY <1>5 DEF RunValidate
  <2>3. /\ queue # <<>> /\ Head1.kind # "memset" /\ b \in Parts(Head1) \ done /\ Advance(b)
        /\ UNCHANGED <<args, results, pc, waited, sync, faulted, host>>
    BY <1>5 DEF RunValidate, Running, hostVars
  <2> QED  BY <2>1, <2>2, <2>3, DeviceShape DEF ShapeInv, StateInv
<1>6. ASSUME NEW b \in Example, RunDecode(b)  PROVE ShapeInv'
  <2>1. BufferInv'
    BY <1>6, DecodeWrites DEF Written, ShapeInv
  <2>2. /\ queue # <<>> /\ Head1.kind # "memset" /\ b \in Parts(Head1) \ done /\ Advance(b)
        /\ UNCHANGED <<args, results, pc, waited, sync, faulted, host, cell>>
    BY <1>6 DEF RunDecode, Running, hostVars
  <2> QED  BY <2>1, <2>2, DeviceShape DEF ShapeInv, StateInv
<1>7. ASSUME NEW b \in Example, RunDraws(b)  PROVE ShapeInv'
  <2>1. BufferInv'
    BY <1>7, DrawsWrites DEF Written, ShapeInv
  <2> QED  BY <1>7, <2>1, DeviceShape DEF RunDraws, Running, hostVars, ShapeInv, StateInv
<1>8. ASSUME NEW b \in Example, NEW l \in 0 .. Threads - 1, RunBuild(b, l)  PROVE ShapeInv'
  <2>1. BufferInv'
    BY <1>8, BuildWrites DEF Written, ShapeInv
  <2>2. /\ queue # <<>> /\ Head1.kind # "memset" /\ <<b, l>> \in Parts(Head1) \ done
        /\ Advance(<<b, l>>)
        /\ UNCHANGED <<args, results, pc, waited, sync, faulted, host, cell>>
    BY <1>8 DEF RunBuild, Running, hostVars
  <2> QED  BY <2>1, <2>2, DeviceShape DEF ShapeInv, StateInv
<1>9. ASSUME NEW i, RunScatter(i)  PROVE ShapeInv'
  <2>1. BufferInv'
    BY <1>9 DEF RunScatter, hostVars, ShapeInv, BufferInv
  <2> QED  BY <1>9, <2>1, DeviceShape DEF RunScatter, Running, hostVars, ShapeInv, StateInv
<1> QED  BY <1>2, <1>3, <1>4, <1>5, <1>6, <1>7, <1>8, <1>9 DEF DeviceStep

LEMMA NextShape == IInv /\ ShapeInv /\ [Next]_vars => ShapeInv'
<1> SUFFICES ASSUME IInv, ShapeInv, [Next]_vars  PROVE ShapeInv'
  OBVIOUS
<1> USE DEF IInv
<1>1. CASE \E a \in Arguments : Begin(a)
  BY <1>1, BeginShape
<1>2. CASE CheckGrid
  BY <1>2, CheckGridShape
<1>3. CASE LaunchInit
  BY <1>3, LaunchInitShape
<1>4. CASE Malloc
  BY <1>4, MallocShape
<1>5. CASE Memset
  BY <1>5, CheckStepShape DEF Memset, StatusKinds
<1>6. CASE LaunchValidate
  BY <1>6, CheckStepShape DEF LaunchValidate, StatusKinds
<1>7. CASE CopyStatus
  BY <1>7, CheckStepShape DEF CopyStatus, StatusKinds
<1>8. CASE AwaitStatus
  BY <1>8, AwaitStatusShape
<1>9. CASE FreeStatus
  BY <1>9, FreeStatusShape
<1>10. CASE LaunchWork
  BY <1>10, LaunchWorkShape
<1>11. CASE Finish
  BY <1>11, FinishShape
<1>12. CASE Synchronize
  BY <1>12, SynchronizeShape
<1>13. CASE DeviceStep
  BY <1>13, DeviceStepShape
<1>14. CASE Fault
  BY <1>14, QuietShape DEF Fault, hostVars, memory, ShapeInv, StateInv
<1>15. CASE SetSynchronization
  BY <1>15, QuietShape DEF SetSynchronization, hostVars, deviceVars, memory, ShapeInv, StateInv
<1>16. CASE UNCHANGED vars
  BY <1>16, QuietShape DEF vars, hostVars, deviceVars, memory, ShapeInv, StateInv
<1> QED
  BY <1>1, <1>2, <1>3, <1>4, <1>5, <1>6, <1>7, <1>8, <1>9, <1>10, <1>11, <1>12,
     <1>13, <1>14, <1>15, <1>16 DEF Next, HostStep

LEMMA ShapeInvariant == Spec => [](IInv /\ ShapeInv)
<1>1. IInv /\ ShapeInv /\ [Next]_vars => (IInv /\ ShapeInv)'
  BY NextInv, NextShape
<1> QED  BY InitInv, InitShape, <1>1, PTL DEF Spec

-----------------------------------------------------------------------------
(***************************************************************************)
(* Slots.  Places in a dense array are in range, and no two cells share    *)
(* one.                                                                    *)
(***************************************************************************)

LEMMA PlaceInRange ==
  ASSUME NEW m \in Nat, NEW n \in Nat, NEW i \in 0 .. m - 1, NEW k \in 0 .. n - 1
  PROVE  i * n + k \in 0 .. m * n - 1
<1>1. PICK d \in Nat : m = i + 1 + d
  <2>1. m - i - 1 \in Nat /\ m = i + 1 + (m - i - 1)
    OBVIOUS
  <2> QED  BY <2>1
<1>2. m * n = i * n + n + d * n
  BY <1>1
<1>3. i * n \in Nat /\ d * n \in Nat
  BY <1>1
<1> QED  BY <1>2, <1>3

LEMMA PlaceBelow ==
  ASSUME NEW n \in Nat, NEW i \in Nat, NEW j \in Nat, NEW k \in 0 .. n - 1, NEW l \in 0 .. n - 1,
         i < j
  PROVE  i * n + k < j * n + l
<1>1. PICK d \in Nat : j = i + 1 + d
  <2>1. j - i - 1 \in Nat /\ j = i + 1 + (j - i - 1)
    OBVIOUS
  <2> QED  BY <2>1
<1>2. j * n = i * n + n + d * n
  BY <1>1
<1>3. i * n \in Nat /\ d * n \in Nat
  BY <1>1
<1> QED  BY <1>2, <1>3

LEMMA PlaceUnique ==
  ASSUME NEW n \in Nat, NEW i \in Nat, NEW j \in Nat, NEW k \in 0 .. n - 1, NEW l \in 0 .. n - 1,
         i * n + k = j * n + l
  PROVE  i = j /\ k = l
<1>1. ~(i < j) /\ ~(j < i)
  <2>1. i * n \in Nat /\ j * n \in Nat
    OBVIOUS
  <2>2. ~(i * n + k < j * n + l) /\ ~(j * n + l < i * n + k)
    BY <2>1
  <2> QED  BY <2>2, PlaceBelow
<1>2. i = j
  BY <1>1
<1>3. i * n \in Nat
  OBVIOUS
<1> QED  BY <1>2, <1>3

Cells(a) == Example \X (0 .. Steps - 1) \X (0 .. a.beam - 1)
Rows(a) == Example \X (0 .. a.beam - 1)

LEMMA SizesNat == Batch \in Nat \ {0} /\ Steps \in Nat \ {0} /\ Threads \in Nat \ {0}
                    /\ IntLimit \in Nat /\ MaxBeam \in Nat
  BY SizesAssumption

LEMMA TokenSlotInRange ==
  ASSUME NEW a, a.beam \in Nat, NEW x \in Cells(a)
  PROVE  TokenSlot(a, x) \in 0 .. TokenCount(a) - 1
<1>1. PICK i, j, k \in Int : /\ x = <<i, j, k>> /\ i \in 0 .. Batch - 1 /\ j \in 0 .. Steps - 1
                             /\ k \in 0 .. a.beam - 1
  BY DEF Cells, Example
<1>2. PICK K \in Nat : K = a.beam
  OBVIOUS
<1>3. Batch \in Nat /\ Steps \in Nat
  BY SizesNat
<1>4. i * Steps + j \in 0 .. Batch * Steps - 1
  BY <1>1, <1>3, PlaceInRange
<1>5. Batch * Steps \in Nat
  BY <1>3
<1>6. (i * Steps + j) * K + k \in 0 .. (Batch * Steps) * K - 1
  BY <1>1, <1>2, <1>4, <1>5, PlaceInRange
<1> QED  BY <1>1, <1>2, <1>6 DEF TokenSlot, TokenCount

LEMMA TokenSlotUnique ==
  ASSUME NEW a, a.beam \in Nat, NEW x \in Cells(a), NEW y \in Cells(a),
         TokenSlot(a, x) = TokenSlot(a, y)
  PROVE  x = y
<1>1. PICK i, j, k \in Int : /\ x = <<i, j, k>> /\ i \in 0 .. Batch - 1 /\ j \in 0 .. Steps - 1
                             /\ k \in 0 .. a.beam - 1
  BY DEF Cells, Example
<1>2. PICK p, q, r \in Int : /\ y = <<p, q, r>> /\ p \in 0 .. Batch - 1 /\ q \in 0 .. Steps - 1
                             /\ r \in 0 .. a.beam - 1
  BY DEF Cells, Example
<1>3. PICK K \in Nat : K = a.beam
  OBVIOUS
<1>4. Batch \in Nat /\ Steps \in Nat
  BY SizesNat
<1>5. i * Steps + j \in Nat /\ p * Steps + q \in Nat
  BY <1>1, <1>2, <1>4
<1>6. (i * Steps + j) * K + k = (p * Steps + q) * K + r
  BY <1>1, <1>2, <1>3 DEF TokenSlot
<1>7. i * Steps + j = p * Steps + q /\ k = r
  <2>1. PICK u, v \in Nat : u = i * Steps + j /\ v = p * Steps + q
    BY <1>5
  <2>2. u * K + k = v * K + r
    BY <1>6, <2>1
  <2>3. k \in 0 .. K - 1 /\ r \in 0 .. K - 1
    BY <1>1, <1>2, <1>3
  <2>4. u = v /\ k = r
    BY <2>2, <2>3, PlaceUnique
  <2> QED  BY <2>1, <2>4
<1>8. i = p /\ j = q
  BY <1>1, <1>2, <1>4, <1>7, PlaceUnique
<1> QED  BY <1>1, <1>2, <1>7, <1>8

LEMMA ScoreSlotInRange ==
  ASSUME NEW a, a.beam \in Nat, NEW x \in Rows(a)
  PROVE  ScoreSlot(a, x) \in 0 .. ScoreCount(a) - 1
<1>1. PICK i, k \in Int : x = <<i, k>> /\ i \in 0 .. Batch - 1 /\ k \in 0 .. a.beam - 1
  BY DEF Rows, Example
<1>2. PICK K \in Nat : K = a.beam
  OBVIOUS
<1>3. i * K + k \in 0 .. Batch * K - 1
  BY <1>1, <1>2, SizesNat, PlaceInRange
<1> QED  BY <1>1, <1>2, <1>3 DEF ScoreSlot, ScoreCount

LEMMA ScoreSlotUnique ==
  ASSUME NEW a, a.beam \in Nat, NEW x \in Rows(a), NEW y \in Rows(a),
         ScoreSlot(a, x) = ScoreSlot(a, y)
  PROVE  x = y
<1>1. PICK i, k \in Int : x = <<i, k>> /\ i \in 0 .. Batch - 1 /\ k \in 0 .. a.beam - 1
  BY DEF Rows, Example
<1>2. PICK p, r \in Int : y = <<p, r>> /\ p \in 0 .. Batch - 1 /\ r \in 0 .. a.beam - 1
  BY DEF Rows, Example
<1>3. PICK K \in Nat : K = a.beam
  OBVIOUS
<1>4. i * K + k = p * K + r
  BY <1>1, <1>2, <1>3 DEF ScoreSlot
<1>5. i = p /\ k = r
  BY <1>1, <1>2, <1>3, <1>4, PlaceUnique
<1> QED  BY <1>1, <1>2, <1>5

\* The place of a cell in a dense array is the slot the kernels compute.
LEMMA RowMajorCells ==
  ASSUME NEW a, a.beam \in Nat, NEW x \in Cells(a)
  PROVE  RowMajor(<<Batch, Steps, a.beam>>, x) = TokenSlot(a, x)
<1>1. PICK i, j, k \in Int : /\ x = <<i, j, k>> /\ i \in 0 .. Batch - 1 /\ j \in 0 .. Steps - 1
                             /\ k \in 0 .. a.beam - 1
  BY DEF Cells, Example
<1>2. PICK K \in Nat : K = a.beam
  OBVIOUS
<1>3. Batch \in Nat /\ Steps \in Nat
  BY SizesNat
<1>4. PICK sizes : sizes = <<Batch, Steps, K>>
  OBVIOUS
<1> DEFINE At(f) == [n \in 0 .. Len(sizes) |->
                       IF n = 0 THEN 0 ELSE f[n - 1] * sizes[n] + x[n]]
           f0 == [n \in 0 .. 3 |-> IF n = 0 THEN 0 ELSE IF n = 1 THEN i
                                   ELSE IF n = 2 THEN i * Steps + j
                                   ELSE (i * Steps + j) * K + k]
<1>5. Len(sizes) = 3 /\ sizes[1] = Batch /\ sizes[2] = Steps /\ sizes[3] = K
  BY <1>4
<1>6. f0 = At(f0)
  <2>1. 0 * Batch + i = i
    BY <1>1, <1>3
  <2> QED  BY <1>1, <1>5, <2>1
<1>7. PICK f : f = (CHOOSE g : g = At(g))
  OBVIOUS
<1>8. f = At(f)
  BY <1>6, <1>7
<1>9. f[0] = 0 /\ f[1] = f[0] * Batch + i /\ f[2] = f[1] * Steps + j /\ f[3] = f[2] * K + k
  BY <1>1, <1>5, <1>8
<1>10. f[3] = (i * Steps + j) * K + k
  BY <1>1, <1>3, <1>9
<1>11. RowMajor(sizes, x) = f[3]
  BY <1>5, <1>7 DEF RowMajor
<1> QED  BY <1>1, <1>2, <1>4, <1>10, <1>11 DEF TokenSlot

LEMMA RowMajorRows ==
  ASSUME NEW a, a.beam \in Nat, NEW x \in Rows(a)
  PROVE  RowMajor(<<Batch, a.beam>>, x) = ScoreSlot(a, x)
<1>1. PICK i, k \in Int : x = <<i, k>> /\ i \in 0 .. Batch - 1 /\ k \in 0 .. a.beam - 1
  BY DEF Rows, Example
<1>2. PICK K \in Nat : K = a.beam
  OBVIOUS
<1>3. Batch \in Nat
  BY SizesNat
<1>4. PICK sizes : sizes = <<Batch, K>>
  OBVIOUS
<1> DEFINE At(f) == [n \in 0 .. Len(sizes) |->
                       IF n = 0 THEN 0 ELSE f[n - 1] * sizes[n] + x[n]]
           f0 == [n \in 0 .. 2 |-> IF n = 0 THEN 0 ELSE IF n = 1 THEN i ELSE i * K + k]
<1>5. Len(sizes) = 2 /\ sizes[1] = Batch /\ sizes[2] = K
  BY <1>4
<1>6. f0 = At(f0)
  <2>1. 0 * Batch + i = i
    BY <1>1, <1>3
  <2> QED  BY <1>1, <1>5, <2>1
<1>7. PICK f : f = (CHOOSE g : g = At(g))
  OBVIOUS
<1>8. f = At(f)
  BY <1>6, <1>7
<1>9. f[0] = 0 /\ f[1] = f[0] * Batch + i /\ f[2] = f[1] * K + k
  BY <1>1, <1>5, <1>8
<1>10. f[2] = i * K + k
  BY <1>1, <1>3, <1>9
<1>11. RowMajor(sizes, x) = f[2]
  BY <1>5, <1>7 DEF RowMajor
<1> QED  BY <1>1, <1>2, <1>4, <1>10, <1>11 DEF ScoreSlot

-----------------------------------------------------------------------------
(***************************************************************************)
(* What buffers hold.  A slot is settled, the examples of S having been    *)
(* decoded, when it is its own cell if the cell's example is in S and      *)
(* decodes it; for the variable launch any other cell is still filled.     *)
(***************************************************************************)

Settled(a, value, x, slots, S) ==
  /\ x[1] \in S /\ x \in slots => value = x
  /\ a.entry = "variable" /\ ~(x[1] \in S /\ x \in slots) => value = Fill

TokensHeld(a, tokens, S) ==
  \A x \in Cells(a) : Settled(a, tokens[TokenSlot(a, x)], x, TokenSlots(a, x[1]), S)

ScoresHeld(a, scores, S) ==
  \A x \in Rows(a) : Settled(a, scores[ScoreSlot(a, x)], x, ScoreSlots(a, x[1]), S)

Held(a, tokens, scores, S) ==
  (Countable(a) => TokensHeld(a, tokens, S)) /\ ScoresHeld(a, scores, S)

\* The elements of a strided array that the threads of S have filled.
Filled(buffer, S) == \A i \in DOMAIN buffer : i % Threads \in S => buffer[i] = Fill

Undecoded(buffer) == \A i \in DOMAIN buffer : buffer[i] \in {Junk, Fill}

LEMMA StoreHit ==
  ASSUME NEW buffer, NEW where, NEW x \in DOMAIN where, where[x] \in DOMAIN buffer,
         \A y \in DOMAIN where : where[y] = where[x] => y = x
  PROVE  Store(buffer, where)[where[x]] = x
<1>1. (CHOOSE y \in DOMAIN where : where[y] = where[x]) = x
  OBVIOUS
<1> QED  BY <1>1 DEF Store

LEMMA StoreMiss ==
  ASSUME NEW buffer, NEW where, NEW i \in DOMAIN buffer,
         \A y \in DOMAIN where : where[y] # i
  PROVE  Store(buffer, where)[i] = buffer[i]
BY DEF Store

\* The slots of an example with valid metadata are among the cells.
LEMMA SlotsAreCells ==
  ASSUME NEW a \in ArgType, NEW b \in Example, ~InvalidMetadata(a, b)
  PROVE  /\ TokenSlots(a, b) \subseteq Cells(a) /\ ScoreSlots(a, b) \subseteq Rows(a)
         /\ \A x \in TokenSlots(a, b) \cup ScoreSlots(a, b) : x[1] = b
<1>1. a.meta[b].steps \in 1 .. Steps /\ a.meta[b].beam \in 1 .. a.beam
  BY DEF InvalidMetadata
<1>2. /\ a.beam \in Int /\ Steps \in Nat
      /\ a.meta[b].steps \in Int /\ a.meta[b].beam \in Int
  BY <1>1, SizesNat DEF ArgType
<1>3. 0 .. a.meta[b].steps - 1 \subseteq 0 .. Steps - 1
  BY <1>1, <1>2
<1>4. 0 .. a.meta[b].beam - 1 \subseteq 0 .. a.beam - 1
  BY <1>1, <1>2
<1> QED  BY <1>3, <1>4 DEF TokenSlots, ScoreSlots, Cells, Rows

LEMMA TokensDecoded ==
  ASSUME NEW a \in ArgType, a.beam \in Nat, Countable(a), NEW b \in Example,
         ~InvalidMetadata(a, b),
         NEW tokens, DOMAIN tokens = 0 .. TokenCount(a) - 1,
         NEW S, TokensHeld(a, tokens, S)
  PROVE  TokensHeld(a, Store(tokens, [x \in TokenSlots(a, b) |-> Address(TokenSlot(a, x))]),
                    S \cup {b})
<1>1. PICK where : where = [x \in TokenSlots(a, b) |-> Address(TokenSlot(a, x))]
  OBVIOUS
<1>2. \A x \in Cells(a) : Address(TokenSlot(a, x)) = TokenSlot(a, x)
  <2> SUFFICES ASSUME NEW x \in Cells(a)  PROVE Address(TokenSlot(a, x)) = TokenSlot(a, x)
    OBVIOUS
  <2>1. PICK n : n = TokenSlot(a, x) /\ n \in 0 .. TokenCount(a) - 1
    BY TokenSlotInRange
  <2>2. TokenCount(a) \in Int /\ IntLimit \in Nat /\ TokenCount(a) <= IntLimit
    <3>1. Batch * Steps \in Nat
      BY SizesNat
    <3> QED  BY <3>1, SizesNat DEF TokenCount, Countable
  <2>3. n < IntLimit
    BY <2>1, <2>2
  <2> QED  BY <2>1, <2>3 DEF Address
<1>3. /\ DOMAIN where = TokenSlots(a, b) /\ TokenSlots(a, b) \subseteq Cells(a)
      /\ \A y \in TokenSlots(a, b) : y[1] = b /\ where[y] = TokenSlot(a, y)
  BY <1>1, <1>2, SlotsAreCells
<1>4. ASSUME NEW x \in Cells(a)
      PROVE  Settled(a, Store(tokens, where)[TokenSlot(a, x)], x, TokenSlots(a, x[1]), S \cup {b})
  <2>1. TokenSlot(a, x) \in DOMAIN tokens
    BY TokenSlotInRange
  <2>2. \A y \in TokenSlots(a, b) : where[y] = TokenSlot(a, x) => y = x
    BY <1>3, TokenSlotUnique
  <2>3. Settled(a, tokens[TokenSlot(a, x)], x, TokenSlots(a, x[1]), S)
    BY DEF TokensHeld
  <2>4. CASE x \in TokenSlots(a, b)
    <3>1. Store(tokens, where)[where[x]] = x
      <4>1. x \in DOMAIN where /\ where[x] \in DOMAIN tokens
        BY <1>3, <2>1, <2>4
      <4>2. \A y \in DOMAIN where : where[y] = where[x] => y = x
        BY <1>3, <2>2, <2>4
      <4> QED  BY <4>1, <4>2, StoreHit
    <3>2. where[x] = TokenSlot(a, x) /\ x[1] = b
      BY <1>3, <2>4
    <3> QED  BY <2>4, <3>1, <3>2 DEF Settled
  <2>5. CASE x \notin TokenSlots(a, b)
    <3>1. Store(tokens, where)[TokenSlot(a, x)] = tokens[TokenSlot(a, x)]
      BY <1>3, <2>1, <2>2, <2>5, StoreMiss
    <3>2. x[1] \in S \cup {b} /\ x \in TokenSlots(a, x[1]) => x[1] \in S
      BY <2>5
    <3> QED  BY <2>3, <3>1, <3>2 DEF Settled
  <2> QED  BY <2>4, <2>5
<1> QED  BY <1>1, <1>4 DEF TokensHeld

LEMMA ScoresDecoded ==
  ASSUME NEW a \in ArgType, a.beam \in Nat, NEW b \in Example, ~InvalidMetadata(a, b),
         NEW scores, DOMAIN scores = 0 .. ScoreCount(a) - 1,
         NEW S, ScoresHeld(a, scores, S)
  PROVE  ScoresHeld(a, Store(scores, [x \in ScoreSlots(a, b) |-> ScoreSlot(a, x)]), S \cup {b})
<1>1. PICK where : where = [x \in ScoreSlots(a, b) |-> ScoreSlot(a, x)]
  OBVIOUS
<1>3. /\ DOMAIN where = ScoreSlots(a, b) /\ ScoreSlots(a, b) \subseteq Rows(a)
      /\ \A y \in ScoreSlots(a, b) : y[1] = b /\ where[y] = ScoreSlot(a, y)
  BY <1>1, SlotsAreCells
<1>4. ASSUME NEW x \in Rows(a)
      PROVE  Settled(a, Store(scores, where)[ScoreSlot(a, x)], x, ScoreSlots(a, x[1]), S \cup {b})
  <2>1. ScoreSlot(a, x) \in DOMAIN scores
    BY ScoreSlotInRange
  <2>2. \A y \in ScoreSlots(a, b) : where[y] = ScoreSlot(a, x) => y = x
    BY <1>3, ScoreSlotUnique
  <2>3. Settled(a, scores[ScoreSlot(a, x)], x, ScoreSlots(a, x[1]), S)
    BY DEF ScoresHeld
  <2>4. CASE x \in ScoreSlots(a, b)
    <3>1. Store(scores, where)[where[x]] = x
      <4>1. x \in DOMAIN where /\ where[x] \in DOMAIN scores
        BY <1>3, <2>1, <2>4
      <4>2. \A y \in DOMAIN where : where[y] = where[x] => y = x
        BY <1>3, <2>2, <2>4
      <4> QED  BY <4>1, <4>2, StoreHit
    <3>2. where[x] = ScoreSlot(a, x) /\ x[1] = b
      BY <1>3, <2>4
    <3> QED  BY <2>4, <3>1, <3>2 DEF Settled
  <2>5. CASE x \notin ScoreSlots(a, b)
    <3>1. Store(scores, where)[ScoreSlot(a, x)] = scores[ScoreSlot(a, x)]
      BY <1>3, <2>1, <2>2, <2>5, StoreMiss
    <3>2. x[1] \in S \cup {b} /\ x \in ScoreSlots(a, x[1]) => x[1] \in S
      BY <2>5
    <3> QED  BY <2>3, <3>1, <3>2 DEF Settled
  <2> QED  BY <2>4, <2>5
<1> QED  BY <1>1, <1>4 DEF ScoresHeld

\* One more example decoded.
LEMMA HeldDecoded ==
  ASSUME NEW a \in ArgType, a.beam \in Nat, NEW b \in Example, ~InvalidMetadata(a, b),
         NEW tokens, DOMAIN tokens = 0 .. TokenCount(a) - 1,
         NEW scores, DOMAIN scores = 0 .. ScoreCount(a) - 1,
         NEW S, Held(a, tokens, scores, S)
  PROVE  Held(a, Store(tokens, [x \in TokenSlots(a, b) |-> Address(TokenSlot(a, x))]),
              Store(scores, [x \in ScoreSlots(a, b) |-> ScoreSlot(a, x)]), S \cup {b})
BY TokensDecoded, ScoresDecoded DEF Held

\* None decoded yet, and everything filled for a variable launch.
LEMMA HeldAtFirst ==
  ASSUME NEW a \in ArgType, a.beam \in Nat,
         NEW tokens, DOMAIN tokens = 0 .. TokenCount(a) - 1,
         NEW scores, DOMAIN scores = 0 .. ScoreCount(a) - 1,
         a.entry = "variable" =>
           Filled(tokens, 0 .. Threads - 1) /\ Filled(scores, 0 .. Threads - 1)
  PROVE  Held(a, tokens, scores, {})
<1>1. ASSUME NEW i \in Nat  PROVE i % Threads \in 0 .. Threads - 1
  BY SizesNat
<1>2. ASSUME NEW x \in Cells(a), a.entry = "variable"  PROVE tokens[TokenSlot(a, x)] = Fill
  <2>1. PICK n \in DOMAIN tokens : n = TokenSlot(a, x)
    BY TokenSlotInRange
  <2> QED  BY <1>1, <1>2, <2>1 DEF Filled
<1>3. ASSUME NEW x \in Rows(a), a.entry = "variable"  PROVE scores[ScoreSlot(a, x)] = Fill
  <2>1. PICK n \in DOMAIN scores : n = ScoreSlot(a, x)
    BY ScoreSlotInRange
  <2> QED  BY <1>1, <1>3, <2>1 DEF Filled
<1> QED  BY <1>2, <1>3 DEF Held, TokensHeld, ScoresHeld, Settled

\* A call whose metadata are uniform decodes every cell.
LEMMA UniformSlots ==
  ASSUME NEW a, a.meta = Uniform(a.beam), NEW b \in Example
  PROVE  /\ TokenSlots(a, b) = {b} \X (0 .. Steps - 1) \X (0 .. a.beam - 1)
         /\ ScoreSlots(a, b) = {b} \X (0 .. a.beam - 1)
         /\ a.beam \in 1 .. MaxBeam => ~InvalidMetadata(a, b)
<1>1. a.meta[b].steps = Steps /\ a.meta[b].beam = a.beam /\ a.meta[b].eos = -1 /\ a.meta[b].min = 0
  BY DEF Uniform
<1>2. Steps \in 1 .. Steps /\ -1 \in -1 .. Vocab - 1
  BY SizesAssumption
<1>3. a.beam \in 1 .. MaxBeam => a.beam \in 1 .. a.beam /\ ~(a.beam > MaxBeam)
  BY SizesNat
<1> QED  BY <1>1, <1>2, <1>3 DEF TokenSlots, ScoreSlots, InvalidMetadata

\* What has been decoded for all examples is what is promised.
LEMMA HeldByAll ==
  ASSUME NEW a \in ArgType, a.beam \in Nat, NEW tokens, NEW scores,
         a.entry # "variable" => a.meta = Uniform(a.beam),
         Countable(a), Held(a, tokens, scores, Example)
  PROVE  /\ \A x \in Cells(a) :
              tokens[RowMajor(<<Batch, Steps, a.beam>>, x)]
                = IF x \in TokenSlots(a, x[1]) THEN x ELSE Fill
         /\ \A x \in Rows(a) :
              scores[RowMajor(<<Batch, a.beam>>, x)]
                = IF x \in ScoreSlots(a, x[1]) THEN x ELSE Fill
<1>1. ASSUME NEW x \in Cells(a)
      PROVE  tokens[RowMajor(<<Batch, Steps, a.beam>>, x)]
               = IF x \in TokenSlots(a, x[1]) THEN x ELSE Fill
  <2>1. RowMajor(<<Batch, Steps, a.beam>>, x) = TokenSlot(a, x)
    BY RowMajorCells
  <2>2. x[1] \in Example
    BY DEF Cells
  <2>3. a.entry # "variable" => x \in TokenSlots(a, x[1])
    BY <2>2, UniformSlots DEF Cells
  <2> QED  BY <2>1, <2>2, <2>3 DEF Held, TokensHeld, Settled
<1>2. ASSUME NEW x \in Rows(a)
      PROVE  scores[RowMajor(<<Batch, a.beam>>, x)]
               = IF x \in ScoreSlots(a, x[1]) THEN x ELSE Fill
  <2>1. RowMajor(<<Batch, a.beam>>, x) = ScoreSlot(a, x)
    BY RowMajorRows
  <2>2. x[1] \in Example
    BY DEF Rows
  <2>3. a.entry # "variable" => x \in ScoreSlots(a, x[1])
    BY <2>2, UniformSlots DEF Rows
  <2> QED  BY <2>1, <2>2, <2>3 DEF Held, ScoresHeld, Settled
<1> QED  BY <1>1, <1>2

-----------------------------------------------------------------------------
(***************************************************************************)
(* What is known of each operation on the stream and of each call.         *)
(***************************************************************************)

AllValid(c) == \A b \in Example : ~InvalidMetadata(args[c], b)
Holds(c, S) == Held(args[c], out[c].tokens, out[c].scores, S)
FilledBy(c, S) == Filled(out[c].tokens, S) /\ Filled(out[c].scores, S)
Blank(c) == FilledBy(c, 0 .. Threads - 1)
InFlight(kind, c) == \E k \in DOMAIN queue : queue[k].kind = kind /\ queue[k].call = c

\* A call is filled before it is reported ok, and decoded once, all of its
\* metadata being valid, when nothing on the stream fills it any more.
OpOk(k) ==
  /\ queue[k].kind = "init" =>
       /\ args[queue[k].call].entry = "variable"
       /\ queue[k].call \in DOMAIN results => results[queue[k].call] # "ok"
  /\ queue[k].kind = "decode" =>
       /\ args[queue[k].call].entry \in Decodes
       /\ AllValid(queue[k].call)
       /\ Holds(queue[k].call, IF k = 1 THEN done ELSE {})
  /\ queue[k].kind \in {"init", "decode"} =>
       \A m \in DOMAIN queue :
         queue[m].kind = "decode" /\ queue[m].call = queue[k].call => m = k

QueueInv == \A k \in DOMAIN queue : OpOk(k)

\* A call whose decode the runtime has taken, and one that never got there.
Accepted(c) ==
  \/ c \in DOMAIN results /\ results[c] = "ok"
  \/ c \notin DOMAIN results /\ pc \in {"finish", "sync"} /\ ~err

Unstarted(c) ==
  IF c \in DOMAIN results THEN results[c] = "invalid" ELSE pc \notin {"finish", "sync"}

CallOk(c) ==
  /\ args[c].entry = "full" => out[c].traces = out[c].tokens
  /\ args[c].entry \in Decodes /\ Accepted(c) =>
       /\ AllValid(c)
       /\ c \in waited \/ (~faulted /\ ~InFlight("decode", c)) => Holds(c, Example)
  /\ Unstarted(c) => Undecoded(out[c].tokens) /\ ~InFlight("decode", c)

CallInv ==
  /\ \A c \in waited : results[c] = "ok"
  /\ \A c \in DOMAIN args : CallOk(c)

\* The sequences of a state, as far as their shapes go.
LEMMA Shapes ==
  ASSUME IInv, ShapeInv
  PROVE  /\ args \in Seq(ArgType) /\ DOMAIN args = 1 .. Len(args) /\ Len(args) \in Nat
         /\ results \in Seq(Status) /\ DOMAIN results = 1 .. Len(results) /\ Len(results) \in Nat
         /\ Len(args) = Len(results) + (IF pc = "idle" THEN 0 ELSE 1)
         /\ queue \in Seq(OpType) /\ DOMAIN queue = 1 .. Len(queue) /\ Len(queue) \in Nat
         /\ \A k \in DOMAIN queue : queue[k] \in OpType /\ queue[k].call \in DOMAIN args
         /\ waited \subseteq DOMAIN results
<1>1. args \in Seq(ArgType) /\ results \in Seq(Status) /\ queue \in Seq(OpType)
  BY DEF IInv, TypeInv
<1>2. \A k \in DOMAIN queue : queue[k].call \in DOMAIN args
  BY DEF ShapeInv, StreamInv, OpInv
<1>3. /\ Len(args) = Len(results) + (IF pc = "idle" THEN 0 ELSE 1)
      /\ waited \subseteq DOMAIN results
  BY DEF IInv, TypeInv, ShapeInv, StateInv
<1> QED  BY <1>1, <1>2, <1>3

\* A step that makes the latest call, or moves it on before anything of it is
\* on the stream.
LEMMA LatestCall ==
  ASSUME IInv, ShapeInv, QueueInv, CallInv, NEW n \in Nat, n = Len(results) + 1,
         DOMAIN args' = 1 .. n,
         \A c \in 1 .. n - 1 : args'[c] = args[c] /\ out'[c] = out[c],
         \A k \in DOMAIN queue : queue[k].call \in 1 .. n - 1,
         UNCHANGED <<queue, done, faulted, waited>>,
         pc' \notin {"finish", "sync"},
         \/ results' = results
         \/ \E status \in Status : /\ results' = Append(results, status)
                                   /\ status = "ok" => args'[n].entry \notin Decodes,
         args'[n].entry = "full" => out'[n].traces = out'[n].tokens,
         Undecoded(out'[n].tokens)
  PROVE  QueueInv' /\ CallInv'
<1>1. DOMAIN results = 1 .. n - 1 /\ n - 1 = Len(results)
  <2>1. Len(results) \in Nat /\ DOMAIN results = 1 .. Len(results)
    BY Shapes
  <2> QED  BY <2>1
<1>2. /\ \A c \in 1 .. n - 1 : c \in DOMAIN results' /\ results'[c] = results[c]
      /\ n \in DOMAIN results' /\ results'[n] = "ok" => args'[n].entry \notin Decodes
      /\ DOMAIN results' \subseteq 1 .. n
  <2>1. CASE results' = results
    BY <1>1, <2>1
  <2>2. ASSUME NEW status \in Status, results' = Append(results, status),
               status = "ok" => args'[n].entry \notin Decodes
        PROVE  /\ \A c \in 1 .. n - 1 : c \in DOMAIN results' /\ results'[c] = results[c]
               /\ n \in DOMAIN results' /\ results'[n] = "ok" => args'[n].entry \notin Decodes
               /\ DOMAIN results' \subseteq 1 .. n
    <3>1. /\ DOMAIN results' = DOMAIN results \cup {Len(results) + 1}
          /\ \A c \in DOMAIN results : results'[c] = results[c]
          /\ results'[Len(results) + 1] = status
      BY <2>2, ReturnKeeps DEF IInv
    <3>2. DOMAIN results' = 1 .. n /\ results'[n] = status
      BY <1>1, <3>1
    <3> QED  BY <1>1, <2>2, <3>1, <3>2
  <2> QED  BY <2>1, <2>2
<1>3. ASSUME NEW k \in DOMAIN queue'  PROVE OpOk(k)'
  <2>1. PICK c : c = queue[k].call /\ c \in 1 .. n - 1
    OBVIOUS
  <2>2. args'[c] = args[c] /\ out'[c] = out[c] /\ c \in DOMAIN results /\ results'[c] = results[c]
    BY <1>1, <1>2, <2>1
  <2>3. OpOk(k)
    BY DEF QueueInv
  <2> QED  BY <2>1, <2>2, <2>3 DEF OpOk, AllValid, Holds
<1>4. ASSUME NEW c \in 1 .. n - 1  PROVE CallOk(c)'
  <2>1. args'[c] = args[c] /\ out'[c] = out[c] /\ c \in DOMAIN results /\ results'[c] = results[c]
        /\ c \in DOMAIN results'
    BY <1>1, <1>2
  <2>2. c \in DOMAIN args
    <3>1. /\ Len(args) = Len(results) + (IF pc = "idle" THEN 0 ELSE 1)
          /\ DOMAIN args = 1 .. Len(args) /\ Len(results) \in Nat
      BY Shapes
    <3> QED  BY <1>1, <3>1
  <2>3. CallOk(c)
    BY <2>2 DEF CallInv
  <2>4. /\ InFlight("decode", c)' <=> InFlight("decode", c)
        /\ Accepted(c)' <=> Accepted(c)
        /\ Unstarted(c)' <=> Unstarted(c)
    BY <2>1 DEF InFlight, Accepted, Unstarted
  <2> QED  BY <2>1, <2>3, <2>4 DEF CallOk, AllValid, Holds
<1>5. CallOk(n)'
  <2>1. ~InFlight("decode", n)'
    BY DEF InFlight
  <2>2. args'[n].entry \in Decodes => ~Accepted(n)'
    BY <1>2 DEF Accepted
  <2> QED  BY <2>1, <2>2 DEF CallOk
<1>6. \A c \in waited' : results'[c] = "ok"
  BY <1>1, <1>2, Shapes DEF CallInv
<1> QED  BY <1>3, <1>4, <1>5, <1>6 DEF QueueInv, CallInv

\* The host within a call: what may have come to the stream and the results.
LEMMA Enqueued ==
  ASSUME IInv, ShapeInv, NEW kind \in Kinds, Enqueue(kind)
  PROVE  /\ DOMAIN queue' = DOMAIN queue \cup {Len(queue) + 1}
         /\ Len(queue) + 1 \notin DOMAIN queue /\ Len(queue') = Len(queue) + 1
         /\ \A k \in DOMAIN queue : queue'[k] = queue[k]
         /\ queue'[Len(queue) + 1].kind = kind /\ queue'[Len(queue) + 1].call = Len(args)
<1>1. PICK op \in OpType : op = Op(kind) /\ op.kind = kind /\ op.call = Len(args)
  <2>1. Op(kind) \in OpType /\ Op(kind).kind = kind /\ Op(kind).call = Len(args)
    BY Shapes DEF Op, OpType
  <2> QED  BY <2>1
<1>2. queue \in Seq(OpType) /\ queue' = Append(queue, op)
  BY <1>1, Shapes DEF Enqueue
<1> QED  BY <1>1, <1>2

LEMMA InFlightEnqueued ==
  ASSUME IInv, ShapeInv, NEW kind \in Kinds, Enqueue(kind)
  PROVE  \A other, c : InFlight(other, c)' <=>
           InFlight(other, c) \/ (other = kind /\ c = Len(args))
BY Enqueued DEF InFlight

LEMMA QueueHost ==
  ASSUME IInv, ShapeInv, QueueInv, pc # "idle", NEW n \in Nat, n = Len(args),
         UNCHANGED <<args, out, done>>,
         \/ results' = results
         \/ \E status \in Status : /\ results' = Append(results, status)
                                   /\ status = "ok" => ~InFlight("init", n)',
         \/ queue' = queue
         \/ \E kind \in Kinds :
              /\ Enqueue(kind)
              /\ kind \in {"init", "decode"} => ~Pending(n)
              /\ kind = "init" => args[n].entry = "variable"
              /\ kind = "decode" => args[n].entry \in Decodes /\ AllValid(n) /\ Holds(n, {})
  PROVE  QueueInv'
<1>1. /\ DOMAIN results = 1 .. n - 1 /\ n \notin DOMAIN results /\ DOMAIN args = 1 .. n
      /\ Len(results) + 1 = n
  <2>1. /\ Len(args) = Len(results) + 1 /\ DOMAIN args = 1 .. Len(args)
        /\ DOMAIN results = 1 .. Len(results) /\ Len(results) \in Nat
    BY Shapes
  <2> QED  BY <2>1
<1>2. ASSUME NEW c \in DOMAIN args, InFlight("init", c)',
             c \in DOMAIN results => results[c] # "ok"
      PROVE  c \in DOMAIN results' => results'[c] # "ok"
  <2>1. CASE results' = results
    BY <1>2, <2>1
  <2>2. ASSUME NEW status \in Status, results' = Append(results, status),
               status = "ok" => ~InFlight("init", n)'
        PROVE  c \in DOMAIN results' => results'[c] # "ok"
    <3>1. /\ DOMAIN results' = DOMAIN results \cup {n}
          /\ \A d \in DOMAIN results : results'[d] = results[d]
          /\ results'[n] = status
      BY <1>1, <2>2, ReturnKeeps DEF IInv
    <3> QED  BY <1>2, <2>2, <3>1
  <2> QED  BY <2>1, <2>2
<1>3. CASE queue' = queue
  <2> SUFFICES ASSUME NEW k \in DOMAIN queue  PROVE OpOk(k)'
    BY <1>3 DEF QueueInv
  <2>1. OpOk(k) /\ queue[k].call \in DOMAIN args
    BY Shapes DEF QueueInv
  <2>2. queue[k].kind = "init" =>
          (queue[k].call \in DOMAIN results' => results'[queue[k].call] # "ok")
    BY <1>2, <1>3, <2>1 DEF OpOk, InFlight
  <2> QED  BY <1>3, <2>1, <2>2 DEF OpOk, AllValid, Holds
<1>4. ASSUME NEW kind \in Kinds, Enqueue(kind),
             kind \in {"init", "decode"} => ~Pending(n),
             kind = "init" => args[n].entry = "variable",
             kind = "decode" => args[n].entry \in Decodes /\ AllValid(n) /\ Holds(n, {})
      PROVE  QueueInv'
  <2>1. PICK l \in Nat \ {0} : l = Len(queue) + 1
    BY Shapes
  <2>2. /\ DOMAIN queue' = DOMAIN queue \cup {l} /\ l \notin DOMAIN queue
        /\ \A k \in DOMAIN queue : queue'[k] = queue[k]
        /\ queue'[l].kind = kind /\ queue'[l].call = n
    BY <1>4, <2>1, Enqueued
  <2>3. \A k \in DOMAIN queue' : queue'[k].call \in DOMAIN args
    BY <1>1, <2>2, Shapes
  <2>4. ASSUME NEW k \in DOMAIN queue', queue'[k].kind = "init"
        PROVE  /\ args[queue'[k].call].entry = "variable"
               /\ queue'[k].call \in DOMAIN results' => results'[queue'[k].call] # "ok"
    <3>1. PICK c \in DOMAIN args : c = queue'[k].call
      BY <2>3
    <3>2. InFlight("init", c)'
      BY <2>4, <3>1 DEF InFlight
    <3>3. /\ args[c].entry = "variable"
          /\ c \in DOMAIN results => results[c] # "ok"
      BY <1>1, <1>4, <2>2, <2>4, <3>1 DEF QueueInv, OpOk
    <3> QED  BY <1>2, <3>1, <3>2, <3>3
  <2>5. ASSUME NEW k \in DOMAIN queue', queue'[k].kind = "decode"
        PROVE  /\ args[queue'[k].call].entry \in Decodes
               /\ AllValid(queue'[k].call)
               /\ Holds(queue'[k].call, IF k = 1 THEN done ELSE {})
    <3>1. CASE k \in DOMAIN queue
      BY <2>2, <2>5, <3>1 DEF QueueInv, OpOk
    <3>2. CASE k = l
      <4>1. k = 1 => done = {}
        <5>1. k = 1 => queue = <<>>
          BY <2>1, <3>2, Shapes
        <5> QED  BY <5>1 DEF ShapeInv, StreamInv, PartInv
      <4> QED  BY <1>4, <2>2, <2>5, <3>2, <4>1
    <3> QED  BY <2>2, <3>1, <3>2
  <2>6. ASSUME NEW k \in DOMAIN queue', queue'[k].kind \in {"init", "decode"},
               NEW m \in DOMAIN queue', queue'[m].kind = "decode",
               queue'[m].call = queue'[k].call
        PROVE  m = k
    <3>1. CASE k \in DOMAIN queue /\ m \in DOMAIN queue
      BY <2>2, <2>6, <3>1 DEF QueueInv, OpOk
    <3>2. CASE k = l /\ m \in DOMAIN queue
      BY <1>4, <2>2, <2>6, <3>2 DEF Pending
    <3>3. CASE k \in DOMAIN queue /\ m = l
      BY <1>4, <2>2, <2>6, <3>3 DEF Pending
    <3> QED  BY <2>2, <3>1, <3>2, <3>3
  <2>7. ASSUME NEW c, NEW S  PROVE (AllValid(c)' <=> AllValid(c)) /\ (Holds(c, S)' <=> Holds(c, S))
    BY DEF AllValid, Holds
  <2>8. ASSUME NEW k \in DOMAIN queue'  PROVE OpOk(k)'
    <3>1. PICK c, S : c = queue'[k].call /\ S = IF k = 1 THEN done ELSE {}
      OBVIOUS
    <3>2. queue'[k].kind = "decode" => AllValid(c)' /\ Holds(c, S)'
      BY <2>5, <2>7, <3>1
    <3> QED  BY <2>4, <2>5, <2>6, <3>1, <3>2 DEF OpOk
  <2> QED  BY <2>8 DEF QueueInv
<1> QED  BY <1>3, <1>4

LEMMA CallHost ==
  ASSUME IInv, ShapeInv, CallInv, pc # "idle", NEW n \in Nat, n = Len(args),
         UNCHANGED <<args, out, faulted>>,
         \/ queue' = queue
         \/ \E kind \in Kinds : Enqueue(kind) /\ (kind = "decode" => ~Unstarted(n)'),
         \/ /\ results' = results
            /\ Unstarted(n)' => Unstarted(n)
            /\ waited' = waited
            /\ args[n].entry \in Decodes /\ Accepted(n)' =>
                 \/ Accepted(n) /\ queue' = queue
                 \/ AllValid(n) /\ InFlight("decode", n)'
         \/ \E status \in Status :
              /\ results' = Append(results, status)
              /\ queue' = queue \/ status = "failed"
              /\ status = "ok" => Accepted(n) \/ args[n].entry \notin Decodes
              /\ status = "invalid" => Unstarted(n)
              /\ \/ waited' = waited
                 \/ waited' = waited \cup {n} /\ status = "ok" /\ queue = <<>> /\ ~faulted
  PROVE  CallInv'
<1>1. /\ DOMAIN results = 1 .. n - 1 /\ n \notin DOMAIN results /\ DOMAIN args = 1 .. n
      /\ Len(results) + 1 = n /\ waited \subseteq DOMAIN results
  <2>1. /\ Len(args) = Len(results) + 1 /\ DOMAIN args = 1 .. Len(args)
        /\ DOMAIN results = 1 .. Len(results) /\ Len(results) \in Nat
        /\ waited \subseteq DOMAIN results
    BY Shapes
  <2> QED  BY <2>1
<1>2. /\ \A c \in DOMAIN results : c \in DOMAIN results' /\ results'[c] = results[c]
      /\ waited' \subseteq waited \cup {n}
  <2>1. ASSUME NEW status \in Status, results' = Append(results, status)
        PROVE  \A c \in DOMAIN results : c \in DOMAIN results' /\ results'[c] = results[c]
    BY <2>1, ReturnKeeps DEF IInv
  <2> QED  BY <2>1
<1>3. ASSUME NEW c  PROVE /\ InFlight("decode", c) => InFlight("decode", c)'
                          /\ c # n => (InFlight("decode", c)' => InFlight("decode", c))
                          /\ ~Unstarted(n)' \/ (InFlight("decode", c)' => InFlight("decode", c))
  <2>1. CASE queue' = queue
    BY <2>1 DEF InFlight
  <2>2. ASSUME NEW kind \in Kinds, Enqueue(kind), kind = "decode" => ~Unstarted(n)'
        PROVE  /\ InFlight("decode", c) => InFlight("decode", c)'
               /\ c # n => (InFlight("decode", c)' => InFlight("decode", c))
               /\ ~Unstarted(n)' \/ (InFlight("decode", c)' => InFlight("decode", c))
    BY <2>2, InFlightEnqueued
  <2> QED  BY <2>1, <2>2
<1>4. ASSUME NEW c, NEW S
      PROVE  (AllValid(c)' <=> AllValid(c)) /\ (Holds(c, S)' <=> Holds(c, S))
  BY DEF AllValid, Holds
<1>5. ASSUME NEW c \in 1 .. n - 1  PROVE CallOk(c)'
  <2>1. /\ c \in DOMAIN results /\ c # n /\ c \in DOMAIN args
        /\ c \in DOMAIN results' /\ results'[c] = results[c]
    BY <1>1, <1>2
  <2>2. /\ Accepted(c)' <=> Accepted(c)
        /\ Unstarted(c)' <=> Unstarted(c)
        /\ c \in waited' <=> c \in waited
    BY <1>2, <2>1 DEF Accepted, Unstarted
  <2> QED  BY <1>3, <1>4, <2>1, <2>2 DEF CallInv, CallOk
<1>6. CallOk(n)'
  <2>1. CallOk(n) /\ n \notin waited
    BY <1>1 DEF CallInv
  <2>2. CASE /\ results' = results
             /\ Unstarted(n)' => Unstarted(n)
             /\ waited' = waited
             /\ args[n].entry \in Decodes /\ Accepted(n)' =>
                  \/ Accepted(n) /\ queue' = queue
                  \/ AllValid(n) /\ InFlight("decode", n)'
    <3>1. args[n].entry \in Decodes /\ Accepted(n)' =>
            /\ AllValid(n)
            /\ n \in waited' \/ (~faulted /\ ~InFlight("decode", n)') => Holds(n, Example)
      BY <1>3, <2>1, <2>2 DEF CallOk
    <3> QED  BY <1>3, <1>4, <2>1, <2>2, <3>1 DEF CallOk
  <2>3. ASSUME NEW status \in Status, results' = Append(results, status),
               queue' = queue \/ status = "failed",
               status = "ok" => Accepted(n) \/ args[n].entry \notin Decodes,
               status = "invalid" => Unstarted(n),
               \/ waited' = waited
               \/ waited' = waited \cup {n} /\ status = "ok" /\ queue = <<>> /\ ~faulted
        PROVE  CallOk(n)'
    <3>1. n \in DOMAIN results' /\ results'[n] = status
      BY <1>1, <2>3, ReturnKeeps DEF IInv
    <3>2. (Accepted(n)' => status = "ok") /\ (Unstarted(n)' => status = "invalid")
      BY <3>1 DEF Accepted, Unstarted
    <3>3. n \in waited' => ~faulted /\ ~InFlight("decode", n)
      BY <2>1, <2>3, EmptySeq DEF InFlight
    <3>4. args[n].entry \in Decodes /\ Accepted(n)' =>
            /\ AllValid(n)
            /\ n \in waited' \/ (~faulted /\ ~InFlight("decode", n)') => Holds(n, Example)
      BY <1>3, <2>1, <2>3, <3>2, <3>3 DEF CallOk
    <3> QED  BY <1>3, <1>4, <2>1, <2>3, <3>2, <3>4 DEF CallOk
  <2> QED  BY <2>2, <2>3
<1>7. \A c \in waited' : results'[c] = "ok"
  <2>1. ASSUME NEW status \in Status, results' = Append(results, status)
        PROVE  results'[n] = status
    BY <1>1, <2>1, ReturnKeeps DEF IInv
  <2> QED  BY <1>1, <1>2, <2>1 DEF CallInv
<1> QED  BY <1>1, <1>5, <1>6, <1>7 DEF CallInv

-----------------------------------------------------------------------------
(***************************************************************************)
(* The device.                                                             *)
(***************************************************************************)

Same(c) ==
  /\ out'[c].tokens = out[c].tokens /\ out'[c].scores = out[c].scores
  /\ out'[c].traces = out[c].traces

\* No call that waits for its result is still to be filled.
FillsDone == pc \in {"finish", "sync"} => ~InFlight("init", Len(args))

\* The first operation goes on, or is the first no longer.
LEMMA Advanced ==
  ASSUME IInv, ShapeInv, queue # <<>>, NEW p \in Parts(Head1) \ done, Advance(p)
  PROVE  /\ 1 \in DOMAIN queue /\ Head1 = queue[1] /\ Head1 \in OpType
         /\ Head1.call \in DOMAIN args
         /\ \/ /\ queue' = queue /\ done' = done \cup {p} /\ done \cup {p} # Parts(Head1)
            \/ /\ done' = {} /\ done \cup {p} = Parts(Head1)
               /\ Len(queue') = Len(queue) - 1
               /\ DOMAIN queue' = 1 .. Len(queue) - 1
               /\ \A k \in DOMAIN queue' :
                    k + 1 \in DOMAIN queue /\ k + 1 # 1 /\ queue'[k] = queue[k + 1]
               /\ \A k \in DOMAIN queue \ {1} : k - 1 \in DOMAIN queue' /\ queue'[k - 1] = queue[k]
<1>1. queue \in Seq(OpType) /\ Len(queue) \in Nat \ {0} /\ DOMAIN queue = 1 .. Len(queue)
  <2>1. queue \in Seq(OpType)
    BY Shapes
  <2> QED  BY <2>1
<1>2. 1 \in DOMAIN queue /\ Head1 = queue[1] /\ Head1 \in OpType
  BY <1>1 DEF Head1
<1>3. Head1.call \in DOMAIN args
  BY <1>2, Shapes
<1>4. CASE queue' = Tail(queue)
  <2>1. Len(queue') = Len(queue) - 1 /\ DOMAIN queue' = 1 .. Len(queue) - 1
    BY <1>1, <1>4
  <2>2. \A k \in 1 .. Len(queue) - 1 : queue'[k] = queue[k + 1]
    BY <1>1, <1>4
  <2>3. \A k \in DOMAIN queue' :
          k + 1 \in DOMAIN queue /\ k + 1 # 1 /\ queue'[k] = queue[k + 1]
    BY <1>1, <2>1, <2>2
  <2>4. ASSUME NEW k \in DOMAIN queue \ {1}
        PROVE  k - 1 \in DOMAIN queue' /\ queue'[k - 1] = queue[k]
    <3>1. PICK m \in 1 .. Len(queue) - 1 : k = m + 1
      <4>1. k - 1 \in 1 .. Len(queue) - 1 /\ k = (k - 1) + 1
        BY <1>1
      <4> QED  BY <4>1
    <3>2. k - 1 = m
      BY <3>1
    <3> QED  BY <2>1, <2>2, <3>1, <3>2
  <2> QED  BY <1>2, <1>3, <1>4, <2>1, <2>3, <2>4 DEF Advance
<1> QED  BY <1>2, <1>3, <1>4 DEF Advance

LEMMA InFlightAdvanced ==
  ASSUME IInv, ShapeInv, queue # <<>>, NEW p \in Parts(Head1) \ done, Advance(p), NEW kind, NEW c
  PROVE  /\ InFlight(kind, c)' => InFlight(kind, c)
         /\ InFlight(kind, c) =>
              \/ InFlight(kind, c)'
              \/ Head1.kind = kind /\ Head1.call = c /\ done \cup {p} = Parts(Head1)
<1>1. ASSUME InFlight(kind, c)'  PROVE InFlight(kind, c)
  <2>1. PICK k \in DOMAIN queue' : queue'[k].kind = kind /\ queue'[k].call = c
    BY <1>1 DEF InFlight
  <2>2. PICK m \in DOMAIN queue : queue[m] = queue'[k]
    BY Advanced
  <2> QED  BY <2>1, <2>2 DEF InFlight
<1>2. ASSUME InFlight(kind, c)
      PROVE  \/ InFlight(kind, c)'
             \/ Head1.kind = kind /\ Head1.call = c /\ done \cup {p} = Parts(Head1)
  <2>1. PICK k \in DOMAIN queue : queue[k].kind = kind /\ queue[k].call = c
    BY <1>2 DEF InFlight
  <2>2. CASE k = 1 /\ done \cup {p} = Parts(Head1)
    BY <2>1, <2>2, Advanced
  <2>3. CASE ~(k = 1 /\ done \cup {p} = Parts(Head1))
    <3>1. \E m \in DOMAIN queue' : queue'[m] = queue[k]
      BY <2>3, Advanced
    <3> QED  BY <2>1, <3>1 DEF InFlight
  <2> QED  BY <2>2, <2>3
<1> QED  BY <1>1, <1>2

LEMMA DeviceCalls ==
  ASSUME IInv, ShapeInv, QueueInv, CallInv, FillsDone,
         queue # <<>>, NEW p \in Parts(Head1) \ done, Advance(p), NEW h, h = Head1.call,
         UNCHANGED <<args, results, pc, err, waited, faulted>>,
         \A c \in DOMAIN args \ {h} : Same(c),
         Head1.kind \notin {"init", "decode"} => Same(h),
         Head1.kind = "decode" => \A S : AllValid(h) /\ Holds(h, S) => Holds(h, S \cup {p})',
         Head1.kind = "init" => (Undecoded(out[h].tokens) => Undecoded(out'[h].tokens)),
         args[h].entry = "full" /\ out[h].traces = out[h].tokens => out'[h].traces = out'[h].tokens
  PROVE  QueueInv' /\ CallInv'
<1>1. /\ 1 \in DOMAIN queue /\ Head1 = queue[1] /\ Head1 \in OpType /\ h \in DOMAIN args
      /\ \A k \in DOMAIN queue : queue[k].call \in DOMAIN args
  BY Advanced, Shapes
<1>2. OpOk(1)
  BY <1>1 DEF QueueInv
<1>3. ASSUME NEW c \in DOMAIN args, NEW S, Holds(c, S), c # h \/ Head1.kind \notin {"init", "decode"}
      PROVE  Holds(c, S)'
  BY <1>3 DEF Holds, Same
<1>4. ASSUME NEW c  PROVE AllValid(c)' <=> AllValid(c)
  BY DEF AllValid
<1>5. ASSUME NEW k \in DOMAIN queue, k # 1, queue[k].kind = "decode"
      PROVE  /\ queue[k].call # h \/ Head1.kind \notin {"init", "decode"}
             /\ Holds(queue[k].call, {}) /\ AllValid(queue[k].call)
             /\ args[queue[k].call].entry \in Decodes
  BY <1>1, <1>2, <1>5 DEF OpOk, QueueInv
<1>6. PICK D : D = done
  OBVIOUS
<1>7. Head1.kind = "decode" => AllValid(h) /\ Holds(h, D \cup {p})' /\ args[h].entry \in Decodes
  <2>1. Head1.kind = "decode" => AllValid(h) /\ Holds(h, D) /\ args[h].entry \in Decodes
    BY <1>1, <1>2, <1>6 DEF OpOk
  <2> QED  BY <2>1
<1>8. ASSUME NEW k \in DOMAIN queue'  PROVE OpOk(k)'
  <2>1. CASE queue' = queue /\ done' = done \cup {p}
    <3>1. PICK c, S : c = queue[k].call /\ S = IF k = 1 THEN D \cup {p} ELSE {}
      OBVIOUS
    <3>2. queue[k].kind = "decode" => AllValid(c)' /\ Holds(c, S)' /\ args[c].entry \in Decodes
      <4>1. CASE k = 1
        BY <1>1, <1>4, <1>7, <3>1, <4>1
      <4>2. CASE k # 1
        BY <1>1, <1>3, <1>4, <1>5, <2>1, <3>1, <4>2
      <4> QED  BY <4>1, <4>2
    <3>3. OpOk(k)
      BY <2>1 DEF QueueInv
    <3> QED  BY <1>6, <2>1, <3>1, <3>2, <3>3 DEF OpOk
  <2>2. CASE /\ done' = {}
             /\ \A m \in DOMAIN queue' :
                  m + 1 \in DOMAIN queue /\ m + 1 # 1 /\ queue'[m] = queue[m + 1]
    <3>1. PICK j \in DOMAIN queue : j = k + 1 /\ j # 1 /\ queue'[k] = queue[j]
      BY <2>2
    <3>2. PICK c : c = queue[j].call /\ c \in DOMAIN args
      BY <1>1
    <3>3. queue[j].kind = "decode" => AllValid(c)' /\ Holds(c, {})' /\ args[c].entry \in Decodes
      BY <1>3, <1>4, <1>5, <3>1, <3>2
    <3>4. OpOk(j)
      BY DEF QueueInv
    <3>5. (IF k = 1 THEN done' ELSE {}) = {}
      BY <2>2
    <3>6. ASSUME NEW m \in DOMAIN queue', queue[j].kind \in {"init", "decode"},
                 queue'[m].kind = "decode", queue'[m].call = c
          PROVE  m = k
      <4>1. m + 1 \in DOMAIN queue /\ queue'[m] = queue[m + 1]
        BY <2>2
      <4>2. m + 1 = j
        BY <3>2, <3>4, <3>6, <4>1 DEF OpOk
      <4>3. m \in Int /\ k \in Int
        <5>1. queue' \in Seq(OpType)
          BY AdvanceKeeps DEF IInv
        <5> QED  BY <5>1
      <4> QED  BY <3>1, <4>2, <4>3
    <3>7. Holds(c, {})' => Holds(c, IF k = 1 THEN done ELSE {})'
      BY <3>5 DEF Holds
    <3> QED  BY <3>1, <3>2, <3>3, <3>4, <3>6, <3>7 DEF OpOk
  <2> QED  BY <2>1, <2>2, Advanced
<1>9. ASSUME NEW c \in DOMAIN args  PROVE CallOk(c)'
  <2>1. CallOk(c)
    BY DEF CallInv
  <2>2. /\ Accepted(c)' <=> Accepted(c)
        /\ Unstarted(c)' <=> Unstarted(c)
        /\ InFlight("decode", c)' => InFlight("decode", c)
        /\ InFlight("decode", c) =>
             \/ InFlight("decode", c)'
             \/ Head1.kind = "decode" /\ h = c /\ done \cup {p} = Parts(Head1)
    BY InFlightAdvanced DEF Accepted, Unstarted
  <2>3. CASE c # h \/ Head1.kind \notin {"init", "decode"}
    <3>1. Same(c)
      BY <2>3
    <3>2. Holds(c, Example) => Holds(c, Example)'
      BY <1>3, <2>3
    <3>3. ~InFlight("decode", c)' => ~InFlight("decode", c)
      BY <2>2, <2>3
    <3> QED  BY <1>4, <2>1, <2>2, <3>1, <3>2, <3>3 DEF CallOk, Same
  <2>4. CASE c = h /\ Head1.kind = "init"
    <3>1. args[c].entry = "variable" /\ (c \in DOMAIN results => results[c] # "ok")
      BY <1>1, <1>2, <2>4 DEF OpOk
    <3>2. InFlight("init", c)
      BY <1>1, <2>4 DEF InFlight
    <3>3. ~Accepted(c)
      <4>1. c \notin DOMAIN results => c = Len(args)
        <5>1. /\ Len(args) = Len(results) + (IF pc = "idle" THEN 0 ELSE 1)
              /\ DOMAIN args = 1 .. Len(args) /\ DOMAIN results = 1 .. Len(results)
              /\ Len(results) \in Nat /\ Len(args) \in Nat
          BY Shapes
        <5> QED  BY <5>1
      <4> QED  BY <3>1, <3>2, <4>1 DEF Accepted, FillsDone
    <3> QED  BY <2>1, <2>2, <2>4, <3>1, <3>3 DEF CallOk
  <2>5. CASE c = h /\ Head1.kind = "decode"
    <3>1. Parts(Head1) = Example
      BY <2>5 DEF Parts
    <3>2. AllValid(h) /\ Holds(h, Example) => Holds(h, Example)'
      <4>1. Example \cup {p} = Example
        BY <3>1
      <4> QED  BY <2>5, <4>1
    <3>3. done \cup {p} = Parts(Head1) => Holds(h, Example)'
      BY <1>6, <1>7, <2>5, <3>1
    <3>4. InFlight("decode", c)
      BY <1>1, <2>5 DEF InFlight
    <3> QED  BY <1>4, <1>7, <2>1, <2>2, <2>5, <3>2, <3>3, <3>4 DEF CallOk
  <2> QED  BY <2>3, <2>4, <2>5
<1>10. \A c \in waited' : results'[c] = "ok"
  BY DEF CallInv
<1> QED  BY <1>8, <1>9, <1>10 DEF QueueInv, CallInv

-----------------------------------------------------------------------------
(***************************************************************************)
(* The check of the metadata.  Its operations come last on the stream, in  *)
(* order; `ahead` counts those before them, and is negative when that many *)
(* of its own are through.  Then the buffers are filled, the cell is set,  *)
(* holds the verdict on the examples that have been looked at, and has     *)
(* been copied, in turn.                                                   *)
(***************************************************************************)

Verdict(c, S) == IF \E b \in S : InvalidMetadata(args[c], b) THEN "invalid" ELSE "ok"

CheckKind(i) ==
  IF i = 1 THEN "init" ELSE IF i = 2 THEN "memset" ELSE IF i = 3 THEN "validate" ELSE "copy"

StageOf(at) ==
  IF at \in {"malloc", "memset"} THEN 1 ELSE IF at = "validate" THEN 2
  ELSE IF at = "copy" THEN 3 ELSE 4

StageAt(ahead, s) ==
  /\ \A i \in 1 .. s : ahead + i >= 1 =>
       queue[ahead + i].kind = CheckKind(i) /\ queue[ahead + i].call = Len(args)
  /\ ahead = 0 => FilledBy(Len(args), done)
  /\ ahead < 0 => Blank(Len(args))
  /\ ahead = -2 => cell = Verdict(Len(args), done)
  /\ ahead <= -3 => cell = Verdict(Len(args), Example)
  /\ ahead = -4 => host = cell

StageInv ==
  ~faulted /\ pc \in {"malloc", "memset", "validate", "copy", "wait"} =>
    StageAt(Len(queue) - StageOf(pc), StageOf(pc))

\* What the host thread relies on where it is.
HostInv ==
  /\ pc \in {"grid", "init", "launch"} => ~Pending(Len(args))
  /\ FillsDone
  /\ pc \in {"init", "malloc"} \cup InCheck => Current.entry = "variable"
  /\ pc = "free" /\ ~err =>
       queue = <<>> /\ Blank(Len(args)) /\ host = Verdict(Len(args), Example)
  /\ pc = "launch" /\ Current.entry \in Decodes =>
       AllValid(Len(args)) /\ (Current.entry = "variable" => Blank(Len(args)))

LEMMA FilledStruck ==
  ASSUME NEW buffer, NEW S, NEW p, Filled(buffer, S)
  PROVE  Filled(Struck(buffer, p), S \cup {p})
BY DEF Filled, Struck

LEMMA UndecodedStruck ==
  ASSUME NEW buffer, NEW p, Undecoded(buffer)
  PROVE  Undecoded(Struck(buffer, p))
BY DEF Undecoded, Struck

\* The next operation of the check has been enqueued.
LEMMA StageEnqueued ==
  ASSUME IInv, ShapeInv, NEW s \in 1 .. 3, NEW a \in Int, a = Len(queue) - s, StageAt(a, s),
         NEW kind \in Kinds, kind = CheckKind(s + 1), Enqueue(kind),
         UNCHANGED <<args, out, done, cell, host>>
  PROVE  StageAt(a, s + 1)' /\ a = Len(queue') - (s + 1)
<1>1. /\ DOMAIN queue = 1 .. Len(queue) /\ Len(queue) \in Nat
      /\ Len(queue') = Len(queue) + 1
      /\ \A k \in DOMAIN queue : queue'[k] = queue[k]
      /\ queue'[Len(queue) + 1].kind = kind /\ queue'[Len(queue) + 1].call = Len(args)
  BY Enqueued, Shapes
<1>2. ASSUME NEW i \in 1 .. s + 1, a + i >= 1
      PROVE  queue'[a + i].kind = CheckKind(i) /\ queue'[a + i].call = Len(args)
  <2>1. CASE i \in 1 .. s
    <3>1. PICK k : k = a + i /\ k \in DOMAIN queue
      BY <1>1, <1>2, <2>1
    <3>2. queue[k].kind = CheckKind(i) /\ queue[k].call = Len(args)
      BY <1>2, <2>1, <3>1 DEF StageAt
    <3> QED  BY <1>1, <3>1, <3>2
  <2>2. CASE i = s + 1
    <3>1. a + i = Len(queue) + 1
      BY <1>1, <2>2
    <3> QED  BY <1>1, <2>2, <3>1
  <2> QED  BY <2>1, <2>2
<1>3. /\ a = 0 => FilledBy(Len(args), done)'
      /\ a < 0 => Blank(Len(args))'
      /\ a = -2 => cell' = Verdict(Len(args), done)'
      /\ a <= -3 => cell' = Verdict(Len(args), Example)'
      /\ a = -4 => host' = cell'
  BY DEF StageAt, FilledBy, Blank, Verdict
<1>4. StageAt(a, s + 1)'
  BY <1>2, <1>3 DEF StageAt
<1> QED  BY <1>1, <1>4

\* The first operation of the check has been enqueued.
LEMMA StageStarted ==
  ASSUME IInv, ShapeInv, NEW a \in Nat, a = Len(queue), Enqueue("init"), UNCHANGED <<args, done>>
  PROVE  StageAt(a, 1)' /\ a = Len(queue') - 1
<1>1. /\ Len(queue') = Len(queue) + 1
      /\ queue'[Len(queue) + 1].kind = "init" /\ queue'[Len(queue) + 1].call = Len(args)
  <2>1. "init" \in Kinds
    BY DEF Kinds
  <2> QED  BY <2>1, Enqueued
<1>2. \A i \in 1 .. 1 : i = 1
  OBVIOUS
<1>3. \A i \in 1 .. 1 : a + i >= 1 =>
        queue'[a + i].kind = CheckKind(i) /\ queue'[a + i].call = Len(args')
  BY <1>1, <1>2 DEF CheckKind
<1>4. a = 0 => done' = {}
  <2>1. a = 0 => queue = <<>>
    <3>1. queue \in Seq(OpType)
      BY Shapes
    <3>2. Len(queue) = 0 => queue = <<>>
      BY <3>1
    <3> QED  BY <3>2
  <2> QED  BY <2>1 DEF ShapeInv, StreamInv, PartInv
<1>5. a = 0 => FilledBy(Len(args), done)'
  BY <1>4 DEF FilledBy, Filled
<1>6. StageAt(a, 1)'
  BY <1>3, <1>5 DEF StageAt
<1> QED  BY <1>1, <1>6

\* The device runs a part of its first operation.
LEMMA StageAdvanced ==
  ASSUME IInv, ShapeInv, NEW s \in 1 .. 4, NEW a \in Int, a = Len(queue) - s, StageAt(a, s),
         pc # "idle", queue # <<>>, NEW p \in Parts(Head1) \ done, Advance(p),
         NEW h, h = Head1.call, UNCHANGED args,
         Head1.kind \notin {"init", "decode"} => Same(h),
         Head1.kind = "init" =>
           /\ out'[h].tokens = Struck(out[h].tokens, p)
           /\ out'[h].scores = Struck(out[h].scores, p),
         Head1.kind \notin {"memset", "validate"} => cell' = cell,
         Head1.kind = "memset" => cell' = "ok",
         Head1.kind = "validate" =>
           cell' = IF InvalidMetadata(args[h], p) /\ cell = "ok" THEN "invalid" ELSE cell,
         Head1.kind # "copy" => host' = host,
         Head1.kind = "copy" => host' = cell
  PROVE  StageAt(Len(queue) - s, s)'
<1>1. /\ 1 \in DOMAIN queue /\ Head1 = queue[1] /\ Len(queue) \in Nat \ {0}
      /\ DOMAIN queue = 1 .. Len(queue)
  BY Advanced, Shapes
<1>2. PICK n : n = Len(args) /\ n \in DOMAIN args
  <2>1. /\ Len(args) = Len(results) + 1 /\ Len(results) \in Nat /\ DOMAIN args = 1 .. Len(args)
    BY Shapes
  <2> QED  BY <2>1
<1>3. a <= 0 => /\ 1 - a \in 1 .. s /\ Head1.kind = CheckKind(1 - a) /\ h = n
  <2>1. a <= 0 => 1 - a \in 1 .. s /\ a + (1 - a) = 1
    BY <1>1
  <2> QED  BY <1>1, <1>2, <2>1 DEF StageAt
<1>4. a > -4
  BY <1>1
<1>5. PICK D : D = done \cup {p}
  OBVIOUS
<1>6. a = 0 => Filled(out'[n].tokens, D) /\ Filled(out'[n].scores, D)
  <2>1. a = 0 => Head1.kind = "init" /\ h = n
    BY <1>3 DEF CheckKind
  <2>2. a = 0 => Filled(out[n].tokens, done) /\ Filled(out[n].scores, done)
    BY <1>2 DEF StageAt, FilledBy
  <2> QED  BY <1>5, <2>1, <2>2, FilledStruck
<1>7. a < 0 => Blank(n)'
  <2>1. a < 0 => Same(n)
    BY <1>3 DEF CheckKind
  <2>2. a < 0 => Blank(n)
    BY <1>2 DEF StageAt
  <2> QED  BY <2>1, <2>2 DEF Blank, FilledBy, Same
<1>8. a = -1 => cell' = "ok"
  BY <1>3 DEF CheckKind
<1>9. a = -2 => cell' = Verdict(n, D)' /\ Parts(Head1) = Example
  <2>1. a = -2 => Head1.kind = "validate" /\ h = n
    BY <1>3 DEF CheckKind
  <2>2. a = -2 => cell = Verdict(n, done)
    BY <1>2 DEF StageAt
  <2>3. Verdict(n, D)' = IF InvalidMetadata(args[n], p) THEN "invalid" ELSE Verdict(n, done)
    BY <1>5 DEF Verdict
  <2>4. Verdict(n, done) \in {"ok", "invalid"}
    BY DEF Verdict
  <2> QED  BY <2>1, <2>2, <2>3, <2>4 DEF Parts
<1>10. a = -3 => cell' = cell /\ cell = Verdict(n, Example)' /\ host' = cell
  <2>1. a = -3 => Head1.kind = "copy"
    BY <1>3 DEF CheckKind
  <2>2. a = -3 => cell = Verdict(n, Example)
    BY <1>2 DEF StageAt
  <2>3. Verdict(n, Example)' = Verdict(n, Example)
    BY DEF Verdict
  <2> QED  BY <2>1, <2>2, <2>3
<1>11. CASE queue' = queue /\ done' = done \cup {p}
  <2>1. StageAt(a, s)'
    <3>1. \A i \in 1 .. s : a + i >= 1 =>
            queue'[a + i].kind = CheckKind(i) /\ queue'[a + i].call = Len(args')
      BY <1>11 DEF StageAt
    <3>2. a = 0 => FilledBy(Len(args), done)'
      BY <1>2, <1>5, <1>6, <1>11 DEF FilledBy
    <3>3. a < 0 => Blank(Len(args))'
      BY <1>2, <1>7 DEF Blank, FilledBy
    <3>4. a = -2 => cell' = Verdict(Len(args), done)'
      BY <1>2, <1>5, <1>9, <1>11 DEF Verdict
    <3>5. a <= -3 => cell' = Verdict(Len(args), Example)' /\ a # -4
      BY <1>2, <1>4, <1>10 DEF Verdict
    <3> QED  BY <3>1, <3>2, <3>3, <3>4, <3>5 DEF StageAt
  <2> QED  BY <1>11, <2>1
<1>12. CASE /\ done' = {} /\ done \cup {p} = Parts(Head1)
            /\ Len(queue') = Len(queue) - 1
            /\ \A k \in DOMAIN queue \ {1} : k - 1 \in DOMAIN queue' /\ queue'[k - 1] = queue[k]
  <2>1. PICK e \in Int : e = a - 1
    OBVIOUS
  <2>2. StageAt(e, s)'
    <3>1. ASSUME NEW i \in 1 .. s, e + i >= 1
          PROVE  queue'[e + i].kind = CheckKind(i) /\ queue'[e + i].call = Len(args')
      <4>1. PICK k \in Int : k = a + i
        OBVIOUS
      <4>2. k \in DOMAIN queue \ {1} /\ k - 1 = e + i /\ k >= 1
        BY <1>1, <2>1, <3>1, <4>1
      <4>3. queue[k].kind = CheckKind(i) /\ queue[k].call = Len(args)
        BY <4>1, <4>2 DEF StageAt
      <4> QED  BY <1>12, <4>2, <4>3
    <3>2. e = 0 => FilledBy(Len(args), done)'
      BY <1>12 DEF FilledBy, Filled
    <3>3. e < 0 => Blank(Len(args))'
      <4>1. a = 0 => Blank(n)'
        <5>1. a = 0 => D = 0 .. Threads - 1
          BY <1>3, <1>5, <1>12 DEF CheckKind, Parts
        <5> QED  BY <1>6, <5>1 DEF Blank, FilledBy
      <4>2. e < 0 => a = 0 \/ a < 0
        BY <2>1
      <4>3. e < 0 => Blank(n)'
        BY <1>7, <4>1, <4>2
      <4> QED  BY <1>2, <4>3 DEF Blank, FilledBy
    <3>4. e = -2 => cell' = Verdict(Len(args), done)'
      BY <1>8, <1>12, <2>1 DEF Verdict
    <3>5. e <= -3 => cell' = Verdict(Len(args), Example)' /\ (e = -4 => host' = cell')
      <4>1. e <= -3 => a = -2 \/ a = -3
        BY <1>4, <2>1
      <4>2. a = -2 => cell' = Verdict(Len(args), Example)'
        BY <1>2, <1>5, <1>9, <1>12 DEF Verdict
      <4>3. a = -3 => cell' = Verdict(Len(args), Example)' /\ host' = cell'
        BY <1>2, <1>10 DEF Verdict
      <4> QED  BY <2>1, <4>1, <4>2, <4>3
    <3> QED  BY <3>1, <3>2, <3>3, <3>4, <3>5 DEF StageAt
  <2>3. e = Len(queue') - s
    BY <1>1, <1>12, <2>1
  <2> QED  BY <2>2, <2>3
<1> QED  BY <1>11, <1>12, Advanced

-----------------------------------------------------------------------------
(***************************************************************************)
(* The buffers' invariant, action by action.                               *)
(***************************************************************************)

OutInv == QueueInv /\ CallInv /\ HostInv /\ StageInv

LEMMA InitOut == Init => OutInv
<1> SUFFICES ASSUME Init  PROVE OutInv
  OBVIOUS
<1>1. args = <<>> /\ queue = <<>> /\ pc = "idle" /\ waited = {}
  BY DEF Init
<1>2. QueueInv /\ CallInv
  BY <1>1, EmptySeq DEF QueueInv, CallInv
<1>3. HostInv /\ StageInv
  BY <1>1 DEF HostInv, StageInv, FillsDone, InCheck
<1> QED  BY <1>2, <1>3 DEF OutInv

LEMMA BeginOut ==
  ASSUME IInv, ShapeInv, OutInv, NEW a \in Arguments, Begin(a)
  PROVE  OutInv'
<1>1. PICK n \in Nat : n = Len(args')
  <2>1. Len(args') = Len(args) + 1
    BY BeginBuffers DEF IInv, ShapeInv
  <2>2. Len(args) \in Nat
    BY Shapes
  <2> QED  BY <2>1, <2>2
<1>2. /\ pc = "idle" /\ args' = Append(args, a) /\ args \in Seq(ArgType) /\ a \in ArgType
      /\ Len(args) = Len(results) /\ Len(results) \in Nat
  <2>1. a \in ArgType /\ pc = "idle"
    BY ArgumentsType DEF IInv, Begin
  <2>2. /\ args \in Seq(ArgType) /\ Len(results) \in Nat
        /\ Len(args) = Len(results) + (IF pc = "idle" THEN 0 ELSE 1)
    BY Shapes
  <2>3. args' = Append(args, a)
    BY DEF Begin
  <2> QED  BY <2>1, <2>2, <2>3
<1>3. /\ n = Len(results) + 1 /\ DOMAIN args' = 1 .. n /\ args'[n] = a
      /\ \A c \in 1 .. n - 1 : args'[c] = args[c]
      /\ DOMAIN args = 1 .. n - 1
  BY <1>1, <1>2
<1>4. /\ \A c \in 1 .. n - 1 : out'[c] = out[c]
      /\ out'[n].traces = out'[n].tokens
      /\ \A i \in DOMAIN out'[n].tokens : out'[n].tokens[i] = Junk
  BY <1>1, <1>3, BeginBuffers DEF IInv, ShapeInv
<1>5. Undecoded(out'[n].tokens)
  BY <1>4 DEF Undecoded
<1>6. UNCHANGED <<queue, done, faulted, waited>>
  BY DEF Begin, deviceVars
<1>7. \/ /\ results' = results /\ pc' = "grid"
      \/ /\ results' = results /\ pc' = "launch" /\ a.entry = "scatter"
      \/ /\ pc' = "idle"
         /\ \E status \in Status : /\ results' = Append(results, status)
                                   /\ status = "ok" => a.entry \notin Decodes
  BY DEF Begin, Return, Status, Decodes
<1>8. \A k \in DOMAIN queue : queue[k].call \in 1 .. n - 1
  BY <1>3, Shapes
<1>9. pc' \in {"idle", "grid", "launch"}
  BY <1>7
<1>10. QueueInv' /\ CallInv'
  <2>1. \/ results' = results
        \/ \E status \in Status : /\ results' = Append(results, status)
                                  /\ status = "ok" => args'[n].entry \notin Decodes
    BY <1>3, <1>7
  <2> QED  BY <1>3, <1>4, <1>5, <1>6, <1>8, <1>9, <2>1, LatestCall DEF OutInv
<1>11. ~Pending(n)'
  BY <1>6, <1>8 DEF Pending
<1>12. pc' = "launch" => Current.entry' \notin Decodes
  <2>1. pc' = "launch" => a.entry = "scatter"
    BY <1>7
  <2> QED  BY <1>1, <1>3, <2>1 DEF Current, Decodes
<1>13. HostInv'
  <2>1. ~Pending(Len(args))'
    BY <1>1, <1>11 DEF Pending
  <2> QED  BY <1>9, <1>12, <2>1 DEF HostInv, FillsDone, InCheck
<1>14. StageInv'
  BY <1>9 DEF StageInv
<1> QED  BY <1>10, <1>13, <1>14 DEF OutInv

LEMMA CheckGridOut ==
  ASSUME IInv, ShapeInv, OutInv, CheckGrid
  PROVE  OutInv'
<1>1. pc = "grid" /\ UNCHANGED <<queue, done, faulted, waited, out>>
  BY DEF CheckGrid, deviceVars, memory
<1>2. PICK n \in Nat : /\ n = Len(args) /\ n = Len(results) + 1 /\ n \in DOMAIN args
                       /\ DOMAIN args = 1 .. n /\ DOMAIN results = 1 .. n - 1
  <2>1. /\ Len(args) = Len(results) + 1 /\ DOMAIN args = 1 .. Len(args)
        /\ DOMAIN results = 1 .. Len(results) /\ Len(results) \in Nat
    BY <1>1, Shapes
  <2> QED  BY <2>1
<1>3. /\ DOMAIN args' = 1 .. n /\ Len(args') = n
      /\ \A c \in 1 .. n - 1 : args'[c] = args[c]
      /\ args' = args \/ args'[n].entry = "fast"
  <2>1. args \in Seq(ArgType)
    BY Shapes
  <2>2. CASE UNCHANGED args
    BY <1>2, <2>2
  <2>3. CASE args' = [args EXCEPT ![Len(args)].entry = "fast"]
    <3>1. PICK b \in ArgType : b = args[n]
      BY <1>2, <2>1
    <3>2. PICK e : e = [b EXCEPT !.entry = "fast"] /\ e.entry = "fast"
      <4>1. PICK e : e = [b EXCEPT !.entry = "fast"]
        OBVIOUS
      <4>2. e.entry = "fast"
        BY <4>1 DEF ArgType
      <4> QED  BY <4>1, <4>2
    <3>3. args' = [args EXCEPT ![n] = e]
      BY <1>2, <2>3, <3>1, <3>2
    <3> QED  BY <1>2, <2>1, <3>2, <3>3
  <2> QED  BY <2>2, <2>3 DEF CheckGrid
<1>4. CallOk(n) /\ Unstarted(n) /\ ~Pending(n)
  BY <1>1, <1>2 DEF OutInv, CallInv, HostInv, Unstarted
<1>5. \A k \in DOMAIN queue : queue[k].call \in 1 .. n - 1
  <2>1. \A k \in DOMAIN queue : queue[k].call \in 1 .. n /\ queue[k].call # n
    BY <1>2, <1>4, Shapes DEF Pending
  <2> QED  BY <1>2, <2>1
<1>6. /\ args'[n].entry = "full" => out'[n].traces = out'[n].tokens
      /\ Undecoded(out'[n].tokens)
  BY <1>1, <1>3, <1>4 DEF CallOk
<1>7. \/ /\ results' = results /\ pc' \in {"grid", "init", "launch"}
      \/ /\ pc' = "idle"
         /\ \E status \in Status : results' = Append(results, status) /\ status # "ok"
  BY DEF CheckGrid, Return, Status
<1>8. QueueInv' /\ CallInv'
  <2>1. \/ results' = results
        \/ \E status \in Status : /\ results' = Append(results, status)
                                  /\ status = "ok" => args'[n].entry \notin Decodes
    BY <1>7
  <2>2. pc' \notin {"finish", "sync"}
    BY <1>7
  <2>3. \A c \in 1 .. n - 1 : args'[c] = args[c] /\ out'[c] = out[c]
    BY <1>1, <1>3
  <2> QED  BY <1>1, <1>2, <1>3, <1>5, <1>6, <2>1, <2>2, <2>3, LatestCall DEF OutInv
<1>9. HostInv'
  <2>1. ~Pending(Len(args))'
    BY <1>1, <1>3, <1>4 DEF Pending
  <2>2. pc' = "init" => Current.entry' = "variable"
    BY DEF CheckGrid, Return, Current
  <2>3. ASSUME pc' = "launch", Current.entry' \in Decodes
        PROVE  AllValid(Len(args))' /\ Current.entry' # "variable"
    <3>1. args' = args /\ args[n].entry # "variable" /\ args[n].entry \in Decodes
      BY <1>2, <1>3, <2>3 DEF CheckGrid, Return, Current
    <3>2. Going(n)
      BY <1>2 DEF Going
    <3>3. args[n].meta = Uniform(args[n].beam) /\ ~Refused(args[n])
      BY <1>2, <3>1, <3>2 DEF ShapeInv, ArgInv
    <3>4. args[n].beam \in 1 .. MaxBeam
      BY <3>1, <3>3 DEF Refused, Decodes
    <3>5. \A b \in Example : ~InvalidMetadata(args[n], b)
      BY <3>3, <3>4, UniformSlots
    <3> QED  BY <1>2, <3>1, <3>5 DEF AllValid, Current
  <2>4. pc' \in {"idle", "grid", "init", "launch"}
    BY <1>7
  <2> QED  BY <2>1, <2>2, <2>3, <2>4 DEF HostInv, FillsDone, InCheck
<1>10. StageInv'
  BY <1>7 DEF StageInv
<1> QED  BY <1>8, <1>9, <1>10 DEF OutInv

LEMMA Latest ==
  ASSUME IInv, ShapeInv, pc # "idle"
  PROVE  /\ Len(args) \in Nat \ {0} /\ Len(args) \in DOMAIN args /\ Len(args) \notin DOMAIN results
         /\ Len(args) = Len(results) + 1
<1>1. /\ Len(args) = Len(results) + 1 /\ DOMAIN args = 1 .. Len(args)
      /\ DOMAIN results = 1 .. Len(results) /\ Len(results) \in Nat
  BY Shapes
<1> QED  BY <1>1

\* The check of the metadata as the host leaves it alone.
LEMMA StageKept ==
  ASSUME NEW s \in 1 .. 4, NEW a \in Int, StageAt(a, s),
         UNCHANGED <<args, out, queue, done, host>>, cell' = cell \/ a >= -1
  PROVE  StageAt(a, s)'
BY DEF StageAt, FilledBy, Blank, Verdict

LEMMA LaunchInitOut ==
  ASSUME IInv, ShapeInv, OutInv, LaunchInit
  PROVE  OutInv'
<1>1. PICK ok \in BOOLEAN : Submit("init", ok)
  BY DEF LaunchInit
<1>2. /\ pc = "init" /\ UNCHANGED <<args, err, waited, done, faulted, cell, out>>
      /\ \/ pc' = "idle" /\ results' = Append(results, "failed")
         \/ pc' = "malloc" /\ results' = results /\ ~lastError'
      /\ "init" \in Kinds /\ "failed" \in Status
  BY DEF LaunchInit, memory, Return, Kinds, Status
<1>3. /\ queue' = queue \/ Enqueue("init")
      /\ ~lastError' => ok /\ Enqueue("init") /\ ~faulted
  BY <1>1 DEF Submit, Api
<1>4. PICK n \in Nat : n = Len(args) /\ n \in DOMAIN args /\ n \notin DOMAIN results
                       /\ n = Len(results) + 1
  BY <1>2, Latest
<1>5. ~Pending(n) /\ args[n].entry = "variable" /\ Unstarted(n)
  BY <1>2, <1>4 DEF OutInv, HostInv, Current, Unstarted
<1>6. QueueInv'
  BY <1>2, <1>3, <1>4, <1>5, QueueHost DEF OutInv
<1>7. CallInv'
  <2>1. results' = results => ~Accepted(n)'
    BY <1>2, <1>4 DEF Accepted
  <2> QED  BY <1>2, <1>3, <1>4, <1>5, <2>1, CallHost DEF OutInv
<1>8. HostInv'
  BY <1>2, <1>4, <1>5 DEF HostInv, FillsDone, InCheck, Current
<1>9. StageInv'
  <2> SUFFICES ASSUME pc' = "malloc", ~faulted'  PROVE StageAt(Len(queue) - 1, 1)'
    BY <1>2 DEF StageInv, StageOf
  <2>1. PICK a \in Nat : a = Len(queue)
    <3>1. Len(queue) \in Nat
      BY Shapes
    <3> QED  BY <3>1
  <2>2. StageAt(a, 1)' /\ a = Len(queue') - 1
    BY <1>2, <1>3, <2>1, StageStarted
  <2> QED  BY <2>2
<1> QED  BY <1>6, <1>7, <1>8, <1>9 DEF OutInv

LEMMA MallocOut ==
  ASSUME IInv, ShapeInv, OutInv, Malloc
  PROVE  OutInv'
<1>1. /\ pc = "malloc" /\ UNCHANGED <<args, err, host, waited, queue, done, faulted, out>>
      /\ \/ pc' = "idle" /\ results' = Append(results, "failed")
         \/ pc' = "memset" /\ results' = results
      /\ "failed" \in Status
  BY DEF Malloc, deviceVars, Return, Status
<1>2. PICK n \in Nat : n = Len(args) /\ n \in DOMAIN args /\ n \notin DOMAIN results
                       /\ n = Len(results) + 1
  BY <1>1, Latest
<1>3. args[n].entry = "variable" /\ Unstarted(n)
  BY <1>1, <1>2 DEF OutInv, HostInv, Current, Unstarted
<1>4. QueueInv'
  BY <1>1, <1>2, QueueHost DEF OutInv
<1>5. CallInv'
  <2>1. results' = results => ~Accepted(n)'
    BY <1>1, <1>2 DEF Accepted
  <2> QED  BY <1>1, <1>2, <1>3, <2>1, CallHost DEF OutInv
<1>6. HostInv'
  BY <1>1, <1>2, <1>3 DEF HostInv, FillsDone, InCheck, Current
<1>7. StageInv'
  <2> SUFFICES ASSUME pc' = "memset", ~faulted'  PROVE StageAt(Len(queue) - 1, 1)'
    BY <1>1 DEF StageInv, StageOf
  <2>1. PICK a \in Int : a = Len(queue) - 1 /\ a >= -1
    <3>1. Len(queue) \in Nat
      BY Shapes
    <3> QED  BY <3>1
  <2>2. StageAt(a, 1)
    BY <1>1, <2>1 DEF OutInv, StageInv, StageOf
  <2>3. StageAt(a, 1)'
    BY <1>1, <2>1, <2>2, StageKept
  <2> QED  BY <1>1, <2>1, <2>3
<1> QED  BY <1>4, <1>5, <1>6, <1>7 DEF OutInv

LEMMA CheckStepOut ==
  ASSUME IInv, ShapeInv, OutInv, NEW kind \in StatusKinds, NEW at, NEW next,
         CheckStep(at, kind, next),
         \/ at = "memset" /\ kind = "memset" /\ next = "validate"
         \/ at = "validate" /\ kind = "validate" /\ next = "copy"
         \/ at = "copy" /\ kind = "copy" /\ next = "wait"
  PROVE  OutInv'
<1>1. PICK ok \in BOOLEAN :
        Submit(kind, ok) /\ err' = IF kind = "validate" THEN lastError' ELSE ~ok
  BY DEF CheckStep
<1>2. /\ pc = at /\ pc' = (IF err' THEN "free" ELSE next) /\ pc \in InCheck /\ pc' \in InCheck
      /\ UNCHANGED <<args, results, host, waited, done, faulted, cell, out>>
      /\ kind \in Kinds /\ kind \notin {"init", "decode"}
  BY DEF CheckStep, memory, InCheck, StatusKinds, Kinds
<1>3. /\ queue' = queue \/ Enqueue(kind)
      /\ ok => Enqueue(kind) /\ ~faulted
      /\ ~err' => ok
  BY <1>1 DEF Submit, Api
<1>4. PICK n \in Nat : n = Len(args) /\ n \in DOMAIN args /\ n \notin DOMAIN results
                       /\ n = Len(results) + 1
  BY <1>2, Latest DEF InCheck
<1>5. args[n].entry = "variable" /\ Unstarted(n) /\ pc # "idle" /\ pc' \notin {"finish", "sync"}
  BY <1>2, <1>4 DEF OutInv, HostInv, Current, Unstarted, InCheck
<1>6. QueueInv'
  BY <1>2, <1>3, <1>4, <1>5, QueueHost DEF OutInv
<1>7. CallInv'
  <2>1. ~Accepted(n)'
    BY <1>2, <1>4, <1>5 DEF Accepted
  <2> QED  BY <1>2, <1>3, <1>4, <1>5, <2>1, CallHost DEF OutInv
<1>8. HostInv'
  <2>1. pc' = "free" => err'
    BY <1>2
  <2>2. pc' \notin {"grid", "init", "launch", "finish", "sync"}
    BY <1>2
  <2> QED  BY <1>2, <1>4, <1>5, <2>1, <2>2 DEF HostInv, FillsDone, Current
<1>9. StageInv'
  <2> SUFFICES ASSUME ~err', ~faulted'  PROVE StageInv'
    BY <1>2 DEF StageInv
  <2>1. PICK s \in 1 .. 3 : s = StageOf(at) /\ s + 1 = StageOf(next) /\ kind = CheckKind(s + 1)
    BY DEF StageOf, CheckKind
  <2>2. PICK a \in Int : a = Len(queue) - s
    <3>1. Len(queue) \in Nat
      BY Shapes
    <3> QED  BY <3>1
  <2>3. StageAt(a, s)
    BY <1>2, <2>1, <2>2 DEF OutInv, StageInv
  <2>4. StageAt(a, s + 1)' /\ a = Len(queue') - (s + 1)
    BY <1>2, <1>3, <2>1, <2>2, <2>3, StageEnqueued
  <2>5. StageOf(pc') = s + 1
    BY <1>2, <2>1
  <2> QED  BY <2>4, <2>5 DEF StageInv
<1> QED  BY <1>6, <1>7, <1>8, <1>9 DEF OutInv

LEMMA AwaitStatusOut ==
  ASSUME IInv, ShapeInv, OutInv, AwaitStatus
  PROVE  OutInv'
<1>1. PICK ok \in BOOLEAN : Drained(ok) /\ err' = ~ok
  BY DEF AwaitStatus
<1>2. /\ pc = "wait" /\ pc' = "free"
      /\ UNCHANGED <<args, results, host, waited, queue, done, faulted, cell, out>>
  BY DEF AwaitStatus, deviceVars, memory
<1>3. PICK n \in Nat : n = Len(args) /\ n \in DOMAIN args /\ n \notin DOMAIN results
                       /\ n = Len(results) + 1
  BY <1>2, Latest
<1>4. args[n].entry = "variable" /\ Unstarted(n)
  BY <1>2, <1>3 DEF OutInv, HostInv, Current, Unstarted, InCheck
<1>5. QueueInv'
  BY <1>2, <1>3, QueueHost DEF OutInv
<1>6. CallInv'
  <2>1. ~Accepted(n)'
    BY <1>2, <1>3 DEF Accepted
  <2> QED  BY <1>2, <1>3, <1>4, <2>1, CallHost DEF OutInv
<1>7. ~err' => queue = <<>> /\ Blank(n) /\ host = Verdict(n, Example)
  <2> SUFFICES ASSUME ok  PROVE queue = <<>> /\ Blank(n) /\ host = Verdict(n, Example)
    BY <1>1
  <2>1. queue = <<>> /\ ~faulted
    BY <1>1 DEF Drained, Api
  <2>2. StageAt(-4, 4)
    <3>1. Len(queue) - 4 = -4
      BY <2>1, EmptySeq
    <3> QED  BY <1>2, <2>1, <3>1 DEF OutInv, StageInv, StageOf
  <2> QED  BY <1>3, <2>1, <2>2 DEF StageAt
<1>8. HostInv'
  <2>1. ~err' => queue' = <<>> /\ Blank(Len(args))' /\ host' = Verdict(Len(args), Example)'
    BY <1>2, <1>3, <1>7 DEF Blank, FilledBy, Verdict
  <2> QED  BY <1>2, <1>3, <1>4, <2>1 DEF HostInv, FillsDone, InCheck, Current
<1>9. StageInv'
  BY <1>2 DEF StageInv
<1> QED  BY <1>5, <1>6, <1>8, <1>9 DEF OutInv

LEMMA FreeStatusOut ==
  ASSUME IInv, ShapeInv, OutInv, FreeStatus
  PROVE  OutInv'
<1>1. /\ pc = "free" /\ queue = <<>>
      /\ UNCHANGED <<args, err, host, waited, queue, done, faulted, out>>
      /\ \/ pc' = "idle" /\ \E status \in Status : results' = Append(results, status)
                                                     /\ status # "ok"
         \/ pc' = "launch" /\ results' = results /\ ~err /\ host = "ok"
  BY DEF FreeStatus, deviceVars, Return, Status
<1>2. PICK n \in Nat : n = Len(args) /\ n \in DOMAIN args /\ n \notin DOMAIN results
                       /\ n = Len(results) + 1
  BY <1>1, Latest
<1>3. args[n].entry = "variable" /\ Unstarted(n)
  BY <1>1, <1>2 DEF OutInv, HostInv, Current, Unstarted, InCheck
<1>4. QueueInv'
  BY <1>1, <1>2, QueueHost DEF OutInv
<1>5. CallInv'
  <2>1. results' = results => ~Accepted(n)'
    BY <1>1, <1>2 DEF Accepted
  <2> QED  BY <1>1, <1>2, <1>3, <2>1, CallHost DEF OutInv
<1>6. HostInv'
  <2>1. ~Pending(n)'
    BY <1>1, EmptySeq DEF Pending
  <2>2. pc' = "launch" => AllValid(n) /\ Blank(n)
    BY <1>1, <1>2 DEF OutInv, HostInv, Verdict, AllValid
  <2>3. pc' = "launch" => AllValid(Len(args))' /\ Blank(Len(args))'
    BY <1>1, <1>2, <2>2 DEF AllValid, Blank, FilledBy
  <2>4. ~Pending(Len(args))'
    BY <1>1, <1>2, <2>1 DEF Pending
  <2> QED  BY <1>1, <2>3, <2>4 DEF HostInv, FillsDone, InCheck
<1>7. StageInv'
  BY <1>1 DEF StageInv
<1> QED  BY <1>4, <1>5, <1>6, <1>7 DEF OutInv

\* The decode of a call whose buffers are as its launch wants them.
LEMMA LaunchReady ==
  ASSUME IInv, ShapeInv, OutInv, pc = "launch", NEW n \in Nat, n = Len(args),
         args[n].entry \in Decodes
  PROVE  AllValid(n) /\ Holds(n, {})
<1>1. n \in DOMAIN args /\ n \notin DOMAIN results /\ args \in Seq(ArgType)
  BY Latest, Shapes
<1>2. PICK a \in ArgType : a = args[n]
  BY <1>1
<1>3. AllValid(n) /\ (a.entry = "variable" => Blank(n))
  BY <1>2 DEF OutInv, HostInv, Current
<1>4. a.beam \in Nat
  <2>1. ~Refused(a)
    BY <1>1, <1>2 DEF ShapeInv, ArgInv, Going
  <2>2. a.beam \in 1 .. MaxBeam
    BY <1>2, <2>1 DEF Refused, Decodes
  <2> QED  BY <2>2, SizesNat
<1>5. /\ DOMAIN out[n].tokens = 0 .. TokenCount(a) - 1
      /\ DOMAIN out[n].scores = 0 .. ScoreCount(a) - 1
  BY <1>1, <1>2, BufferFields DEF ShapeInv, BufferInv
<1>6. Held(a, out[n].tokens, out[n].scores, {})
  BY <1>3, <1>4, <1>5, HeldAtFirst DEF Blank, FilledBy
<1> QED  BY <1>2, <1>3, <1>6 DEF Holds

LEMMA LaunchWorkOut ==
  ASSUME IInv, ShapeInv, OutInv, LaunchWork
  PROVE  OutInv'
<1>1. /\ pc = "launch" /\ UNCHANGED <<args, host, waited, done, faulted, cell, out>>
      /\ \/ /\ pc' = "idle" /\ results' = Append(results, "invalid") /\ queue' = queue
         \/ /\ pc' = "finish" /\ results' = results /\ err' = lastError'
            /\ \E ok \in BOOLEAN : Submit(Work(Current), ok)
      /\ "invalid" \in Status
  BY DEF LaunchWork, memory, Return, Status
<1>2. PICK n \in Nat : n = Len(args) /\ n \in DOMAIN args /\ n \notin DOMAIN results
                       /\ n = Len(results) + 1
  BY <1>1, Latest
<1>3. ~Pending(n) /\ Unstarted(n)
  BY <1>1, <1>2 DEF OutInv, HostInv, Unstarted
<1>4. PICK kind : kind = Work(Current)
  OBVIOUS
<1>5. /\ kind \in Kinds /\ kind # "init"
      /\ kind = "decode" <=> args[n].entry \in Decodes
  <2>1. args[n] \in ArgType
    BY <1>2, Shapes
  <2>2. args[n].entry \in Decodes \cup {"build", "scatter"}
    BY <2>1 DEF ArgType
  <2> QED  BY <1>2, <1>4, <2>2 DEF Work, Current, Kinds, Decodes
<1>6. kind = "decode" => AllValid(n) /\ Holds(n, {})
  BY <1>1, <1>2, <1>5, LaunchReady
<1>7. /\ queue' = queue \/ Enqueue(kind)
      /\ pc' = "finish" /\ ~err' => Enqueue(kind)
  <2>1. CASE pc' = "idle" /\ queue' = queue
    BY <2>1
  <2>2. ASSUME NEW ok \in BOOLEAN, Submit(kind, ok), err' = lastError'
        PROVE  /\ queue' = queue \/ Enqueue(kind)
               /\ ~err' => Enqueue(kind)
    BY <2>2 DEF Submit, Api
  <2> QED  BY <1>1, <1>4, <2>1, <2>2
<1>8. QueueInv'
  BY <1>1, <1>2, <1>3, <1>5, <1>6, <1>7, QueueHost DEF OutInv
<1>9. CallInv'
  <2>1. CASE pc' = "idle" /\ results' = Append(results, "invalid") /\ queue' = queue
    BY <1>1, <1>2, <1>3, <2>1, CallHost DEF OutInv
  <2>2. CASE pc' = "finish" /\ results' = results
    <3>1. ~Unstarted(n)'
      BY <1>2, <2>2 DEF Unstarted
    <3>2. Accepted(n)' => ~err'
      BY <1>2, <2>2 DEF Accepted
    <3>3. args[n].entry \in Decodes /\ Accepted(n)' => AllValid(n) /\ InFlight("decode", n)'
      BY <1>2, <1>5, <1>6, <1>7, <2>2, <3>2, InFlightEnqueued
    <3> QED  BY <1>1, <1>2, <1>5, <1>7, <2>2, <3>1, <3>3, CallHost DEF OutInv
  <2> QED  BY <1>1, <2>1, <2>2
<1>10. HostInv'
  <2>1. ~InFlight("init", n)'
    <3>1. ~InFlight("init", n)
      BY <1>3 DEF InFlight, Pending
    <3>2. CASE queue' = queue
      BY <3>1, <3>2 DEF InFlight
    <3>3. CASE Enqueue(kind)
      BY <1>5, <3>1, <3>3, InFlightEnqueued
    <3> QED  BY <1>7, <3>2, <3>3
  <2>2. ~InFlight("init", Len(args))'
    BY <1>1, <1>2, <2>1 DEF InFlight
  <2> QED  BY <1>1, <2>2 DEF HostInv, FillsDone, InCheck
<1>11. StageInv'
  BY <1>1 DEF StageInv
<1> QED  BY <1>8, <1>9, <1>10, <1>11 DEF OutInv

LEMMA FinishOut ==
  ASSUME IInv, ShapeInv, OutInv, Finish
  PROVE  OutInv'
<1>1. /\ pc = "finish" /\ UNCHANGED <<args, err, host, waited, queue, done, faulted, cell, out>>
      /\ \/ pc' = "idle" /\ results' = Append(results, "failed")
         \/ pc' = "sync" /\ results' = results
         \/ pc' = "idle" /\ results' = Append(results, "ok") /\ ~err
      /\ "ok" \in Status /\ "failed" \in Status
  BY DEF Finish, deviceVars, memory, Return, Status
<1>2. PICK n \in Nat : n = Len(args) /\ n \in DOMAIN args /\ n \notin DOMAIN results
                       /\ n = Len(results) + 1
  BY <1>1, Latest
<1>3. ~InFlight("init", n) /\ ~InFlight("init", n)'
  BY <1>1, <1>2 DEF OutInv, HostInv, FillsDone, InFlight
<1>4. QueueInv'
  BY <1>1, <1>2, <1>3, QueueHost DEF OutInv
<1>5. CallInv'
  <2>1. ~err => Accepted(n)
    BY <1>1, <1>2 DEF Accepted
  <2>2. results' = results => ~Unstarted(n)' /\ (Accepted(n)' => Accepted(n))
    BY <1>1, <1>2 DEF Accepted, Unstarted
  <2> QED  BY <1>1, <1>2, <2>1, <2>2, CallHost DEF OutInv
<1>6. HostInv'
  <2>1. ~InFlight("init", Len(args))'
    BY <1>1, <1>2, <1>3 DEF InFlight
  <2> QED  BY <1>1, <2>1 DEF HostInv, FillsDone, InCheck
<1>7. StageInv'
  BY <1>1 DEF StageInv
<1> QED  BY <1>4, <1>5, <1>6, <1>7 DEF OutInv

LEMMA SynchronizeOut ==
  ASSUME IInv, ShapeInv, OutInv, Synchronize
  PROVE  OutInv'
<1>1. /\ pc = "sync" /\ pc' = "idle"
      /\ UNCHANGED <<args, err, host, queue, done, faulted, cell, out>>
      /\ \/ results' = Append(results, "failed") /\ waited' = waited
         \/ /\ results' = Append(results, "ok") /\ waited' = waited \cup {Len(args)}
            /\ queue = <<>> /\ ~faulted
      /\ "ok" \in Status /\ "failed" \in Status
  BY DEF Synchronize, deviceVars, memory, Return, Status
<1>2. PICK n \in Nat : n = Len(args) /\ n \in DOMAIN args /\ n \notin DOMAIN results
                       /\ n = Len(results) + 1
  BY <1>1, Latest
<1>3. ~InFlight("init", n)'
  BY <1>1, <1>2 DEF OutInv, HostInv, FillsDone, InFlight
<1>4. Accepted(n)
  <2>1. ~err
    BY <1>1 DEF IInv, ErrorInv
  <2> QED  BY <1>1, <1>2, <2>1 DEF Accepted
<1>5. QueueInv'
  <2>1. \E status \in Status : results' = Append(results, status)
                               /\ (status = "ok" => ~InFlight("init", n)')
    BY <1>1, <1>3
  <2> QED  BY <1>1, <1>2, <2>1, QueueHost DEF OutInv
<1>6. CallInv'
  BY <1>1, <1>2, <1>4, CallHost DEF OutInv
<1>7. HostInv' /\ StageInv'
  BY <1>1 DEF HostInv, FillsDone, InCheck, StageInv
<1> QED  BY <1>5, <1>6, <1>7 DEF OutInv

\* The device runs a part of its first operation.
LEMMA PartOut ==
  ASSUME IInv, ShapeInv, OutInv, queue # <<>>, NEW p \in Parts(Head1) \ done, Advance(p),
         NEW h, h = Head1.call,
         UNCHANGED <<args, results, pc, err, waited, faulted>>,
         \A c \in DOMAIN args \ {h} : Same(c),
         Head1.kind \notin {"init", "decode"} => Same(h),
         Head1.kind = "decode" => \A S : AllValid(h) /\ Holds(h, S) => Holds(h, S \cup {p})',
         Head1.kind = "decode" =>
           (args[h].entry = "full" /\ out[h].traces = out[h].tokens => out'[h].traces = out'[h].tokens),
         Head1.kind = "init" =>
           /\ out'[h].tokens = Struck(out[h].tokens, p)
           /\ out'[h].scores = Struck(out[h].scores, p),
         Head1.kind \notin {"memset", "validate"} => cell' = cell,
         Head1.kind = "memset" => cell' = "ok",
         Head1.kind = "validate" =>
           cell' = IF InvalidMetadata(args[h], p) /\ cell = "ok" THEN "invalid" ELSE cell,
         Head1.kind # "copy" => host' = host,
         Head1.kind = "copy" => host' = cell
  PROVE  OutInv'
<1>1. /\ 1 \in DOMAIN queue /\ Head1 = queue[1] /\ h \in DOMAIN args
  BY Advanced
<1>2. QueueInv' /\ CallInv'
  <2>1. Head1.kind = "init" => (Undecoded(out[h].tokens) => Undecoded(out'[h].tokens))
    BY UndecodedStruck
  <2>2. args[h].entry = "full" /\ out[h].traces = out[h].tokens => out'[h].traces = out'[h].tokens
    <3>1. Head1.kind = "init" => args[h].entry = "variable"
      BY <1>1 DEF OutInv, QueueInv, OpOk
    <3> QED  BY <3>1 DEF Same
  <2> QED  BY <2>1, <2>2, DeviceCalls DEF OutInv, HostInv
<1>3. HostInv'
  <2>1. PICK n : n = Len(args)
    OBVIOUS
  <2>2. Pending(n)' => Pending(n)
    <3>1. \A k \in DOMAIN queue' : \E m \in DOMAIN queue : queue'[k] = queue[m]
      BY AdvanceKeeps DEF IInv
    <3> QED  BY <3>1 DEF Pending
  <2>3. InFlight("init", n)' => InFlight("init", n)
    BY InFlightAdvanced
  <2>4. ~Pending(n) /\ n \in DOMAIN args => Same(n)
    BY <1>1 DEF Pending
  <2>5. pc # "idle" => n \in DOMAIN args
    BY <2>1, Latest
  <2>6. pc = "launch" /\ Current.entry \in Decodes =>
          AllValid(n)' /\ (Current.entry = "variable" => Blank(n)')
    <3> SUFFICES ASSUME pc = "launch", Current.entry \in Decodes
                 PROVE  AllValid(n)' /\ (Current.entry = "variable" => Blank(n)')
      OBVIOUS
    <3>1. Same(n)
      BY <2>1, <2>4, <2>5 DEF OutInv, HostInv
    <3>2. AllValid(n) /\ (Current.entry = "variable" => Blank(n))
      BY <2>1 DEF OutInv, HostInv
    <3> QED  BY <3>1, <3>2 DEF AllValid, Blank, FilledBy, Same
  <2>7. pc \in {"grid", "init", "launch"} => ~Pending(Len(args))'
    BY <2>1, <2>2 DEF OutInv, HostInv, Pending
  <2>8. FillsDone'
    BY <2>1, <2>3 DEF OutInv, HostInv, FillsDone, InFlight
  <2>9. pc \in {"init", "malloc"} \cup InCheck => Current.entry' = "variable"
    BY DEF OutInv, HostInv, Current
  <2>10. ~(pc = "free" /\ ~err)
    BY DEF OutInv, HostInv
  <2>11. pc = "launch" /\ Current.entry' \in Decodes =>
           AllValid(Len(args))' /\ (Current.entry' = "variable" => Blank(Len(args))')
    BY <2>1, <2>6 DEF Current, AllValid, Blank, FilledBy
  <2> QED  BY <2>7, <2>8, <2>9, <2>10, <2>11 DEF HostInv
<1>4. StageInv'
  <2> SUFFICES ASSUME ~faulted, pc \in {"malloc", "memset", "validate", "copy", "wait"}
               PROVE  StageAt(Len(queue) - StageOf(pc), StageOf(pc))'
    BY DEF StageInv
  <2>1. PICK s \in 1 .. 4 : s = StageOf(pc)
    BY DEF StageOf
  <2>2. PICK a \in Int : a = Len(queue) - s
    <3>1. Len(queue) \in Nat
      BY Shapes
    <3> QED  BY <3>1
  <2>3. StageAt(a, s)
    BY <2>1, <2>2 DEF OutInv, StageInv
  <2>4. StageAt(Len(queue) - s, s)'
    BY <2>2, <2>3, StageAdvanced
  <2>5. StageOf(pc') = s
    BY <2>1
  <2> QED  BY <2>4, <2>5
<1> QED  BY <1>2, <1>3, <1>4 DEF OutInv

\* The kernels that write buffers, and what of them matters here.
LEMMA InitPartOut ==
  ASSUME IInv, ShapeInv, OutInv, NEW p, RunInit(p)
  PROVE  OutInv'
<1>1. /\ queue # <<>> /\ Head1.kind = "init" /\ p \in Parts(Head1) \ done /\ Advance(p)
      /\ UNCHANGED <<args, results, pc, err, host, waited, faulted, cell>>
  BY DEF RunInit, Running, hostVars
<1>2. PICK h : h = Head1.call
  OBVIOUS
<1>3. Written(h, Struck(out[h].tokens, p), Struck(out[h].scores, p), out[h].traces,
              out[h].entries, out[h].draws)
  BY <1>2, InitWrites DEF IInv, ShapeInv
<1>4. \A c \in DOMAIN args \ {h} : Same(c)
  BY <1>3 DEF Written, Same
<1>5. out'[h].tokens = Struck(out[h].tokens, p) /\ out'[h].scores = Struck(out[h].scores, p)
  BY <1>3 DEF Written
<1> QED  BY <1>1, <1>2, <1>4, <1>5, PartOut

LEMMA DecodePartOut ==
  ASSUME IInv, ShapeInv, OutInv, NEW b \in Example, RunDecode(b)
  PROVE  OutInv'
<1>1. /\ queue # <<>> /\ Head1.kind = "decode" /\ b \in Parts(Head1) \ done /\ Advance(b)
      /\ UNCHANGED <<args, results, pc, err, host, waited, faulted, cell>>
  BY DEF RunDecode, Running, hostVars
<1>2. PICK h : h = Head1.call /\ h \in DOMAIN args
  BY <1>1, Advanced
<1>3. PICK a \in ArgType : a = args[h]
  <2>1. args \in Seq(ArgType)
    BY Shapes
  <2> QED  BY <1>2, <2>1
<1>4. PICK where, rows : /\ where = [x \in TokenSlots(a, b) |-> Address(TokenSlot(a, x))]
                         /\ rows = [x \in ScoreSlots(a, b) |-> ScoreSlot(a, x)]
  OBVIOUS
<1>5. Written(h, Store(out[h].tokens, where), Store(out[h].scores, rows),
              IF a.entry = "full" THEN Store(out[h].traces, where) ELSE out[h].traces,
              out[h].entries, out[h].draws)
  BY <1>2, <1>3, <1>4, DecodeWrites DEF IInv, ShapeInv
<1>6. /\ out'[h].tokens = Store(out[h].tokens, where)
      /\ out'[h].scores = Store(out[h].scores, rows)
      /\ a.entry = "full" => out'[h].traces = Store(out[h].traces, where)
  BY <1>5 DEF Written
<1>7. \A c \in DOMAIN args \ {h} : Same(c)
  BY <1>5 DEF Written, Same
<1>8. ASSUME NEW S, AllValid(h), Holds(h, S)  PROVE Holds(h, S \cup {b})'
  <2>1. ~InvalidMetadata(a, b)
    BY <1>3, <1>8 DEF AllValid
  <2>2. a.beam \in Nat
    <3>1. a.meta[b].beam \in 1 .. a.beam /\ a.beam \in Int /\ a.meta[b].beam \in Int
      BY <2>1 DEF InvalidMetadata, ArgType
    <3> QED  BY <3>1
  <2>3. /\ DOMAIN out[h].tokens = 0 .. TokenCount(a) - 1
        /\ DOMAIN out[h].scores = 0 .. ScoreCount(a) - 1
    BY <1>2, <1>3, BufferFields DEF ShapeInv, BufferInv
  <2>4. Held(a, out[h].tokens, out[h].scores, S)
    BY <1>3, <1>8 DEF Holds
  <2>5. Held(a, out'[h].tokens, out'[h].scores, S \cup {b})
    BY <1>4, <1>6, <2>1, <2>2, <2>3, <2>4, HeldDecoded
  <2> QED  BY <1>1, <1>3, <2>5 DEF Holds
<1>9. args[h].entry = "full" /\ out[h].traces = out[h].tokens => out'[h].traces = out'[h].tokens
  BY <1>3, <1>6
<1> QED  BY <1>1, <1>2, <1>7, <1>8, <1>9, PartOut

LEMMA DeviceStepOut ==
  ASSUME IInv, ShapeInv, OutInv, DeviceStep
  PROVE  OutInv'
<1>1. queue # <<>> /\ Head1.kind \in {"memset", "copy"} => 0 \in Parts(Head1) \ done
  BY DEF ShapeInv, StreamInv, PartInv, PartsOf, Parts
<1>2. out' = out => \A c : Same(c)
  BY DEF Same
<1>3. ASSUME NEW h, NEW en, NEW dr,
             Written(h, out[h].tokens, out[h].scores, out[h].traces, en, dr)
      PROVE  \A c \in DOMAIN args \cup {h} : Same(c)
  BY <1>3 DEF Written, Same
<1>4. CASE RunMemset
  <2>1. /\ queue # <<>> /\ Head1.kind = "memset" /\ Advance(0) /\ cell' = "ok" /\ out' = out
        /\ UNCHANGED <<args, results, pc, err, host, waited, faulted>>
    BY <1>4 DEF RunMemset, Running, hostVars
  <2> QED  BY <1>1, <1>2, <2>1, PartOut
<1>5. CASE RunCopy
  <2>1. /\ queue # <<>> /\ Head1.kind = "copy" /\ Advance(0) /\ host' = cell /\ out' = out
        /\ UNCHANGED <<args, results, pc, err, waited, faulted, cell>>
    BY <1>5 DEF RunCopy, Running, memory
  <2> QED  BY <1>1, <1>2, <2>1, PartOut
<1>6. ASSUME NEW p \in 0 .. Threads - 1, RunInit(p)  PROVE OutInv'
  BY <1>6, InitPartOut
<1>7. ASSUME NEW b \in Example, RunValidate(b)  PROVE OutInv'
  <2>1. /\ queue # <<>> /\ Head1.kind = "validate" /\ b \in Parts(Head1) \ done /\ Advance(b)
        /\ UNCHANGED <<args, results, pc, err, host, waited, faulted>> /\ out' = out
        /\ cell' = IF InvalidMetadata(args[Head1.call], b) /\ cell = "ok" THEN "invalid" ELSE cell
    BY <1>7 DEF RunValidate, Running, hostVars, Arg
  <2> QED  BY <1>2, <2>1, PartOut
<1>8. ASSUME NEW b \in Example, RunDecode(b)  PROVE OutInv'
  BY <1>8, DecodePartOut
<1>9. ASSUME NEW b \in Example, RunDraws(b)  PROVE OutInv'
  <2>1. /\ queue # <<>> /\ Head1.kind = "build" /\ <<b, -1>> \in Parts(Head1) \ done
        /\ Advance(<<b, -1>>)
        /\ UNCHANGED <<args, results, pc, err, host, waited, faulted, cell>>
    BY <1>9 DEF RunDraws, Running, hostVars
  <2>2. PICK h : h = Head1.call
    OBVIOUS
  <2>3. Written(h, out[h].tokens, out[h].scores, out[h].traces, out[h].entries,
                [out[h].draws EXCEPT ![b] = Draw[b]])
    BY <1>9, <2>2, DrawsWrites DEF IInv, ShapeInv
  <2> QED  BY <1>3, <2>1, <2>2, <2>3, PartOut
<1>10. ASSUME NEW b \in Example, NEW l \in 0 .. Threads - 1, RunBuild(b, l)  PROVE OutInv'
  <2>1. /\ queue # <<>> /\ Head1.kind = "build" /\ <<b, l>> \in Parts(Head1) \ done
        /\ Advance(<<b, l>>)
        /\ UNCHANGED <<args, results, pc, err, host, waited, faulted, cell>>
    BY <1>10 DEF RunBuild, Running, hostVars
  <2>2. PICK h : h = Head1.call
    OBVIOUS
  <2>3. Written(h, out[h].tokens, out[h].scores, out[h].traces, Built(h, b, l), out[h].draws)
    BY <1>10, <2>2, BuildWrites DEF IInv, ShapeInv
  <2> QED  BY <1>3, <2>1, <2>2, <2>3, PartOut
<1>11. ASSUME NEW i, RunScatter(i)  PROVE OutInv'
  <2>1. /\ queue # <<>> /\ Head1.kind = "scatter" /\ i \in Parts(Head1) \ done /\ Advance(i)
        /\ UNCHANGED <<args, results, pc, err, host, waited, faulted, cell>> /\ out' = out
    BY <1>11 DEF RunScatter, Running, hostVars
  <2> QED  BY <1>2, <2>1, PartOut
<1> QED  BY <1>4, <1>5, <1>6, <1>7, <1>8, <1>9, <1>10, <1>11 DEF DeviceStep

\* A fault, and the steps of others.
LEMMA QuietOut ==
  ASSUME IInv, ShapeInv, OutInv, UNCHANGED <<args, results, pc, err, host, waited, cell, out>>,
         UNCHANGED <<queue, done, faulted>> \/ (queue' = <<>> /\ done' = {} /\ faulted' = TRUE)
  PROVE  OutInv'
<1>1. CASE UNCHANGED <<queue, done, faulted>>
  <2>1. ASSUME NEW k  PROVE OpOk(k)' <=> OpOk(k)
    BY <1>1 DEF OpOk, AllValid, Holds
  <2>2. ASSUME NEW c  PROVE CallOk(c)' <=> CallOk(c)
    BY <1>1 DEF CallOk, AllValid, Holds, InFlight, Accepted, Unstarted
  <2>3. QueueInv' /\ CallInv'
    BY <1>1, <2>1, <2>2 DEF OutInv, QueueInv, CallInv
  <2>4. HostInv'
    BY <1>1 DEF OutInv, HostInv, FillsDone, Pending, InFlight, Current, AllValid, Blank, FilledBy,
                Verdict
  <2>5. StageInv'
    BY <1>1 DEF OutInv, StageInv, StageAt, Blank, FilledBy, Verdict
  <2> QED  BY <2>3, <2>4, <2>5 DEF OutInv
<1>2. CASE queue' = <<>> /\ done' = {} /\ faulted' = TRUE
  <2>1. ASSUME NEW kind, NEW c  PROVE ~InFlight(kind, c)' /\ ~Pending(c)'
    BY <1>2, EmptySeq DEF InFlight, Pending
  <2>2. QueueInv'
    BY <1>2, EmptySeq DEF QueueInv
  <2>3. ASSUME NEW c \in DOMAIN args  PROVE CallOk(c)'
    <3>1. CallOk(c)
      BY DEF OutInv, CallInv
    <3>2. (AllValid(c)' <=> AllValid(c)) /\ (Holds(c, Example)' <=> Holds(c, Example))
          /\ (Accepted(c)' <=> Accepted(c)) /\ (Unstarted(c)' <=> Unstarted(c))
      BY DEF AllValid, Holds, Accepted, Unstarted
    <3> QED  BY <1>2, <2>1, <3>1, <3>2 DEF CallOk
  <2>4. CallInv'
    BY <2>3 DEF OutInv, CallInv
  <2>5. HostInv'
    <3>1. ~InFlight("init", Len(args))' /\ ~Pending(Len(args))'
      BY <1>2, EmptySeq DEF InFlight, Pending
    <3> QED  BY <1>2, <3>1 DEF OutInv, HostInv, FillsDone, Current, AllValid, Blank, FilledBy, Verdict
  <2>6. StageInv'
    BY <1>2 DEF StageInv
  <2> QED  BY <2>2, <2>4, <2>5, <2>6 DEF OutInv
<1> QED  BY <1>1, <1>2

LEMMA NextOut == IInv /\ ShapeInv /\ OutInv /\ [Next]_vars => OutInv'
<1> SUFFICES ASSUME IInv, ShapeInv, OutInv, [Next]_vars  PROVE OutInv'
  OBVIOUS
<1>1. CASE \E a \in Arguments : Begin(a)
  BY <1>1, BeginOut
<1>2. CASE CheckGrid
  BY <1>2, CheckGridOut
<1>3. CASE LaunchInit
  BY <1>3, LaunchInitOut
<1>4. CASE Malloc
  BY <1>4, MallocOut
<1>5. CASE Memset
  BY <1>5, CheckStepOut DEF Memset, StatusKinds
<1>6. CASE LaunchValidate
  BY <1>6, CheckStepOut DEF LaunchValidate, StatusKinds
<1>7. CASE CopyStatus
  BY <1>7, CheckStepOut DEF CopyStatus, StatusKinds
<1>8. CASE AwaitStatus
  BY <1>8, AwaitStatusOut
<1>9. CASE FreeStatus
  BY <1>9, FreeStatusOut
<1>10. CASE LaunchWork
  BY <1>10, LaunchWorkOut
<1>11. CASE Finish
  BY <1>11, FinishOut
<1>12. CASE Synchronize
  BY <1>12, SynchronizeOut
<1>13. CASE DeviceStep
  BY <1>13, DeviceStepOut
<1>14. CASE Fault
  BY <1>14, QuietOut DEF Fault, hostVars, memory
<1>15. CASE SetSynchronization
  BY <1>15, QuietOut DEF SetSynchronization, hostVars, deviceVars, memory
<1>16. CASE UNCHANGED vars
  BY <1>16, QuietOut DEF vars, hostVars, deviceVars, memory
<1> QED
  BY <1>1, <1>2, <1>3, <1>4, <1>5, <1>6, <1>7, <1>8, <1>9, <1>10, <1>11, <1>12,
     <1>13, <1>14, <1>15, <1>16 DEF Next, HostStep

LEMMA OutInvariant == Spec => [](IInv /\ ShapeInv /\ OutInv)
<1>1. IInv /\ ShapeInv /\ OutInv /\ [Next]_vars => (IInv /\ ShapeInv /\ OutInv)'
  BY NextInv, NextShape, NextOut
<1> QED  BY InitInv, InitShape, InitOut, <1>1, PTL DEF Spec

-----------------------------------------------------------------------------
(***************************************************************************)
(* Gradients.  A gradient call reads the traces of a full decode, and a    *)
(* scatter the entries of a gradient call, that came before it; on the     *)
(* stream they come in order.                                              *)
(***************************************************************************)

\* Every traced decode that the runtime takes has slots that fit in int.
FullCountable == \A a \in Requests : a.entry = "full" /\ a.beam <= FastMaxBeam => Countable(a)

\* Call c reads the output of an earlier call of this entry that was ok.
Reads(c, entry) ==
  LET d == args[c].from
  IN  /\ d \in DOMAIN results /\ results[d] = "ok"
      /\ args[d].entry = entry /\ args[c].meta = args[d].meta

LinkOk(c) ==
  /\ args[c].entry = "build" => Reads(c, "full")
  /\ args[c].entry = "scatter" /\ args[c].from # 0 => Reads(c, "build")
  /\ args[c].entry = "full" /\ args[c].beam <= FastMaxBeam => Countable(args[c])
  /\ args[c].entry = "full" /\ Accepted(c) => args[c].beam <= FastMaxBeam

\* The stream holds the operations in the order of their calls.
LinkInv ==
  /\ \A c \in DOMAIN args : LinkOk(c)
  /\ \A i, k \in DOMAIN queue : i <= k => queue[i].call <= queue[k].call
  /\ \A k \in DOMAIN queue : queue[k].kind = "build" => args[queue[k].call].entry = "build"
  /\ faulted => queue = <<>>

\* The entry of cell x is the one its trace and the draw of its beam make.
EntryMade(c, x) ==
  out[c].entries[TokenSlot(args[c], x)] = EntryOf(args[c], x, x, Draw[x[1]][x[3]])

\* The lane that makes it.
LaneOf(a, x) == <<x[1], (x[2] * a.beam + x[3]) % Threads>>

\* What the parts S of the gradient kernel have made.
Progress(c, S) ==
  /\ \A b \in Example : <<b, -1>> \in S => out[c].draws[b] = Draw[b]
  /\ \A x \in Cells(args[c]) : LaneOf(args[c], x) \in S => EntryMade(c, x)

\* A gradient call that was accepted and has left the stream has its entries.
BuildOk(c) ==
  /\ DOMAIN out[c].draws = Example
  /\ args[c].entry = "build" /\ Accepted(c) /\ ~faulted /\ ~InFlight("build", c) =>
       \A x \in Cells(args[c]) : EntryMade(c, x)

BuildInv ==
  /\ \A c \in DOMAIN args : BuildOk(c)
  /\ Running("build") => Progress(Head1.call, done)

\* What the entries of S among those of E add to the gradient at j.
Amount(E, j, S) ==
  LET value == [i \in DOMAIN E |-> IF E[i].index = j THEN E[i].value ELSE 0]
  IN  Total(value, S)

GradIndex == 0 .. GradCount - 1

\* Until the scatter that runs is through, the gradient lacks what is left of
\* its entries.
SumInv ==
  /\ grad \in [GradIndex -> Int] /\ due \in [GradIndex -> Int]
  /\ ~faulted =>
       IF Running("scatter") /\ done # {}
       THEN \A j \in GradIndex :
              due[j] = grad[j] + Amount(Entries(Head1.call), j, DOMAIN Entries(Head1.call) \ done)
       ELSE grad = due

GradInv == LinkInv /\ BuildInv /\ SumInv

-----------------------------------------------------------------------------
(***************************************************************************)
(* The host.                                                               *)
(***************************************************************************)

\* Some of the entries of a call stay as they are.
LEMMA EntryKept ==
  ASSUME ArgsKept, NEW c \in DOMAIN args, NEW entry \in {"full", "build", "scatter"}
  PROVE  args'[c].entry = entry <=> args[c].entry = entry
BY DEF ArgsKept

LEMMA ReadsKept ==
  ASSUME IInv, ShapeInv, ArgsKept, NEW c \in DOMAIN args, NEW entry \in {"full", "build"},
         \A d \in DOMAIN results : d \in DOMAIN results' /\ results'[d] = results[d],
         Reads(c, entry)
  PROVE  Reads(c, entry)'
<1>1. PICK d : d = args[c].from
  OBVIOUS
<1>2. /\ d \in DOMAIN results /\ results[d] = "ok" /\ args[d].entry = entry
      /\ args[c].meta = args[d].meta
  BY <1>1 DEF Reads
<1>3. d \in DOMAIN args
  <2>1. /\ DOMAIN args = 1 .. Len(args) /\ DOMAIN results = 1 .. Len(results)
        /\ Len(args) = Len(results) + (IF pc = "idle" THEN 0 ELSE 1)
        /\ Len(results) \in Nat
    BY Shapes
  <2> QED  BY <1>2, <2>1
<1>4. args'[c].from = d /\ args'[c].meta = args[c].meta /\ args'[d].meta = args[d].meta
  BY <1>1, <1>3 DEF ArgsKept
<1>5. args'[d].entry = entry
  BY <1>2, <1>3, EntryKept
<1> QED  BY <1>2, <1>4, <1>5 DEF Reads

\* An entry depends on no more of the arguments than the beam size.
LEMMA EntryMadeKept ==
  ASSUME NEW c, args'[c].beam = args[c].beam, out'[c].entries = out[c].entries
  PROVE  /\ Cells(args'[c]) = Cells(args[c])
         /\ \A x : EntryMade(c, x)' <=> EntryMade(c, x)
         /\ \A x : LaneOf(args'[c], x) = LaneOf(args[c], x)
BY DEF Cells, EntryMade, TokenSlot, EntryOf, EntryIndex, LaneOf

\* The first operation of the stream as the host leaves it.
LEMMA HeadKept ==
  ASSUME IInv, ShapeInv, UNCHANGED done,
         queue' = queue \/ \E kind \in Kinds : Enqueue(kind)
  PROVE  \/ queue # <<>> /\ queue' # <<>> /\ Head1' = Head1 /\ Head1.call \in DOMAIN args
         \/ queue = <<>> /\ done = {}
<1>1. CASE queue = <<>>
  BY <1>1 DEF ShapeInv, StreamInv, PartInv
<1>2. CASE queue # <<>>
  <2>1. queue \in Seq(OpType) /\ 1 \in DOMAIN queue /\ queue[1].call \in DOMAIN args
    <3>1. queue \in Seq(OpType) /\ \A k \in DOMAIN queue : queue[k].call \in DOMAIN args
      BY Shapes
    <3> QED  BY <1>2, <3>1
  <2>2. ASSUME NEW kind \in Kinds, Enqueue(kind)
        PROVE  queue' # <<>> /\ Head1' = Head1
    <3>1. PICK op \in OpType : queue' = Append(queue, op)
      <4>1. Op(kind) \in OpType
        BY Shapes DEF Op, OpType
      <4> QED  BY <2>2, <4>1 DEF Enqueue
    <3> QED  BY <1>2, <2>1, <3>1 DEF Head1
  <2> QED  BY <1>2, <2>1, <2>2 DEF Head1
<1> QED  BY <1>1, <1>2

LEMMA EntriesKept ==
  ASSUME IInv, ShapeInv, ArgsKept, \A c \in DOMAIN args : out'[c].entries = out[c].entries,
         NEW c \in DOMAIN args
  PROVE  Entries(c)' = Entries(c)
<1>1. args'[c].from = args[c].from /\ args'[c].list = args[c].list
  BY DEF ArgsKept
<1>2. args[c].from # 0 => args[c].from \in DOMAIN args
  <2>1. args[c].from \in 0 .. c - 1 /\ DOMAIN args = 1 .. Len(args) /\ Len(args) \in Nat
    BY Shapes DEF ShapeInv, ArgInv
  <2> QED  BY <2>1
<1> QED  BY <1>1, <1>2 DEF Entries

\* A step of the host makes a call, takes one on, enqueues or returns.
HostMoves ==
  /\ ArgsKept
  /\ \A c \in DOMAIN args : out'[c] = out[c]
  /\ UNCHANGED <<done, faulted, grad, due>>
  /\ \A c \in DOMAIN results : c \in DOMAIN results' /\ results'[c] = results[c]
  /\ \/ queue' = queue
     \/ \E kind \in Kinds : /\ Enqueue(kind) /\ ~faulted /\ pc # "idle" /\ UNCHANGED args
                            /\ kind = "build" => Current.entry = "build"
  /\ \A c \in DOMAIN args : args[c].entry \in {"full", "build"} /\ Accepted(c)' =>
       \/ Accepted(c)
       \/ /\ args[c].entry = "full" => args[c].beam <= FastMaxBeam
          /\ args[c].entry = "build" => InFlight("build", c)'
  /\ \A c \in DOMAIN args' \ DOMAIN args :
       /\ LinkOk(c)' /\ DOMAIN out'[c].draws = Example
       /\ args'[c].entry = "build" => ~Accepted(c)'

LEMMA HostLinks ==
  ASSUME IInv, ShapeInv, LinkInv, HostMoves
  PROVE  LinkInv'
<1>1. ASSUME NEW c \in DOMAIN args  PROVE LinkOk(c)'
  <2>1. LinkOk(c) /\ ArgsKept
    BY DEF LinkInv, HostMoves
  <2>2. args[c].entry = "build" => Reads(c, "full")'
    BY <2>1, ReadsKept DEF LinkOk, HostMoves
  <2>3. args[c].entry = "scatter" /\ args[c].from # 0 => Reads(c, "build")'
    BY <2>1, ReadsKept DEF LinkOk, HostMoves
  <2>4. /\ args'[c].beam = args[c].beam /\ args'[c].from = args[c].from
        /\ \A entry \in {"full", "build", "scatter"} :
             args'[c].entry = entry <=> args[c].entry = entry
    BY <2>1, EntryKept DEF ArgsKept
  <2>5. Countable(args'[c]) <=> Countable(args[c])
    BY <2>4 DEF Countable, TokenCount
  <2>6. args[c].entry = "full" /\ Accepted(c)' => args[c].beam <= FastMaxBeam
    BY <2>1 DEF LinkOk, HostMoves
  <2> QED  BY <2>1, <2>2, <2>3, <2>4, <2>5, <2>6 DEF LinkOk
<1>2. \A c \in DOMAIN args' : LinkOk(c)'
  BY <1>1 DEF HostMoves
<1>3. CASE queue' = queue
  <2>1. \A k \in DOMAIN queue : queue[k].call \in DOMAIN args
    BY Shapes
  <2>2. \A k \in DOMAIN queue : queue[k].kind = "build" => args'[queue[k].call].entry = "build"
    BY <2>1, EntryKept DEF LinkInv, HostMoves
  <2> QED  BY <1>2, <1>3, <2>2 DEF LinkInv, HostMoves
<1>4. ASSUME NEW kind \in Kinds, Enqueue(kind), ~faulted, pc # "idle", UNCHANGED args,
             kind = "build" => Current.entry = "build"
      PROVE  LinkInv'
  <2>1. /\ Len(queue) \in Nat /\ DOMAIN queue = 1 .. Len(queue)
        /\ Len(args) \in Nat /\ DOMAIN args = 1 .. Len(args)
        /\ \A k \in DOMAIN queue : queue[k].call \in DOMAIN args
    BY Shapes
  <2> PICK l \in Nat : l = Len(queue) + 1
    BY <2>1
  <2> PICK n \in Nat : n = Len(args)
    BY <2>1
  <2>2. /\ DOMAIN queue' = DOMAIN queue \cup {l} /\ l \notin DOMAIN queue
        /\ \A k \in DOMAIN queue : queue'[k] = queue[k] /\ queue[k].call \in 1 .. n
                                   /\ k \in Nat /\ k < l
        /\ queue'[l].kind = kind /\ queue'[l].call = n
    <3>1. /\ DOMAIN queue' = DOMAIN queue \cup {l}
          /\ \A k \in DOMAIN queue : queue'[k] = queue[k]
          /\ queue'[l].kind = kind /\ queue'[l].call = n
      BY <1>4, Enqueued
    <3> QED  BY <2>1, <3>1
  <2>3. \A i, k \in DOMAIN queue' : i <= k => queue'[i].call <= queue'[k].call
    BY <2>1, <2>2 DEF LinkInv
  <2>4. \A k \in DOMAIN queue' : queue'[k].kind = "build" => args'[queue'[k].call].entry = "build"
    BY <1>4, <2>1, <2>2 DEF LinkInv, Current
  <2>5. ~faulted'
    BY <1>4 DEF HostMoves
  <2> QED  BY <1>2, <2>3, <2>4, <2>5 DEF LinkInv
<1> QED  BY <1>3, <1>4 DEF HostMoves

LEMMA HostBuilds ==
  ASSUME IInv, ShapeInv, BuildInv, HostMoves
  PROVE  BuildInv'
<1>1. ASSUME NEW c \in DOMAIN args
      PROVE  /\ Cells(args'[c]) = Cells(args[c])
             /\ \A x : EntryMade(c, x)' <=> EntryMade(c, x)
             /\ \A x : LaneOf(args'[c], x) = LaneOf(args[c], x)
  BY EntryMadeKept DEF HostMoves, ArgsKept
<1>2. ASSUME NEW c, InFlight("build", c)  PROVE InFlight("build", c)'
  <2>1. CASE queue' = queue
    BY <1>2, <2>1 DEF InFlight
  <2>2. ASSUME NEW kind \in Kinds, Enqueue(kind)  PROVE InFlight("build", c)'
    BY <1>2, <2>2, InFlightEnqueued
  <2> QED  BY <2>1, <2>2 DEF HostMoves
<1>3. ASSUME NEW c \in DOMAIN args  PROVE BuildOk(c)'
  <2>1. BuildOk(c) /\ out'[c] = out[c] /\ (args'[c].entry = "build" <=> args[c].entry = "build")
    BY EntryKept DEF BuildInv, HostMoves
  <2>2. args[c].entry = "build" /\ Accepted(c)' => Accepted(c) \/ InFlight("build", c)'
    BY DEF HostMoves
  <2>3. faulted' = faulted
    BY DEF HostMoves
  <2> QED  BY <1>1, <1>2, <2>1, <2>2, <2>3 DEF BuildOk
<1>4. \A c \in DOMAIN args' : BuildOk(c)'
  BY <1>3 DEF HostMoves, BuildOk
<1>5. ASSUME Running("build")'  PROVE Progress(Head1.call, done)'
  <2>1. done' = done /\ (queue' = queue \/ \E kind \in Kinds : Enqueue(kind))
    BY DEF HostMoves
  <2>2. CASE /\ queue # <<>> /\ queue' # <<>> /\ Head1' = Head1 /\ Head1.call \in DOMAIN args
    <3>1. PICK c \in DOMAIN args : c = Head1.call
      BY <2>2
    <3>2. Progress(c, done)
      BY <1>5, <2>2, <3>1 DEF BuildInv, Running
    <3>3. out'[c] = out[c]
      BY DEF HostMoves
    <3> QED  BY <1>1, <2>1, <2>2, <3>1, <3>2, <3>3 DEF Progress
  <2>3. CASE done = {}
    BY <2>1, <2>3 DEF Progress
  <2> QED  BY <2>1, <2>2, <2>3, HeadKept
<1> QED  BY <1>4, <1>5 DEF BuildInv

LEMMA HostSums ==
  ASSUME IInv, ShapeInv, SumInv, HostMoves
  PROVE  SumInv'
<1>1. UNCHANGED <<done, faulted, grad, due>>
  BY DEF HostMoves
<1>2. GradIndex' = GradIndex
  BY DEF GradIndex, GradCount
<1>3. CASE queue = <<>> /\ done = {}
  <2>1. ~faulted => grad = due
    BY <1>3 DEF SumInv
  <2> QED  BY <1>1, <1>2, <1>3, <2>1 DEF SumInv
<1>4. CASE queue # <<>> /\ queue' # <<>> /\ Head1' = Head1 /\ Head1.call \in DOMAIN args
  <2>1. PICK h \in DOMAIN args : h = Head1.call
    BY <1>4
  <2>2. Entries(h)' = Entries(h)
    BY EntriesKept DEF HostMoves
  <2>3. Running("scatter")' <=> Running("scatter")
    BY <1>4 DEF Running
  <2> QED  BY <1>1, <1>2, <1>4, <2>1, <2>2, <2>3 DEF SumInv, Amount
<1> QED  BY <1>3, <1>4, HeadKept DEF HostMoves

LEMMA HostGrad ==
  ASSUME IInv, ShapeInv, GradInv, HostMoves
  PROVE  GradInv'
BY HostLinks, HostBuilds, HostSums DEF GradInv

\* A step within a call.
LEMMA WithinCall ==
  ASSUME IInv, ShapeInv, pc # "idle", UNCHANGED <<args, out, done, faulted, grad, due>>,
         NEW n, n = Len(args),
         \/ queue' = queue
         \/ \E kind \in Kinds : /\ Enqueue(kind) /\ ~faulted
                                /\ kind = "build" => Current.entry = "build",
         \/ /\ results' = results
            /\ pc' \in {"finish", "sync"} /\ ~err' =>
                 \/ Accepted(n)
                 \/ /\ args[n].entry = "full" => args[n].beam <= FastMaxBeam
                    /\ args[n].entry = "build" => InFlight("build", n)'
         \/ \E status \in Status : /\ results' = Append(results, status)
                                   /\ status = "ok" => Accepted(n)
  PROVE  HostMoves
<1>1. /\ n = Len(results) + 1 /\ n \in DOMAIN args /\ n \notin DOMAIN results
      /\ \A c \in DOMAIN args : c = n \/ c \in DOMAIN results
  <2>1. /\ Len(args) = Len(results) + 1 /\ DOMAIN args = 1 .. Len(args)
        /\ DOMAIN results = 1 .. Len(results) /\ Len(results) \in Nat
    BY Shapes
  <2> QED  BY <2>1
<1>2. ArgsKept
  BY DEF ArgsKept
<1>3. /\ \A c \in DOMAIN results : c \in DOMAIN results' /\ results'[c] = results[c]
      /\ Accepted(n)' =>
           \/ Accepted(n)
           \/ /\ args[n].entry = "full" => args[n].beam <= FastMaxBeam
              /\ args[n].entry = "build" => InFlight("build", n)'
  <2>1. CASE /\ results' = results
             /\ pc' \in {"finish", "sync"} /\ ~err' =>
                  \/ Accepted(n)
                  \/ /\ args[n].entry = "full" => args[n].beam <= FastMaxBeam
                     /\ args[n].entry = "build" => InFlight("build", n)'
    BY <1>1, <2>1 DEF Accepted
  <2>2. ASSUME NEW status \in Status, results' = Append(results, status),
               status = "ok" => Accepted(n)
        PROVE  /\ \A c \in DOMAIN results : c \in DOMAIN results' /\ results'[c] = results[c]
               /\ Accepted(n)' => Accepted(n)
    <3>1. /\ DOMAIN results' = DOMAIN results \cup {n}
          /\ \A c \in DOMAIN results : results'[c] = results[c]
          /\ results'[n] = status
      BY <1>1, <2>2, ReturnKeeps DEF IInv
    <3> QED  BY <2>2, <3>1 DEF Accepted
  <2> QED  BY <2>1, <2>2
<1>4. ASSUME NEW c \in DOMAIN args, Accepted(c)'
      PROVE  \/ Accepted(c)
             \/ /\ args[c].entry = "full" => args[c].beam <= FastMaxBeam
                /\ args[c].entry = "build" => InFlight("build", c)'
  <2>1. CASE c = n
    BY <1>3, <1>4, <2>1
  <2>2. CASE c \in DOMAIN results
    BY <1>3, <1>4, <2>2 DEF Accepted
  <2> QED  BY <1>1, <2>1, <2>2
<1> QED  BY <1>2, <1>3, <1>4 DEF HostMoves

\* The steps up to the launch return no more than a failure.
LEMMA CheckingMoves ==
  ASSUME IInv, ShapeInv,
         LaunchInit \/ Malloc \/ Memset \/ LaunchValidate \/ CopyStatus \/ AwaitStatus \/ FreeStatus
  PROVE  HostMoves
<1>1. CASE LaunchInit
  <2>1. PICK ok \in BOOLEAN : Submit("init", ok)
    BY <1>1 DEF LaunchInit
  <2>2. queue' = queue \/ (Enqueue("init") /\ ~faulted)
    BY <2>1 DEF Submit, Api
  <2>3. /\ pc = "init" /\ UNCHANGED <<args, out, done, faulted, grad, due>>
        /\ \/ results' = results /\ pc' = "malloc"
           \/ results' = Append(results, "failed")
        /\ "init" \in Kinds /\ "failed" \in Status
    BY <1>1 DEF LaunchInit, memory, Return, Kinds, Status
  <2> QED  BY <2>2, <2>3, WithinCall
<1>2. CASE Malloc
  <2>1. /\ pc = "malloc" /\ UNCHANGED <<args, out, queue, done, faulted, grad, due>>
        /\ \/ results' = results /\ pc' = "memset"
           \/ results' = Append(results, "failed")
        /\ "failed" \in Status
    BY <1>2 DEF Malloc, deviceVars, Return, Status
  <2> QED  BY <2>1, WithinCall
<1>3. ASSUME NEW kind \in StatusKinds, NEW at \in InCheck,
             NEW next \in InCheck, CheckStep(at, kind, next)
      PROVE  HostMoves
  <2>1. PICK ok \in BOOLEAN : Submit(kind, ok)
    BY <1>3 DEF CheckStep
  <2>2. queue' = queue \/ (Enqueue(kind) /\ ~faulted)
    BY <2>1 DEF Submit, Api
  <2>3. /\ pc = at /\ UNCHANGED <<args, results, out, done, faulted, grad, due>>
        /\ pc # "idle" /\ pc' \notin {"finish", "sync"} /\ kind \in Kinds /\ kind # "build"
    BY <1>3 DEF CheckStep, memory, InCheck, StatusKinds, Kinds
  <2> QED  BY <2>2, <2>3, WithinCall
<1>4. CASE AwaitStatus
  <2>1. /\ pc = "wait" /\ pc' = "free"
        /\ UNCHANGED <<args, results, out, queue, done, faulted, grad, due>>
    BY <1>4 DEF AwaitStatus, deviceVars, memory
  <2> QED  BY <2>1, WithinCall
<1>5. CASE FreeStatus
  <2>1. /\ pc = "free" /\ UNCHANGED <<args, out, queue, done, faulted, grad, due>>
        /\ \/ results' = results /\ pc' = "launch"
           \/ \E status \in Status : results' = Append(results, status) /\ status # "ok"
    BY <1>5 DEF FreeStatus, deviceVars, Return, Status
  <2> QED  BY <2>1, WithinCall
<1> QED
  BY <1>1, <1>2, <1>3, <1>4, <1>5 DEF Memset, LaunchValidate, CopyStatus, StatusKinds, InCheck

LEMMA LaunchWorkMoves ==
  ASSUME IInv, ShapeInv, LaunchWork
  PROVE  HostMoves
<1>1. pc = "launch" /\ UNCHANGED <<args, out, done, faulted, grad, due>>
  BY DEF LaunchWork, memory
<1>2. PICK n : n = Len(args) /\ args[n] \in ArgType /\ Current = args[n]
  <2>1. Len(args) \in DOMAIN args /\ args \in Seq(ArgType)
    BY <1>1, Latest, Shapes
  <2> QED  BY <2>1 DEF Current
<1>3. CASE Return("invalid") /\ queue' = queue
  BY <1>1, <1>2, <1>3, WithinCall DEF Return, Status
<1>4. CASE /\ ~(Current.entry = "full" /\ Current.beam > FastMaxBeam)
           /\ \E ok \in BOOLEAN : Submit(Work(Current), ok)
           /\ err' = lastError' /\ results' = results
  <2>1. PICK ok \in BOOLEAN : Submit(Work(Current), ok)
    BY <1>4
  <2>2. PICK kind \in Kinds : /\ kind = Work(Current)
                              /\ args[n].entry = "build" <=> kind = "build"
    BY <1>2 DEF Work, ArgType, Kinds, Decodes
  <2>3. /\ queue' = queue \/ (Enqueue(kind) /\ ~faulted)
        /\ ~err' => Enqueue(kind)
    BY <1>4, <2>1, <2>2 DEF Submit, Api
  <2>4. ~err' /\ args[n].entry = "build" => InFlight("build", n)'
    BY <1>2, <2>2, <2>3, InFlightEnqueued
  <2>5. args[n].entry = "full" => args[n].beam <= FastMaxBeam
    <3>1. args[n].beam \in Int /\ FastMaxBeam \in Int
      BY <1>2, SizesAssumption DEF ArgType
    <3> QED  BY <1>2, <1>4, <3>1
  <2> QED  BY <1>1, <1>2, <1>4, <2>2, <2>3, <2>4, <2>5, WithinCall
<1> QED  BY <1>3, <1>4 DEF LaunchWork

LEMMA ReturningMoves ==
  ASSUME IInv, ShapeInv, Finish \/ Synchronize
  PROVE  HostMoves
<1>1. /\ pc \in {"finish", "sync"} /\ UNCHANGED <<args, out, queue, done, faulted, grad, due>>
      /\ err' = err /\ (pc = "sync" => ~err)
  BY DEF Finish, Synchronize, deviceVars, memory, IInv, ErrorInv
<1>2. PICK n : n = Len(args) /\ n \notin DOMAIN results
  BY <1>1, Latest
<1>3. ~err => Accepted(n)
  BY <1>1, <1>2 DEF Accepted
<1>4. \/ results' = results /\ ~err
      \/ \E status \in Status : results' = Append(results, status) /\ (status = "ok" => ~err)
  BY <1>1 DEF Finish, Synchronize, Return, Status
<1> QED  BY <1>1, <1>2, <1>3, <1>4, WithinCall

LEMMA CheckGridMoves ==
  ASSUME IInv, ShapeInv, CheckGrid
  PROVE  HostMoves
<1>1. /\ pc = "grid" /\ UNCHANGED <<queue, done, faulted, out, grad, due>>
      /\ \/ results' = results /\ pc' \notin {"finish", "sync"}
         \/ \E status \in Status : results' = Append(results, status) /\ status # "ok"
  BY DEF CheckGrid, deviceVars, memory, Return, Status
<1>2. ArgsKept
  BY <1>1, CheckGridArgs DEF IInv, ShapeInv, StreamInv
<1>3. DOMAIN args' = DOMAIN args
  BY DEF CheckGrid
<1>4. PICK n : /\ n = Len(results) + 1 /\ n \notin DOMAIN results
               /\ \A c \in DOMAIN args : c = n \/ c \in DOMAIN results
  <2>1. /\ Len(args) = Len(results) + 1 /\ DOMAIN args = 1 .. Len(args)
        /\ DOMAIN results = 1 .. Len(results) /\ Len(results) \in Nat
    BY <1>1, Shapes
  <2> QED  BY <2>1
<1>5. /\ \A c \in DOMAIN results : c \in DOMAIN results' /\ results'[c] = results[c]
      /\ ~Accepted(n)'
  <2>1. CASE results' = results /\ pc' \notin {"finish", "sync"}
    BY <1>4, <2>1 DEF Accepted
  <2>2. ASSUME NEW status \in Status, results' = Append(results, status), status # "ok"
        PROVE  /\ \A c \in DOMAIN results : c \in DOMAIN results' /\ results'[c] = results[c]
               /\ ~Accepted(n)'
    <3>1. /\ DOMAIN results' = DOMAIN results \cup {n}
          /\ \A c \in DOMAIN results : results'[c] = results[c]
          /\ results'[n] = status
      BY <1>4, <2>2, ReturnKeeps DEF IInv
    <3> QED  BY <2>2, <3>1 DEF Accepted
  <2> QED  BY <1>1, <2>1, <2>2
<1>6. ASSUME NEW c \in DOMAIN args, Accepted(c)'  PROVE Accepted(c)
  BY <1>4, <1>5, <1>6 DEF Accepted
<1> QED  BY <1>1, <1>2, <1>3, <1>5, <1>6 DEF HostMoves

\* A gradient call reads a full decode, a scatter the entries of a gradient call.
LEMMA ArgumentsRead ==
  ASSUME NEW a \in Arguments
  PROVE  /\ a.entry = "build" =>
              \E d \in Usable("full") : a.from = d /\ a.meta = args[d].meta
         /\ a.entry = "scatter" /\ a.from # 0 =>
              \E d \in Usable("build") : a.from = d /\ a.meta = args[d].meta
         /\ a.entry = "full" => a \in Requests
<1>1. CASE a \in Requests
  <2>1. /\ a.entry \in Decodes \cup {"scatter"}
        /\ a = [entry |-> a.entry, beam |-> a.beam, meta |-> a.meta, from |-> 0, list |-> a.list]
    BY <1>1, RequestsAssumption DEF Call
  <2>2. a.from = 0
    BY <2>1
  <2> QED  BY <1>1, <2>1, <2>2 DEF Decodes
<1>2. ASSUME NEW d, NEW entry, a = Call(entry, args[d].beam, args[d].meta, d, <<>>)
      PROVE  a.entry = entry /\ a.from = d /\ a.meta = args[d].meta
  BY <1>2 DEF Call
<1>3. ASSUME NEW d \in Usable("full"), a = Call("build", args[d].beam, args[d].meta, d, <<>>)
      PROVE  a.entry = "build" /\ a.from = d /\ a.meta = args[d].meta
  BY <1>2, <1>3
<1>4. ASSUME NEW d \in Usable("build"), a = Call("scatter", args[d].beam, args[d].meta, d, <<>>)
      PROVE  a.entry = "scatter" /\ a.from = d /\ a.meta = args[d].meta
  BY <1>2, <1>4
<1> QED  BY <1>1, <1>3, <1>4 DEF Arguments

LEMMA BeginMoves ==
  ASSUME FullCountable, IInv, ShapeInv, NEW a \in Arguments, Begin(a)
  PROVE  HostMoves
<1>1. /\ pc = "idle" /\ pc' \notin {"finish", "sync"}
      /\ args' = Append(args, a) /\ out' = Append(out, Fresh(a))
      /\ UNCHANGED <<queue, done, faulted, grad, due>>
      /\ \/ results' = results
         \/ \E status \in Status : /\ results' = Append(results, status)
                                   /\ status = "ok" => a.entry = "scatter"
  BY DEF Begin, deviceVars, Return, Status
<1>2. ArgsKept
  BY BeginArgs DEF IInv, ShapeInv
<1>3. PICK n : /\ n = Len(results) + 1 /\ n \notin DOMAIN results
               /\ DOMAIN args = DOMAIN results /\ DOMAIN args' = DOMAIN args \cup {n}
               /\ args'[n] = a /\ \A c \in DOMAIN args : args'[c] = args[c]
  <2>1. /\ Len(args) = Len(results) /\ DOMAIN args = 1 .. Len(args)
        /\ DOMAIN results = 1 .. Len(results) /\ Len(results) \in Nat /\ args \in Seq(ArgType)
    <3>1. /\ DOMAIN args = 1 .. Len(args) /\ args \in Seq(ArgType)
          /\ DOMAIN results = 1 .. Len(results) /\ Len(results) \in Nat
          /\ Len(args) = Len(results) + (IF pc = "idle" THEN 0 ELSE 1)
      BY Shapes
    <3> QED  BY <1>1, <3>1
  <2>2. a \in ArgType
    BY ArgumentsType DEF IInv
  <2> PICK k \in Nat : k = Len(results)
    BY <2>1
  <2>3. /\ k + 1 = Len(results) + 1 /\ k + 1 \notin DOMAIN results
        /\ DOMAIN args = DOMAIN results
    BY <2>1
  <2>4. /\ DOMAIN args' = DOMAIN args \cup {k + 1}
        /\ args'[k + 1] = a /\ \A c \in DOMAIN args : args'[c] = args[c]
    BY <1>1, <2>1, <2>2
  <2> QED  BY <2>3, <2>4
<1>4. out'[n] = Fresh(a) /\ \A c \in DOMAIN args : out'[c] = out[c]
  <2>1. PICK S : out \in Seq(S)
    BY DEF ShapeInv, BufferInv
  <2>2. PICK R : R = S \cup {Fresh(a)}
    OBVIOUS
  <2>3. out \in Seq(R) /\ Fresh(a) \in R /\ Len(out) = Len(results) /\ DOMAIN args = DOMAIN out
    <3>1. Len(out) = Len(args) /\ Len(args) = Len(results) /\ DOMAIN args = 1 .. Len(args)
      BY <1>1, Shapes DEF ShapeInv, BufferInv
    <3> QED  BY <2>1, <2>2, <3>1
  <2> QED  BY <1>1, <1>3, <2>3
<1>5. /\ \A c \in DOMAIN results : c \in DOMAIN results' /\ results'[c] = results[c]
      /\ Accepted(n)' => a.entry = "scatter"
  <2>1. CASE results' = results
    BY <1>1, <1>3, <2>1 DEF Accepted
  <2>2. ASSUME NEW status \in Status, results' = Append(results, status),
               status = "ok" => a.entry = "scatter"
        PROVE  /\ \A c \in DOMAIN results : c \in DOMAIN results' /\ results'[c] = results[c]
               /\ Accepted(n)' => a.entry = "scatter"
    <3>1. /\ DOMAIN results' = DOMAIN results \cup {n}
          /\ \A c \in DOMAIN results : results'[c] = results[c]
          /\ results'[n] = status
      BY <1>3, <2>2, ReturnKeeps DEF IInv
    <3> QED  BY <2>2, <3>1 DEF Accepted
  <2> QED  BY <1>1, <2>1, <2>2
<1>6. ASSUME NEW c \in DOMAIN args, Accepted(c)'  PROVE Accepted(c)
  BY <1>3, <1>5, <1>6 DEF Accepted
<1>7. LinkOk(n)'
  <2>1. ASSUME NEW entry, NEW d \in Usable(entry), a.from = d, a.meta = args[d].meta
        PROVE  Reads(n, entry)'
    <3>1. d \in DOMAIN results /\ d \in DOMAIN args /\ results[d] = "ok" /\ args[d].entry = entry
      BY <1>3 DEF Usable
    <3> QED  BY <1>3, <1>5, <2>1, <3>1 DEF Reads
  <2>2. a.entry = "full" /\ a.beam <= FastMaxBeam => Countable(a)
    BY ArgumentsRead DEF FullCountable
  <2> QED  BY <1>3, <1>5, <2>1, <2>2, ArgumentsRead DEF LinkOk
<1>8. DOMAIN out'[n].draws = Example
  BY <1>4 DEF Fresh
<1> QED  BY <1>1, <1>2, <1>3, <1>4, <1>5, <1>6, <1>7, <1>8 DEF HostMoves

\* A fault, and the steps of others.
LEMMA QuietGrad ==
  ASSUME IInv, ShapeInv, GradInv, UNCHANGED <<args, results, pc, err, out, grad, due>>,
         UNCHANGED <<queue, done, faulted>> \/ (queue' = <<>> /\ done' = {} /\ faulted' = TRUE)
  PROVE  GradInv'
<1>1. CASE UNCHANGED <<queue, done, faulted>>
  <2>1. HostMoves
    BY <1>1 DEF HostMoves, ArgsKept, Accepted
  <2> QED  BY <2>1, HostGrad
<1>2. CASE queue' = <<>> /\ done' = {} /\ faulted' = TRUE
  <2>1. LinkInv'
    BY <1>2, EmptySeq DEF GradInv, LinkInv, LinkOk, Reads, Accepted
  <2>2. BuildInv'
    BY <1>2 DEF GradInv, BuildInv, BuildOk, Running
  <2>3. SumInv'
    BY <1>2 DEF GradInv, SumInv, GradIndex, GradCount
  <2> QED  BY <2>1, <2>2, <2>3 DEF GradInv
<1> QED  BY <1>1, <1>2

LEMMA InitGrad == Init => GradInv
<1> SUFFICES ASSUME Init PROVE GradInv
  OBVIOUS
<1>1. args = <<>> /\ queue = <<>> /\ done = {} /\ faulted = FALSE /\ due = grad
      /\ grad = [j \in GradIndex |-> 0]
  BY DEF Init, GradIndex
<1>2. LinkInv
  BY <1>1, EmptySeq DEF LinkInv
<1>3. BuildInv
  BY <1>1, EmptySeq DEF BuildInv, Running
<1>4. SumInv
  BY <1>1 DEF SumInv, Running
<1> QED  BY <1>2, <1>3, <1>4 DEF GradInv

-----------------------------------------------------------------------------
(***************************************************************************)
(* The device.                                                             *)
(***************************************************************************)

LEMMA DeviceLinks ==
  ASSUME IInv, ShapeInv, LinkInv, queue # <<>>, NEW p \in Parts(Head1) \ done, Advance(p),
         UNCHANGED <<args, results, pc, err, faulted>>
  PROVE  LinkInv'
<1>1. \A c \in DOMAIN args' : LinkOk(c)'
  BY DEF LinkInv, LinkOk, Reads, Accepted
<1>2. ~faulted'
  BY DEF LinkInv
<1>3. CASE queue' = queue
  BY <1>1, <1>2, <1>3 DEF LinkInv
<1>4. CASE \A k \in DOMAIN queue' : k + 1 \in DOMAIN queue /\ queue'[k] = queue[k + 1] /\ k \in Nat
  <2>1. \A i, k \in DOMAIN queue' : i <= k => i + 1 <= k + 1
    BY <1>4
  <2>2. \A i, k \in DOMAIN queue' : i <= k => queue'[i].call <= queue'[k].call
    BY <1>4, <2>1 DEF LinkInv
  <2> QED  BY <1>1, <1>2, <1>4, <2>2 DEF LinkInv
<1> QED
  <2>1. Len(queue) \in Nat
    BY Shapes
  <2> QED  BY <1>3, <1>4, <2>1, Advanced

\* The calls before that of the first operation have run.
LEMMA EarlierRun ==
  ASSUME IInv, ShapeInv, LinkInv, queue # <<>>, NEW d \in DOMAIN args, d < Head1.call, NEW kind
  PROVE  ~InFlight(kind, d)
<1>1. /\ \A k \in DOMAIN queue : queue[k].call \in DOMAIN args /\ 1 <= k
      /\ queue \in Seq(OpType) /\ DOMAIN queue = 1 .. Len(queue) /\ Len(queue) \in Nat
      /\ DOMAIN args \subseteq Nat
  <2>1. /\ \A k \in DOMAIN queue : queue[k].call \in DOMAIN args
        /\ queue \in Seq(OpType) /\ DOMAIN queue = 1 .. Len(queue) /\ Len(queue) \in Nat
        /\ DOMAIN args = 1 .. Len(args) /\ Len(args) \in Nat
    BY Shapes
  <2> QED  BY <2>1
<1>2. 1 \in DOMAIN queue /\ Head1 = queue[1]
  BY <1>1 DEF Head1
<1>3. \A k \in DOMAIN queue : Head1.call <= queue[k].call
  BY <1>1, <1>2 DEF LinkInv
<1>4. Head1.call \in Nat
  BY <1>1, <1>2
<1> QED  BY <1>1, <1>3, <1>4 DEF InFlight

\* Operations of other kinds leave the gradient calls' buffers alone.
LEMMA OtherBuilds ==
  ASSUME IInv, ShapeInv, BuildInv, queue # <<>>, NEW p \in Parts(Head1) \ done, Advance(p),
         UNCHANGED <<args, results, pc, err, faulted>>, Head1.kind # "build",
         \A c \in DOMAIN args : out'[c].entries = out[c].entries /\ out'[c].draws = out[c].draws
  PROVE  BuildInv'
<1>1. ASSUME NEW c \in DOMAIN args'  PROVE BuildOk(c)'
  <2>1. BuildOk(c) /\ out'[c].entries = out[c].entries /\ out'[c].draws = out[c].draws
    BY DEF BuildInv
  <2>2. InFlight("build", c) => InFlight("build", c)'
    BY InFlightAdvanced
  <2>3. (Accepted(c)' <=> Accepted(c)) /\ (\A x : EntryMade(c, x)' <=> EntryMade(c, x))
        /\ Cells(args'[c]) = Cells(args[c])
    BY <2>1 DEF Accepted, EntryMade
  <2> QED  BY <2>1, <2>2, <2>3 DEF BuildOk
<1>2. Running("build")' => done' = {}
  BY Advanced DEF Running, Head1
<1>3. done' = {} => \A c : Progress(c, done)'
  BY DEF Progress
<1> QED  BY <1>1, <1>2, <1>3 DEF BuildInv

\* Only scatters touch the gradient.
LEMMA OtherSums ==
  ASSUME IInv, ShapeInv, SumInv, queue # <<>>, NEW p \in Parts(Head1) \ done, Advance(p),
         UNCHANGED <<grad, due, faulted>>, Head1.kind # "scatter"
  PROVE  SumInv'
<1>1. ~Running("scatter")
  BY DEF Running
<1>2. ~(Running("scatter") /\ done # {})'
  BY Advanced DEF Running, Head1
<1>3. GradIndex' = GradIndex
  BY DEF GradIndex, GradCount
<1> QED  BY <1>1, <1>2, <1>3 DEF SumInv

\* A gradient call has the beam and the steps of the decode that it reads.
LEMMA ReadsUniform ==
  ASSUME IInv, ShapeInv, NEW c \in DOMAIN args, Reads(c, "full"), NEW d, d = args[c].from
  PROVE  /\ args[c] \in ArgType /\ args[d] \in ArgType /\ d \in DOMAIN args /\ d < c
         /\ args[c].beam = args[d].beam /\ args[c].beam \in 1 .. MaxBeam /\ args[c].beam \in Nat
         /\ args[c].meta = Uniform(args[c].beam)
<1>1. /\ d \in DOMAIN results /\ results[d] = "ok" /\ args[d].entry = "full"
      /\ args[c].meta = args[d].meta
  BY DEF Reads
<1>2. /\ d \in DOMAIN args /\ d \in Nat /\ c \in Nat /\ d # 0
      /\ args[c] \in ArgType /\ args[d] \in ArgType
  <2>1. /\ DOMAIN results = 1 .. Len(results) /\ Len(results) \in Nat
        /\ DOMAIN args = 1 .. Len(args) /\ Len(args) \in Nat /\ args \in Seq(ArgType)
        /\ Len(args) = Len(results) + (IF pc = "idle" THEN 0 ELSE 1)
    BY Shapes
  <2>2. DOMAIN results \subseteq DOMAIN args
    BY <2>1
  <2> QED  BY <1>1, <2>1, <2>2
<1>3. /\ d \in 0 .. c - 1 /\ args[c].beam = args[d].beam
      /\ args[d].meta = Uniform(args[d].beam) /\ ~Refused(args[d])
  <2>1. Going(d)
    BY <1>1 DEF Going
  <2>2. "full" \in Decodes \ {"variable"}
    BY DEF Decodes
  <2> QED  BY <1>1, <1>2, <2>1, <2>2 DEF ShapeInv, ArgInv
<1>4. args[d].beam \in 1 .. MaxBeam
  BY <1>1, <1>3 DEF Refused
<1>5. args[d].beam \in Nat
  BY <1>4, SizesAssumption
<1> QED  BY <1>1, <1>2, <1>3, <1>4, <1>5

\* By the time the gradient kernel runs, each slot of the trace it reads has
\* been decoded.
LEMMA TraceRead ==
  ASSUME IInv, ShapeInv, OutInv, LinkInv, Running("build"), NEW h, h = Head1.call,
         NEW d, d = args[h].from
  PROVE  /\ h \in DOMAIN args /\ args[h].entry = "build" /\ Reads(h, "full")
         /\ \A x \in Cells(args[h]) : out[d].traces[TokenSlot(args[h], x)] = x
<1>1. queue # <<>> /\ h \in DOMAIN args /\ Head1 = queue[1] /\ 1 \in DOMAIN queue
  BY HeadCall DEF Running, Head1, IInv, TypeInv, ShapeInv
<1>2. args[h].entry = "build" /\ Reads(h, "full") /\ ~faulted
  BY <1>1 DEF LinkInv, LinkOk, Running
<1>3. /\ d \in DOMAIN args /\ d < h /\ args[d] \in ArgType /\ args[h].beam = args[d].beam
      /\ args[d].meta = Uniform(args[d].beam) /\ args[h].beam \in Nat
      /\ d \in DOMAIN results /\ results[d] = "ok" /\ args[d].entry = "full"
  BY <1>1, <1>2, ReadsUniform DEF Reads
<1>4. ~InFlight("decode", d)
  BY <1>1, <1>3, EarlierRun
<1>5. Accepted(d)
  BY <1>3 DEF Accepted
<1>6. out[d].traces = out[d].tokens /\ Holds(d, Example)
  <2>1. CallOk(d) /\ "full" \in Decodes
    BY <1>3 DEF OutInv, CallInv, Decodes
  <2> QED  BY <1>2, <1>3, <1>4, <1>5, <2>1 DEF CallOk
<1>7. Countable(args[d])
  BY <1>3, <1>5 DEF LinkInv, LinkOk
<1>8. ASSUME NEW x \in Cells(args[h])  PROVE out[d].traces[TokenSlot(args[h], x)] = x
  <2>1. x \in Cells(args[d]) /\ TokenSlot(args[h], x) = TokenSlot(args[d], x)
    BY <1>3 DEF Cells, TokenSlot
  <2>2. x[1] \in Example /\ x \in TokenSlots(args[d], x[1])
    BY <1>3, <2>1, UniformSlots DEF Cells
  <2> QED  BY <1>6, <1>7, <2>1, <2>2 DEF Holds, Held, TokensHeld, Settled
<1> QED  BY <1>1, <1>2, <1>8

\* Every cell has its lane.
LEMMA LaneInRange ==
  ASSUME NEW a, a.beam \in Nat, NEW x \in Cells(a)
  PROVE  \E l \in 0 .. Threads - 1 : LaneOf(a, x) = <<x[1], l>> /\ x[1] \in Example
<1>1. PICK i, j, k \in Int : /\ x = <<i, j, k>> /\ i \in Example /\ j \in 0 .. Steps - 1
                             /\ k \in 0 .. a.beam - 1
  BY DEF Cells, Example
<1>2. PICK K \in Nat : K = a.beam
  OBVIOUS
<1>3. j \in Nat /\ k \in Nat
  BY <1>1, <1>2, SizesNat
<1>4. j * K \in Nat
  BY <1>3
<1>5. j * K + k \in Nat
  BY <1>3, <1>4
<1>6. (j * K + k) % Threads \in 0 .. Threads - 1
  BY <1>5, SizesNat
<1> QED  BY <1>1, <1>2, <1>6 DEF LaneOf

\* A part of the gradient kernel, whichever it is.
LEMMA BuildPart ==
  ASSUME IInv, ShapeInv, BuildInv, Running("build"), NEW p \in Parts(Head1) \ done, Advance(p),
         UNCHANGED <<args, results, pc, err, faulted>>, NEW h, h = Head1.call,
         \A c \in DOMAIN args \ {h} : out'[c] = out[c], DOMAIN out'[h].draws = Example,
         NEW S, S = done \cup {p}, Progress(h, S)', args[h].beam \in Nat
  PROVE  BuildInv'
<1>1. queue # <<>> /\ Head1.kind = "build" /\ h \in DOMAIN args
  BY Advanced DEF Running
<1>2. ASSUME NEW c \in DOMAIN args \ {h}  PROVE BuildOk(c)'
  <2>1. BuildOk(c) /\ out'[c] = out[c]
    BY DEF BuildInv
  <2>2. InFlight("build", c) => InFlight("build", c)'
    BY <1>1, InFlightAdvanced
  <2>3. (Accepted(c)' <=> Accepted(c)) /\ (\A x : EntryMade(c, x)' <=> EntryMade(c, x))
        /\ Cells(args'[c]) = Cells(args[c])
    BY <2>1 DEF Accepted, EntryMade
  <2> QED  BY <2>1, <2>2, <2>3 DEF BuildOk
<1>3. CASE queue' = queue /\ done' = S
  <2>1. InFlight("build", h)'
    BY <1>1, <1>3, Advanced DEF InFlight
  <2>2. Progress(Head1.call, done)'
    BY <1>3 DEF Head1
  <2> QED  BY <1>2, <2>1, <2>2 DEF BuildInv, BuildOk
<1>4. CASE done' = {} /\ S = Parts(Head1)
  <2>1. ASSUME NEW x \in Cells(args'[h])  PROVE EntryMade(h, x)'
    <3>1. S = Example \X (-1 .. Threads - 1)
      BY <1>1, <1>4 DEF Parts
    <3>2. LaneOf(args'[h], x) \in S
      BY <3>1, LaneInRange, SizesAssumption
    <3> QED  BY <3>2 DEF Progress
  <2>2. BuildOk(h)'
    BY <2>1 DEF BuildOk
  <2>3. Progress(Head1.call, done)'
    BY <1>4 DEF Progress
  <2> QED  BY <1>2, <2>2, <2>3 DEF BuildInv
<1> QED  BY <1>1, <1>3, <1>4, Advanced

\* Lane 0 draws, then each lane makes its entries from the trace and the draws.
LEMMA DrawsPart ==
  ASSUME IInv, ShapeInv, OutInv, LinkInv, BuildInv, NEW b \in Example, RunDraws(b)
  PROVE  BuildInv'
<1>1. /\ Running("build") /\ <<b, -1>> \in Parts(Head1) \ done /\ Advance(<<b, -1>>)
      /\ UNCHANGED <<args, results, pc, err, faulted>>
  BY DEF RunDraws, hostVars
<1>2. PICK h : h = Head1.call
  OBVIOUS
<1>3. PICK S : S = done \cup {<<b, -1>>}
  OBVIOUS
<1>4. h \in DOMAIN args /\ args[h].beam \in Nat
  BY <1>1, <1>2, TraceRead, ReadsUniform
<1>5. /\ out'[h].entries = out[h].entries /\ out'[h].draws = [out[h].draws EXCEPT ![b] = Draw[b]]
      /\ \A c \in DOMAIN args \ {h} : out'[c] = out[c]
  BY <1>2, DrawsWrites DEF Written, IInv, ShapeInv
<1>6. DOMAIN out[h].draws = Example /\ Progress(h, done)
  BY <1>1, <1>2, <1>4 DEF BuildInv, BuildOk
<1>7. DOMAIN out'[h].draws = Example /\ out'[h].draws[b] = Draw[b]
      /\ \A i \in Example \ {b} : out'[h].draws[i] = out[h].draws[i]
  BY <1>5, <1>6
<1>8. ASSUME NEW i \in Example, <<i, -1>> \in S  PROVE out'[h].draws[i] = Draw[i]
  BY <1>3, <1>6, <1>7, <1>8 DEF Progress
<1>9. ASSUME NEW x \in Cells(args[h]), LaneOf(args[h], x) \in S  PROVE EntryMade(h, x)'
  <2>1. LaneOf(args[h], x) # <<b, -1>>
    BY <1>4, LaneInRange
  <2>2. EntryMade(h, x)
    BY <1>3, <1>6, <1>9, <2>1 DEF Progress
  <2> QED  BY <1>1, <1>5, <2>2 DEF EntryMade
<1>10. Progress(h, S)'
  BY <1>1, <1>8, <1>9 DEF Progress
<1> QED  BY <1>1, <1>2, <1>3, <1>4, <1>5, <1>7, <1>10, BuildPart

LEMMA LanePart ==
  ASSUME IInv, ShapeInv, OutInv, LinkInv, BuildInv, NEW b \in Example,
         NEW l \in 0 .. Threads - 1, RunBuild(b, l)
  PROVE  BuildInv'
<1>1. /\ Running("build") /\ <<b, l>> \in Parts(Head1) \ done /\ Advance(<<b, l>>)
      /\ <<b, -1>> \in done
      /\ UNCHANGED <<args, results, pc, err, faulted>>
  BY DEF RunBuild, PastBarrier, hostVars
<1>2. PICK h : h = Head1.call
  OBVIOUS
<1>3. PICK S : S = done \cup {<<b, l>>}
  OBVIOUS
<1>4. PICK a : a = args[h]
  OBVIOUS
<1>5. /\ h \in DOMAIN args /\ a.beam \in Nat /\ a.meta = Uniform(a.beam)
      /\ \A x \in Cells(a) : out[a.from].traces[TokenSlot(a, x)] = x
  BY <1>1, <1>2, <1>4, TraceRead, ReadsUniform
<1>6. /\ out'[h].entries = Built(h, b, l) /\ out'[h].draws = out[h].draws
      /\ \A c \in DOMAIN args \ {h} : out'[c] = out[c]
  BY <1>2, BuildWrites DEF Written, IInv, ShapeInv
<1>7. DOMAIN out[h].draws = Example /\ Progress(h, done)
  BY <1>1, <1>2, <1>5 DEF BuildInv, BuildOk
<1>8. ASSUME NEW i \in Example, <<i, -1>> \in S  PROVE out'[h].draws[i] = Draw[i]
  BY <1>3, <1>6, <1>7, <1>8 DEF Progress
<1> DEFINE mine == {x \in TokenSlots(a, b) : (x[2] * a.beam + x[3]) % Threads = l}
           Entry(x) == EntryOf(a, x, out[a.from].traces[TokenSlot(a, x)], out[h].draws[b][x[3]])
<1>9. mine = {x \in Cells(a) : LaneOf(a, x) = <<b, l>>}
  <2>1. TokenSlots(a, b) = {x \in Cells(a) : x[1] = b}
    BY <1>5, UniformSlots DEF Cells
  <2> QED  BY <2>1 DEF LaneOf
<1>10. \A i \in DOMAIN out[h].entries :
         Built(h, b, l)[i] = IF \E x \in mine : TokenSlot(a, x) = i
                             THEN Entry(CHOOSE x \in mine : TokenSlot(a, x) = i)
                             ELSE out[h].entries[i]
  BY <1>4, Zenon DEF Built
<1>11. ASSUME NEW x \in Cells(a), LaneOf(a, x) \in S  PROVE EntryMade(h, x)'
  <2>1. PICK i \in DOMAIN out[h].entries : i = TokenSlot(a, x)
    <3>1. DOMAIN out[h].entries = 0 .. TokenCount(a) - 1
      BY <1>4, <1>5, BufferFields DEF ShapeInv, BufferInv
    <3> QED  BY <1>5, <3>1, TokenSlotInRange
  <2>2. \A y \in Cells(a) : TokenSlot(a, y) = i => y = x
    BY <1>5, <2>1, TokenSlotUnique
  <2>3. out'[h].entries[i] = EntryOf(a, x, x, Draw[x[1]][x[3]])
    <3>1. CASE x \in mine
      <4>1. (CHOOSE y \in mine : TokenSlot(a, y) = i) = x
        BY <1>9, <2>1, <2>2, <3>1
      <4>2. Built(h, b, l)[i] = Entry(x)
        BY <1>10, <2>1, <3>1, <4>1
      <4>3. x[1] = b /\ out[h].draws[b] = Draw[b]
        <5>1. x[1] = b
          BY <1>9, <3>1 DEF LaneOf
        <5> QED  BY <1>1, <1>7, <5>1 DEF Progress
      <4> QED  BY <1>5, <1>6, <4>2, <4>3
    <3>2. CASE x \notin mine
      <4>1. ~ \E y \in mine : TokenSlot(a, y) = i
        BY <1>9, <2>2, <3>2
      <4>2. LaneOf(a, x) \in done
        BY <1>3, <1>9, <1>11, <3>2
      <4>3. EntryMade(h, x)
        BY <1>4, <1>7, <4>2 DEF Progress
      <4> QED  BY <1>4, <1>6, <1>10, <2>1, <4>1, <4>3 DEF EntryMade
    <3> QED  BY <3>1, <3>2
  <2> QED  BY <1>1, <1>4, <2>1, <2>3 DEF EntryMade
<1>12. Progress(h, S)'
  BY <1>1, <1>4, <1>8, <1>11 DEF Progress
<1> QED  BY <1>1, <1>2, <1>3, <1>4, <1>5, <1>6, <1>7, <1>12, BuildPart

-----------------------------------------------------------------------------
(***************************************************************************)
(* What a scatter owes the gradient is what its entries add up to.  Every  *)
(* slot of a dense array belongs to a cell, so that the entries of a       *)
(* gradient call are those of its cells.                                   *)
(***************************************************************************)

\* Every number below m * n is the place of a row below m and a column below n.
Onto(m, n) == \A p \in 0 .. m * n - 1 :
                \E i \in 0 .. m - 1, k \in 0 .. n - 1 : i * n + k = p

LEMMA PlaceOnto ==
  ASSUME NEW m \in Nat, NEW n \in Nat \ {0}
  PROVE  Onto(m, n)
<1> SUFFICES ASSUME NEW p \in 0 .. m * n - 1
             PROVE  \E i \in 0 .. m - 1, k \in 0 .. n - 1 : i * n + k = p
  BY DEF Onto
<1>1. PICK i \in Nat : i = p \div n
  OBVIOUS
<1>2. PICK k \in 0 .. n - 1 : k = p % n
  OBVIOUS
<1>3. p = i * n + k
  BY <1>1, <1>2
<1>4. i \in 0 .. m - 1
  <2>1. SUFFICES ASSUME i >= m PROVE FALSE
    BY <1>1
  <2>2. PICK d \in Nat : i = m + d
    <3>1. i - m \in Nat /\ i = m + (i - m)
      BY <2>1
    <3> QED  BY <3>1
  <2>3. i * n = m * n + d * n /\ d * n \in Nat /\ m * n \in Nat
    BY <2>2
  <2>4. PICK u, v \in Nat : u = m * n /\ v = d * n
    BY <2>3
  <2>5. p = u + v + k /\ p < u /\ k \in Nat /\ p \in Nat
    BY <1>3, <2>3, <2>4
  <2> QED  BY <2>4, <2>5
<1> USE <1>4
<1> WITNESS i \in 0 .. m - 1, k \in 0 .. n - 1
<1> QED  BY <1>3

LEMMA TokenSlotOnto ==
  ASSUME NEW a, a.beam \in Nat \ {0}, NEW n \in 0 .. TokenCount(a) - 1
  PROVE  \E x \in Cells(a) : TokenSlot(a, x) = n
<1>1. PICK K \in Nat \ {0} : K = a.beam
  OBVIOUS
<1>2. PICK M \in Nat : M = Batch * Steps
  BY SizesNat
<1>3. PICK m \in 0 .. M - 1, k \in 0 .. K - 1 : m * K + k = n
  <2>1. n \in 0 .. M * K - 1
    BY <1>1, <1>2 DEF TokenCount
  <2>2. \E m \in 0 .. M - 1, k \in 0 .. K - 1 : m * K + k = n
    <3>1. Onto(M, K)
      BY PlaceOnto
    <3> QED  BY <2>1, <3>1 DEF Onto
  <2> QED  BY <2>2
<1>4. PICK i \in 0 .. Batch - 1, j \in 0 .. Steps - 1 : i * Steps + j = m
  <2>1. PICK B \in Nat : B = Batch
    BY SizesNat
  <2>2. PICK T \in Nat \ {0} : T = Steps
    BY SizesNat
  <2>3. m \in 0 .. B * T - 1
    BY <1>2, <1>3, <2>1, <2>2
  <2>4. \E i \in 0 .. B - 1, j \in 0 .. T - 1 : i * T + j = m
    <3>1. Onto(B, T)
      BY PlaceOnto
    <3> QED  BY <2>3, <3>1 DEF Onto
  <2> QED  BY <2>1, <2>2, <2>4
<1>5. <<i, j, k>> \in Cells(a)
  BY <1>1 DEF Cells, Example
<1>6. TokenSlot(a, <<i, j, k>>) = n
  BY <1>1, <1>3, <1>4 DEF TokenSlot
<1> QED  BY <1>5, <1>6

LEMMA CellsFinite ==
  ASSUME NEW a, a.beam \in Nat
  PROVE  IsFiniteSet(Cells(a))
<1> DEFINE slot == [x \in Cells(a) |-> TokenSlot(a, x)]
<1>1. TokenCount(a) - 1 \in Int
  BY SizesNat DEF TokenCount
<1>2. IsFiniteSet(0 .. TokenCount(a) - 1)
  BY <1>1, FS_Interval
<1>3. slot \in Injection(Cells(a), 0 .. TokenCount(a) - 1)
  BY TokenSlotInRange, TokenSlotUnique DEF Injection, IsInjective
<1> QED  BY <1>2, <1>3, FS_Injection

\* The place of an entry in the gradient is that of the token it chose.
LEMMA RowMajorEntries ==
  ASSUME NEW a, a.beam \in Nat, NEW x \in Cells(a), NEW p \in Int, NEW t \in Int
  PROVE  RowMajor(<<Batch, Steps, a.beam, Vocab>>, <<x[1], x[2], p, t>>)
           = ((x[1] * Steps + x[2]) * a.beam + p) * Vocab + t
<1>1. PICK i, j \in Int : i = x[1] /\ j = x[2]
  BY DEF Cells, Example
<1>2. PICK K \in Nat : K = a.beam
  OBVIOUS
<1>3. PICK B, T, V \in Nat : B = Batch /\ T = Steps /\ V = Vocab
  BY SizesAssumption
<1>4. PICK sizes : sizes = <<B, T, K, V>>
  OBVIOUS
<1>5. PICK z : z = <<i, j, p, t>>
  OBVIOUS
<1> DEFINE At(f) == [n \in 0 .. Len(sizes) |->
                       IF n = 0 THEN 0 ELSE f[n - 1] * sizes[n] + z[n]]
           f0 == [n \in 0 .. 4 |-> IF n = 0 THEN 0 ELSE IF n = 1 THEN i
                                   ELSE IF n = 2 THEN i * T + j
                                   ELSE IF n = 3 THEN (i * T + j) * K + p
                                   ELSE ((i * T + j) * K + p) * V + t]
<1>6. /\ Len(sizes) = 4 /\ sizes[1] = B /\ sizes[2] = T /\ sizes[3] = K /\ sizes[4] = V
      /\ z[1] = i /\ z[2] = j /\ z[3] = p /\ z[4] = t
  BY <1>4, <1>5
<1>7. f0 = At(f0)
  <2>1. 0 * B + i = i
    OBVIOUS
  <2> QED  BY <1>6, <2>1
<1>8. PICK f : f = (CHOOSE g : g = At(g))
  OBVIOUS
<1>9. f = At(f)
  BY <1>7, <1>8
<1>10. /\ f[0] = 0 /\ f[1] = f[0] * B + i /\ f[2] = f[1] * T + j
       /\ f[3] = f[2] * K + p /\ f[4] = f[3] * V + t
  BY <1>6, <1>9
<1>11. f[4] = ((i * T + j) * K + p) * V + t
  BY <1>10
<1>12. RowMajor(sizes, z) = f[4]
  BY <1>6, <1>8 DEF RowMajor
<1> QED  BY <1>1, <1>2, <1>3, <1>4, <1>5, <1>11, <1>12

\* The slots of a decode at which a token was chosen, where each belongs in
\* the gradient, and its draw.
Selected(a) ==
  {x \in UNION {TokenSlots(a, b) : b \in Example} :
     /\ Decoded[x].parent >= 0 /\ Decoded[x].token >= 0
     /\ Decoded[x].fromLogprob = 1}

Source(a, x) ==
  RowMajor(<<Batch, Steps, a.beam, Vocab>>, <<x[1], x[2], Decoded[x].parent, Decoded[x].token>>)

Chosen(a, j) == {x \in Selected(a) : Source(a, x) = j}

DrawOf(a) == [x \in Selected(a) |-> Draw[x[1]][x[3]]]

LEMMA TracedIs ==
  ASSUME NEW c, NEW j \in DOMAIN due
  PROVE  LET a == args[args[args[c].from].from]
         IN  Traced(c)[j] = Total(DrawOf(a), Chosen(a, j))
BY Zenon DEF Traced, Total, DrawOf, Chosen, Selected, Source

\* What is known of a cell and of its entry.
LEMMA CellEntry ==
  ASSUME NEW a, a.beam \in 1 .. MaxBeam, a.meta = Uniform(a.beam), NEW x \in Cells(a),
         NEW j \in Nat, NEW draw, draw = Draw[x[1]][x[3]], NEW entry, entry = EntryOf(a, x, x, draw)
  PROVE  /\ draw \in Int /\ entry.value \in Int
         /\ IF x \in Selected(a) THEN entry.index = Source(a, x) /\ entry.value = draw
            ELSE entry.index # j
<1>1. a.beam \in Nat /\ a.beam <= MaxBeam
  BY SizesAssumption
<1>2. x \in Example \X (0 .. Steps - 1) \X (0 .. MaxBeam - 1)
  BY <1>1, SizesAssumption DEF Cells
<1>3. /\ Decoded[x].parent \in Int /\ Decoded[x].token \in Int /\ Decoded[x].fromLogprob \in {0, 1}
      /\ draw \in Int
  BY <1>2, DataAssumption
<1>4. x \in TokenSlots(a, x[1]) /\ x[1] \in Example
  BY UniformSlots DEF Cells
<1>5. x \in Selected(a) <=>
        ~(Decoded[x].parent < 0 \/ Decoded[x].token < 0 \/ Decoded[x].fromLogprob = 0)
  BY <1>3, <1>4 DEF Selected
<1>6. CASE x \in Selected(a)
  <2>1. entry = [index |-> EntryIndex(a, x, x), value |-> draw]
    BY <1>5, <1>6 DEF EntryOf
  <2>2. EntryIndex(a, x, x) = Source(a, x)
    BY <1>1, <1>3, RowMajorEntries DEF EntryIndex, Source
  <2> QED  BY <1>3, <1>6, <2>1, <2>2
<1>7. CASE x \notin Selected(a)
  <2>1. entry = NoEntry
    BY <1>5, <1>7 DEF EntryOf
  <2> QED  BY <1>3, <1>7, <2>1 DEF NoEntry
<1> QED  BY <1>6, <1>7

\* What the entries e of S amount to at j, term by term.
Term(e, j) == [i \in DOMAIN e |-> IF e[i].index = j THEN e[i].value ELSE 0]

LEMMA AmountIs == \A e, j, S : Amount(e, j, S) = Total(Term(e, j), S)
  BY DEF Amount, Term

\* The entries of all cells amount to the draws of the tokens chosen there.
LEMMA EntriesOfCells ==
  ASSUME NEW a, a.beam \in 1 .. MaxBeam, a.meta = Uniform(a.beam), NEW e,
         DOMAIN e = 0 .. TokenCount(a) - 1, NEW j \in Nat,
         \A x \in Cells(a) : e[TokenSlot(a, x)] = EntryOf(a, x, x, Draw[x[1]][x[3]])
  PROVE  /\ \A i \in DOMAIN e : e[i].value \in Int
         /\ Amount(e, j, DOMAIN e) = Total(DrawOf(a), Chosen(a, j))
<1>1. a.beam \in Nat \ {0}
  BY SizesAssumption
<1>2. IsFiniteSet(Cells(a))
  BY <1>1, CellsFinite
<1> DEFINE slot == [x \in Cells(a) |-> TokenSlot(a, x)]
           chosen == Chosen(a, j)
           term == [x \in Cells(a) |-> IF x \in chosen THEN DrawOf(a)[x] ELSE 0]
<1>3. chosen \subseteq Cells(a)
  <2>1. \A b \in Example : TokenSlots(a, b) \subseteq Cells(a)
    BY UniformSlots DEF Cells
  <2> QED  BY <2>1 DEF Selected, Chosen
<1>4. ASSUME NEW x \in Cells(a)
      PROVE  /\ slot[x] \in DOMAIN e /\ e[slot[x]].value \in Int /\ term[x] \in Int
             /\ term[x] = Term(e, j)[slot[x]]
             /\ x \in chosen => DrawOf(a)[x] \in Int
  <2>1. slot[x] = TokenSlot(a, x) /\ TokenSlot(a, x) \in DOMAIN e
    BY <1>1, TokenSlotInRange
  <2>2. PICK draw : draw = Draw[x[1]][x[3]]
    OBVIOUS
  <2>3. PICK entry : entry = e[slot[x]] /\ entry = EntryOf(a, x, x, draw)
    BY <2>1, <2>2
  <2>4. /\ draw \in Int /\ entry.value \in Int
        /\ IF x \in Selected(a) THEN entry.index = Source(a, x) /\ entry.value = draw
           ELSE entry.index # j
    BY <2>2, <2>3, CellEntry
  <2>5. Term(e, j)[slot[x]] = IF entry.index = j THEN entry.value ELSE 0
    BY <2>1, <2>3 DEF Term
  <2>6. x \in Selected(a) => DrawOf(a)[x] = draw
    BY <2>2 DEF DrawOf
  <2> QED  BY <2>1, <2>3, <2>4, <2>5, <2>6 DEF Chosen
<1>5. Total(term, Cells(a)) = Total(DrawOf(a), chosen)
  <2>1. \A x \in Cells(a) : term[x] = IF x \in chosen THEN DrawOf(a)[x] ELSE 0
    OBVIOUS
  <2>2. \A x \in chosen : DrawOf(a)[x] \in Int
    BY <1>3, <1>4
  <2> HIDE DEF term, chosen
  <2> QED  BY <1>2, <1>3, <2>1, <2>2, TotalSelected
<1>6. \A n \in DOMAIN e : \E x \in Cells(a) : n = slot[x]
  BY <1>1, TokenSlotOnto
<1>7. Total(term, Cells(a)) = Total(Term(e, j), DOMAIN e)
  <2>1. \A x, y \in Cells(a) : slot[x] = slot[y] => x = y
    BY <1>1, TokenSlotUnique
  <2>2. Renames(slot, Cells(a), DOMAIN e, term, Term(e, j))
    <3> HIDE DEF slot, term
    <3> QED  BY <1>4, <1>6, <2>1 DEF Renames
  <2> HIDE DEF slot, term
  <2> QED  BY <1>2, <2>2, TotalRenamed
<1>8. \A i \in DOMAIN e : e[i].value \in Int
  <2> HIDE DEF slot
  <2> QED  BY <1>4, <1>6
<1> HIDE DEF chosen
<1> QED  BY <1>5, <1>7, <1>8, AmountIs DEF chosen

\* The values of a list, and the positions at which it has an index.
Values(list) == [i \in DOMAIN list |-> list[i].value]
Listing(list, j) == {i \in DOMAIN list : list[i].index = j}

LEMMA ListedIs ==
  ASSUME NEW c, NEW j \in DOMAIN due
  PROVE  Listed(c)[j] = Total(Values(args[c].list), Listing(args[c].list, j))
BY Zenon DEF Listed, Total, Values, Listing

LEMMA ListValues ==
  ASSUME NEW list \in Seq([index : Int, value : Int])
  PROVE  \A i \in DOMAIN list : list[i].value \in Int
<1>1. PICK R : R = [index : Int, value : Int]
  OBVIOUS
<1>2. PICK n \in Nat : n = Len(list) /\ DOMAIN list = 1 .. n
  OBVIOUS
<1>3. \A i \in 1 .. n : list[i] \in R
  <2>1. list \in Seq(R)
    BY <1>1
  <2> QED  BY <1>2, <2>1
<1> QED  BY <1>1, <1>2, <1>3

\* The entries of a list amount to what is listed.
LEMMA EntriesOfList ==
  ASSUME NEW c, args[c].from = 0, args[c].list \in Seq([index : Int, value : Int]),
         NEW j \in DOMAIN due
  PROVE  Amount(Entries(c), j, DOMAIN Entries(c)) = Listed(c)[j]
<1> PICK list : list = args[c].list /\ list \in Seq([index : Int, value : Int])
  OBVIOUS
<1> PICK e : e = Entries(c) /\ e = [i \in 0 .. Len(list) - 1 |-> list[i + 1]]
  BY DEF Entries
<1>1. PICK n \in Nat : n = Len(list) /\ DOMAIN list = 1 .. n /\ DOMAIN e = 0 .. n - 1
  OBVIOUS
<1>2. \A i \in 1 .. n : list[i].value \in Int
  BY <1>1, ListValues
<1>3. \A i \in DOMAIN e : i + 1 \in 1 .. n /\ e[i] = list[i + 1]
  BY <1>1
<1> DEFINE value == [i \in 1 .. n |-> list[i].value]
           chosen == {i \in 1 .. n : list[i].index = j}
           term == [i \in 1 .. n |-> IF i \in chosen THEN value[i] ELSE 0]
           place == [i \in 1 .. n |-> i - 1]
<1>4. Listed(c)[j] = Total(value, chosen)
  <2>1. Listed(c)[j] = Total(Values(list), Listing(list, j))
    BY ListedIs
  <2>2. Values(list) = value /\ Listing(list, j) = chosen
    BY <1>1 DEF Values, Listing
  <2> QED  BY <2>1, <2>2
<1>5. IsFiniteSet(1 .. n)
  BY FS_Interval
<1>6. \A i \in 1 .. n : value[i] \in Int /\ term[i] \in Int
  BY <1>2
<1>7. Total(term, 1 .. n) = Total(value, chosen)
  <2>1. /\ chosen \subseteq 1 .. n
        /\ \A i \in 1 .. n : term[i] = IF i \in chosen THEN value[i] ELSE 0
    OBVIOUS
  <2>2. PICK D : D = 1 .. n
    OBVIOUS
  <2>3. /\ IsFiniteSet(D) /\ chosen \in SUBSET D /\ \A i \in chosen : value[i] \in Int
        /\ \A i \in D : term[i] = IF i \in chosen THEN value[i] ELSE 0
    BY <1>5, <1>6, <2>1, <2>2
  <2> HIDE DEF term, chosen, value
  <2>4. Total(term, D) = Total(value, chosen)
    BY <2>3, TotalSelected
  <2> QED  BY <2>2, <2>4
<1>8. Total(term, 1 .. n) = Total(Term(e, j), DOMAIN e)
  <2>1. \A i, k \in 1 .. n : place[i] = place[k] => i = k
    OBVIOUS
  <2>2. ASSUME NEW i \in 1 .. n
        PROVE  place[i] \in DOMAIN e /\ term[i] = Term(e, j)[place[i]]
    <3>1. place[i] = i - 1 /\ i - 1 \in DOMAIN e /\ e[i - 1] = list[i]
      BY <1>1, <1>3
    <3> QED  BY <3>1 DEF Term
  <2>3. ASSUME NEW k \in DOMAIN e  PROVE \E i \in 1 .. n : k = place[i]
    <3>1. k + 1 \in 1 .. n /\ place[k + 1] = k
      BY <1>1
    <3> QED  BY <3>1
  <2>4. Renames(place, 1 .. n, DOMAIN e, term, Term(e, j))
    <3> HIDE DEF place, term
    <3> QED  BY <1>6, <2>1, <2>2, <2>3 DEF Renames
  <2> HIDE DEF place, term
  <2> QED  BY <1>5, <2>4, TotalRenamed
<1> HIDE DEF chosen, value
<1> QED  BY <1>4, <1>7, <1>8, AmountIs

\* When the first scatter part runs, its entries are all there, and they are
\* what the call owes the gradient.
LEMMA ScatterOwes ==
  ASSUME IInv, ShapeInv, LinkInv, BuildInv, SumInv, Running("scatter"), NEW h, h = Head1.call,
         NEW e, e = Entries(h)
  PROVE  /\ h \in DOMAIN args /\ IsFiniteSet(DOMAIN e) /\ Parts(Head1) = DOMAIN e
         /\ \A i \in DOMAIN e : e[i].value \in Int
         /\ DOMAIN Owed(h) = GradIndex
         /\ \A j \in GradIndex : Owed(h)[j] = due[j] + Amount(e, j, DOMAIN e)
<1>1. /\ queue # <<>> /\ h \in DOMAIN args /\ args[h].entry = "scatter" /\ args[h] \in ArgType
      /\ Parts(Head1) = DOMAIN e
  <2>1. Head1 \in OpType /\ h \in DOMAIN args /\ OpInv(Head1) /\ args \in Seq(ArgType)
    BY HeadCall DEF Running, IInv, TypeInv, ShapeInv
  <2> QED  BY <2>1 DEF Running, OpInv, Parts
<1>2. DOMAIN due = GradIndex /\ GradIndex \subseteq Nat
  BY DEF SumInv, GradIndex
<1>3. CASE args[h].from = 0
  <2>1. PICK list : list = args[h].list /\ list \in Seq([index : Int, value : Int])
    BY <1>1 DEF ArgType
  <2>2. e = [i \in 0 .. Len(list) - 1 |-> list[i + 1]]
    BY <1>3, <2>1 DEF Entries
  <2>3. IsFiniteSet(DOMAIN e)
    <3>1. PICK n \in Nat : n = Len(list)
      BY <2>1
    <3>2. DOMAIN e = 0 .. n - 1 /\ n - 1 \in Int
      BY <2>2, <3>1
    <3> QED  BY <3>2, FS_Interval
  <2>4. \A i \in DOMAIN e : e[i].value \in Int
    <3>1. \A i \in DOMAIN e : i + 1 \in DOMAIN list /\ e[i] = list[i + 1]
      BY <2>1, <2>2
    <3> QED  BY <2>1, <3>1, ListValues
  <2>5. \A j \in GradIndex : Amount(e, j, DOMAIN e) = Listed(h)[j]
    <3> SUFFICES ASSUME NEW j \in GradIndex PROVE Amount(e, j, DOMAIN e) = Listed(h)[j]
      OBVIOUS
    <3>1. j \in DOMAIN due
      BY <1>2
    <3> QED  BY <1>3, <2>1, <3>1, EntriesOfList
  <2>6. Owed(h) = [j \in DOMAIN due |-> due[j] + Listed(h)[j]]
    BY <1>3 DEF Owed
  <2> QED  BY <1>1, <1>2, <2>3, <2>4, <2>5, <2>6
<1>4. CASE args[h].from # 0
  <2>1. PICK c : c = args[h].from
    OBVIOUS
  <2>2. Reads(h, "build") /\ ~faulted
    BY <1>1, <1>4 DEF LinkInv, LinkOk
  <2>3. /\ c \in DOMAIN args /\ c < h /\ args[c].entry = "build" /\ results[c] = "ok"
        /\ c \in DOMAIN results
    <3>1. args[h].from \in 0 .. h - 1 /\ h \in Nat /\ DOMAIN args = 1 .. Len(args)
          /\ Len(args) \in Nat
      <4>1. DOMAIN args = 1 .. Len(args) /\ Len(args) \in Nat
        BY Shapes
      <4> QED  BY <1>1, <4>1 DEF ShapeInv, ArgInv
    <3>2. c \in DOMAIN args /\ c < h
      BY <1>1, <1>4, <2>1, <3>1
    <3> QED  BY <2>1, <2>2, <3>2 DEF Reads
  <2>4. PICK a : a = args[c]
    OBVIOUS
  <2>5. Reads(c, "full")
    BY <2>3 DEF LinkInv, LinkOk
  <2>6. PICK d : d = args[c].from
    OBVIOUS
  <2>7. a.beam \in 1 .. MaxBeam /\ a.meta = Uniform(a.beam) /\ args[d].beam = a.beam
        /\ args[d].meta = a.meta
    BY <2>3, <2>4, <2>5, <2>6, ReadsUniform DEF Reads
  <2>8. \A x \in Cells(a) : out[c].entries[TokenSlot(a, x)] = EntryOf(a, x, x, Draw[x[1]][x[3]])
    <3>1. ~InFlight("build", c) /\ Accepted(c)
      BY <1>1, <2>3, EarlierRun DEF Accepted
    <3> QED  BY <2>2, <2>3, <2>4, <3>1 DEF BuildInv, BuildOk, EntryMade
  <2>9. e = out[c].entries /\ DOMAIN e = 0 .. TokenCount(a) - 1
    <3>1. e = out[c].entries
      BY <1>4, <2>1 DEF Entries
    <3> QED  BY <2>3, <2>4, <3>1, BufferFields DEF ShapeInv, BufferInv
  <2>10. \A x \in Cells(a) : e[TokenSlot(a, x)] = EntryOf(a, x, x, Draw[x[1]][x[3]])
    BY <2>8, <2>9
  <2>11. /\ \A i \in DOMAIN e : e[i].value \in Int
         /\ \A j \in Nat :
              Amount(e, j, DOMAIN e) = Total(DrawOf(a), Chosen(a, j))
    BY <2>7, <2>9, <2>10, EntriesOfCells
  <2>12. IsFiniteSet(DOMAIN e)
    <3>1. TokenCount(a) - 1 \in Int
      <4>1. a.beam \in Nat
        BY <2>7, SizesAssumption
      <4> QED  BY <4>1, SizesNat DEF TokenCount
    <3> QED  BY <2>9, <3>1, FS_Interval
  <2>13. \A j \in GradIndex : Traced(h)[j] = Amount(e, j, DOMAIN e)
    <3> SUFFICES ASSUME NEW j \in GradIndex PROVE Traced(h)[j] = Amount(e, j, DOMAIN e)
      OBVIOUS
    <3>1. PICK f : f = args[d]
      OBVIOUS
    <3>2. Traced(h)[j] = Total(DrawOf(f), Chosen(f, j))
      BY <1>2, <2>1, <2>6, <3>1, TracedIs
    <3>3. f.beam = a.beam /\ f.meta = a.meta
      BY <2>7, <3>1
    <3>4. Selected(f) = Selected(a) /\ Chosen(f, j) = Chosen(a, j)
      <4>1. \A b : TokenSlots(f, b) = TokenSlots(a, b)
        BY <3>3 DEF TokenSlots
      <4>2. Selected(f) = Selected(a)
        BY <4>1 DEF Selected
      <4>3. \A x : Source(f, x) = Source(a, x)
        BY <3>3, Zenon DEF Source
      <4> QED  BY <4>2, <4>3 DEF Chosen
    <3>5. DrawOf(f) = DrawOf(a)
      BY <3>4 DEF DrawOf
    <3> QED  BY <1>2, <2>11, <3>2, <3>4, <3>5
  <2>14. Owed(h) = [j \in DOMAIN due |-> due[j] + Traced(h)[j]]
    BY <1>4 DEF Owed
  <2> QED  BY <1>1, <1>2, <2>11, <2>12, <2>13, <2>14
<1> QED  BY <1>3, <1>4

\* A part of a scatter pays what its entry owes.
LEMMA ScatterPart ==
  ASSUME IInv, ShapeInv, LinkInv, BuildInv, SumInv, NEW i, RunScatter(i)
  PROVE  SumInv'
<1>1. /\ Running("scatter") /\ i \in Parts(Head1) \ done /\ Advance(i)
      /\ UNCHANGED <<args, out, faulted>> /\ ~faulted
      /\ grad' = Scattered(Entries(Head1.call)[i])
      /\ due' = IF done = {} THEN Owed(Head1.call) ELSE due
  BY DEF RunScatter, Running, hostVars, LinkInv
<1>2. PICK h : h = Head1.call
  OBVIOUS
<1>3. PICK e : e = Entries(h)
  OBVIOUS
<1>4. /\ h \in DOMAIN args /\ IsFiniteSet(DOMAIN e) /\ Parts(Head1) = DOMAIN e
      /\ \A k \in DOMAIN e : e[k].value \in Int
      /\ DOMAIN Owed(h) = GradIndex
      /\ \A j \in GradIndex : Owed(h)[j] = due[j] + Amount(e, j, DOMAIN e)
  BY <1>1, <1>2, <1>3, ScatterOwes
<1>5. PICK R : R = DOMAIN e \ done
  OBVIOUS
<1>6. IsFiniteSet(R) /\ i \in R /\ R \subseteq DOMAIN e
  BY <1>1, <1>4, <1>5, FS_Subset
<1>7. ASSUME NEW j \in GradIndex
      PROVE  /\ grad'[j] = grad[j] + Term(e, j)[i]
             /\ grad'[j] \in Int /\ due'[j] \in Int
             /\ due'[j] = grad'[j] + Amount(e, j, R \ {i})
  <2>1. \A k \in DOMAIN e : Term(e, j)[k] \in Int
    BY <1>4 DEF Term
  <2>2. grad \in [GradIndex -> Int] /\ due \in [GradIndex -> Int]
    BY DEF SumInv
  <2>3. grad'[j] = grad[j] + Term(e, j)[i]
    <3>1. Term(e, j)[i] = IF e[i].index = j THEN e[i].value ELSE 0
      BY <1>6 DEF Term
    <3>2. grad' = IF e[i].index \in GradIndex
                  THEN [grad EXCEPT ![e[i].index] = @ + e[i].value] ELSE grad
      BY <1>1, <1>2, <1>3, <2>2 DEF Scattered
    <3>3. e[i].value \in Int
      BY <1>4, <1>6
    <3> QED  BY <2>2, <3>1, <3>2, <3>3
  <2>4. due'[j] = grad[j] + Amount(e, j, R)
    <3>1. CASE done = {}
      <4>1. grad = due
        BY <1>1, <3>1 DEF SumInv
      <4>2. due'[j] = due[j] + Amount(e, j, DOMAIN e)
        BY <1>1, <1>2, <1>4, <3>1
      <4> QED  BY <1>5, <3>1, <4>1, <4>2
    <3>2. CASE done # {}
      BY <1>1, <1>2, <1>3, <1>5, <3>2 DEF SumInv
    <3> QED  BY <3>1, <3>2
  <2>5. /\ Amount(e, j, R) = Term(e, j)[i] + Amount(e, j, R \ {i})
        /\ Amount(e, j, R) \in Int /\ Amount(e, j, R \ {i}) \in Int
    <3>1. \A k \in R : Term(e, j)[k] \in Int
      BY <1>6, <2>1
    <3> QED  BY <1>6, <3>1, TotalRemove, AmountIs
  <2>6. grad[j] \in Int /\ Term(e, j)[i] \in Int
    BY <1>6, <2>1, <2>2
  <2> QED  BY <2>3, <2>4, <2>5, <2>6
<1>8. grad' \in [GradIndex -> Int] /\ due' \in [GradIndex -> Int]
  <2>1. DOMAIN grad' = GradIndex /\ grad' = [j \in DOMAIN grad' |-> grad'[j]]
    BY <1>1 DEF Scattered, SumInv
  <2>2. DOMAIN due' = GradIndex /\ due' = [j \in DOMAIN due' |-> due'[j]]
    BY <1>1, <1>2, <1>4 DEF SumInv, Owed
  <2> QED  BY <1>7, <2>1, <2>2
<1>9. GradIndex' = GradIndex
  BY DEF GradIndex, GradCount
<1>10. CASE queue' = queue /\ done' = done \cup {i}
  <2>1. Running("scatter")' /\ Head1' = Head1 /\ done' # {}
    BY <1>1, <1>10 DEF Running, Head1
  <2>2. Entries(h)' = e
    BY <1>1, <1>3 DEF Entries
  <2>3. DOMAIN e \ done' = R \ {i}
    BY <1>5, <1>10
  <2>4. \A j \in GradIndex : due'[j] = grad'[j] + Amount(Entries(h)', j, DOMAIN Entries(h)' \ done')
    BY <1>7, <2>2, <2>3
  <2> QED  BY <1>2, <1>8, <1>9, <2>1, <2>4 DEF SumInv, Amount
<1>11. CASE done' = {} /\ done \cup {i} = Parts(Head1)
  <2>1. R \ {i} = {}
    BY <1>4, <1>5, <1>11
  <2>2. \A j \in GradIndex : due'[j] = grad'[j]
    <3> SUFFICES ASSUME NEW j \in GradIndex PROVE due'[j] = grad'[j]
      OBVIOUS
    <3>1. Amount(e, j, R \ {i}) = 0
      BY <2>1, AmountIs, TotalOfNone
    <3>2. due'[j] = grad'[j] + Amount(e, j, R \ {i}) /\ grad'[j] \in Int
      BY <1>7
    <3> QED  BY <3>1, <3>2
  <2>3. grad' = due'
    BY <1>8, <2>2
  <2> QED  BY <1>8, <1>9, <1>11, <2>3 DEF SumInv
<1> QED  BY <1>1, <1>10, <1>11, Advanced DEF Running

LEMMA DeviceGrad ==
  ASSUME IInv, ShapeInv, OutInv, GradInv, DeviceStep
  PROVE  GradInv'
<1> USE DEF GradInv
<1>1. queue # <<>> /\ Head1.kind \in {"memset", "copy"} => 0 \in Parts(Head1) \ done
  BY DEF ShapeInv, StreamInv, PartInv, PartsOf, Parts
<1>2. ASSUME queue # <<>>, Head1.kind \notin {"build", "scatter"},
             NEW p \in Parts(Head1) \ done, Advance(p),
             UNCHANGED <<args, results, pc, err, faulted, grad, due>>,
             \A c \in DOMAIN args : out'[c].entries = out[c].entries /\ out'[c].draws = out[c].draws
      PROVE  GradInv'
  BY <1>2, DeviceLinks, OtherBuilds, OtherSums
<1>3. ASSUME NEW h \in DOMAIN args, NEW tk, NEW sc, NEW tr,
             Written(h, tk, sc, tr, out[h].entries, out[h].draws)
      PROVE  \A c \in DOMAIN args : /\ out'[c].entries = out[c].entries
                                    /\ out'[c].draws = out[c].draws
  BY <1>3 DEF Written
<1>4. CASE RunMemset
  <2>1. /\ queue # <<>> /\ Head1.kind = "memset" /\ Advance(0) /\ out' = out
        /\ UNCHANGED <<args, results, pc, err, faulted, grad, due>>
    BY <1>4 DEF RunMemset, Running, hostVars
  <2> QED  BY <1>1, <1>2, <2>1
<1>5. CASE RunCopy
  <2>1. /\ queue # <<>> /\ Head1.kind = "copy" /\ Advance(0) /\ out' = out
        /\ UNCHANGED <<args, results, pc, err, faulted, grad, due>>
    BY <1>5 DEF RunCopy, Running, memory
  <2> QED  BY <1>1, <1>2, <2>1
<1>6. ASSUME NEW p \in 0 .. Threads - 1, RunInit(p)  PROVE GradInv'
  <2>1. /\ queue # <<>> /\ Head1.kind = "init" /\ p \in Parts(Head1) \ done /\ Advance(p)
        /\ UNCHANGED <<args, results, pc, err, faulted, grad, due>>
    BY <1>6 DEF RunInit, Running, hostVars
  <2>2. PICK h \in DOMAIN args : h = Head1.call
    BY <2>1, HeadCall DEF IInv, ShapeInv
  <2>3. PICK tk, sc, tr : Written(h, tk, sc, tr, out[h].entries, out[h].draws)
    BY <1>6, <2>2, InitWrites DEF IInv, ShapeInv
  <2> QED  BY <1>2, <1>3, <2>1, <2>3
<1>7. ASSUME NEW b \in Example, RunValidate(b)  PROVE GradInv'
  <2>1. /\ queue # <<>> /\ Head1.kind = "validate" /\ b \in Parts(Head1) \ done /\ Advance(b)
        /\ UNCHANGED <<args, results, pc, err, faulted, grad, due>> /\ out' = out
    BY <1>7 DEF RunValidate, Running, hostVars
  <2> QED  BY <1>2, <2>1
<1>8. ASSUME NEW b \in Example, RunDecode(b)  PROVE GradInv'
  <2>1. /\ queue # <<>> /\ Head1.kind = "decode" /\ b \in Parts(Head1) \ done /\ Advance(b)
        /\ UNCHANGED <<args, results, pc, err, faulted, grad, due>>
    BY <1>8 DEF RunDecode, Running, hostVars
  <2>2. PICK h \in DOMAIN args : h = Head1.call
    BY <2>1, HeadCall DEF IInv, ShapeInv
  <2>3. PICK tk, sc, tr : Written(h, tk, sc, tr, out[h].entries, out[h].draws)
    BY <1>8, <2>2, DecodeWrites DEF IInv, ShapeInv
  <2> QED  BY <1>2, <1>3, <2>1, <2>3
<1>9. ASSUME NEW b \in Example, NEW p \in Parts(Head1) \ done, Running("build"), Advance(p),
             RunDraws(b) \/ \E l \in 0 .. Threads - 1 : RunBuild(b, l)
      PROVE  GradInv'
  <2>1. /\ queue # <<>> /\ Head1.kind = "build"
        /\ UNCHANGED <<args, results, pc, err, faulted, grad, due>>
    BY <1>9 DEF RunDraws, RunBuild, Running, hostVars
  <2>2. BuildInv'
    BY <1>9, DrawsPart, LanePart
  <2> QED  BY <1>9, <2>1, <2>2, DeviceLinks, OtherSums
<1>10. ASSUME NEW i, RunScatter(i)  PROVE GradInv'
  <2>1. /\ queue # <<>> /\ Head1.kind = "scatter" /\ i \in Parts(Head1) \ done /\ Advance(i)
        /\ UNCHANGED <<args, results, pc, err, faulted>> /\ out' = out
    BY <1>10 DEF RunScatter, Running, hostVars
  <2>2. SumInv'
    BY <1>10, ScatterPart
  <2> QED  BY <2>1, <2>2, DeviceLinks, OtherBuilds
<1>11. ASSUME NEW b \in Example, RunDraws(b)  PROVE GradInv'
  <2>1. Running("build") /\ <<b, -1>> \in Parts(Head1) \ done /\ Advance(<<b, -1>>)
    BY <1>11 DEF RunDraws
  <2> QED  BY <1>9, <1>11, <2>1
<1>12. ASSUME NEW b \in Example, NEW l \in 0 .. Threads - 1, RunBuild(b, l)  PROVE GradInv'
  <2>1. Running("build") /\ <<b, l>> \in Parts(Head1) \ done /\ Advance(<<b, l>>)
    BY <1>12 DEF RunBuild
  <2> QED  BY <1>9, <1>12, <2>1
<1> QED  BY <1>4, <1>5, <1>6, <1>7, <1>8, <1>10, <1>11, <1>12 DEF DeviceStep

LEMMA NextGrad == FullCountable /\ IInv /\ ShapeInv /\ OutInv /\ GradInv /\ [Next]_vars => GradInv'
<1> SUFFICES ASSUME FullCountable, IInv, ShapeInv, OutInv, GradInv, [Next]_vars  PROVE GradInv'
  OBVIOUS
<1>1. CASE \E a \in Arguments : Begin(a)
  BY <1>1, BeginMoves, HostGrad
<1>2. CASE HostStep
  BY <1>2, CheckGridMoves, CheckingMoves, LaunchWorkMoves, ReturningMoves, HostGrad DEF HostStep
<1>3. CASE DeviceStep
  BY <1>3, DeviceGrad
<1>4. CASE Fault
  BY <1>4, QuietGrad DEF Fault, hostVars, memory
<1>5. CASE SetSynchronization
  BY <1>5, QuietGrad DEF SetSynchronization, hostVars, deviceVars, memory
<1>6. CASE UNCHANGED vars
  BY <1>6, QuietGrad DEF vars, hostVars, deviceVars, memory
<1> QED  BY <1>1, <1>2, <1>3, <1>4, <1>5, <1>6 DEF Next

-----------------------------------------------------------------------------
(***************************************************************************)
(* The theorems.                                                           *)
(***************************************************************************)

\* The state is one of a stream, a host thread and their buffers: the stream
\* holds operations of calls that were made, the first of them with a part left
\* to run, and only a set or checked answer is copied back.
THEOREM CudaCallsTypeOK == Spec => []TypeOK
<1>1. IInv /\ ShapeInv => TypeOK
  <2> SUFFICES ASSUME IInv, ShapeInv  PROVE TypeOK
    OBVIOUS
  <2>1. queue \in Seq(OpType)
    BY DEF IInv, TypeInv
  <2>2. \A n \in DOMAIN queue : queue[n].kind \in Kinds /\ queue[n].call \in DOMAIN args
    <3> SUFFICES ASSUME NEW n \in DOMAIN queue
                 PROVE  queue[n].kind \in Kinds /\ queue[n].call \in DOMAIN args
      OBVIOUS
    <3>1. PICK op \in OpType : op = queue[n]
      BY <2>1
    <3>2. op.kind \in Kinds
      BY DEF OpType
    <3>3. op.call \in DOMAIN args
      BY <3>1 DEF ShapeInv, StreamInv, OpInv
    <3> QED  BY <3>1, <3>2, <3>3
  <2>3. IF queue = <<>> THEN done = {} ELSE done \subseteq Parts(Head1) /\ done # Parts(Head1)
    <3>1. CASE queue = <<>>
      BY <3>1 DEF ShapeInv, StreamInv, PartInv
    <3>2. CASE queue # <<>>
      <4>1. Head1 \in OpType /\ OpInv(Head1)
        BY <3>2, HeadCall DEF IInv, ShapeInv
      <4>2. Parts(Head1) = PartsOf(Head1)
        BY <4>1, PartsAre DEF IInv, ShapeInv
      <4> QED  BY <3>2, <4>2 DEF ShapeInv, StreamInv, PartInv
    <3> QED  BY <3>1, <3>2
  <2>4. \A c \in DOMAIN results : results[c] \in {"ok", "invalid", "failed"}
    BY DEF IInv, TypeInv, Status
  <2>5. /\ pc \in {"idle", "grid", "init", "malloc", "memset", "validate", "copy",
                   "wait", "free", "launch", "finish", "sync"}
        /\ Len(args) = Len(results) + (IF pc = "idle" THEN 0 ELSE 1)
        /\ Len(out) = Len(args)
        /\ {err, sync, lastError, faulted} \subseteq BOOLEAN
        /\ host \in {"ok", "invalid", "failed"}
        /\ cell \in {"none", "junk", "ok", "invalid"}
        /\ waited \subseteq DOMAIN results
    BY DEF IInv, TypeInv, InCheck, ShapeInv, StateInv, BufferInv, Status
  <2> QED  BY <2>2, <2>3, <2>4, <2>5 DEF TypeOK
<1> QED  BY <1>1, ShapeInvariant, PTL

\* Status ok and a stream worked off mean what dbs_cuda.h promises: every
\* example of a decode had valid metadata, and each slot of the dense buffers
\* is its own or filled; a refused call has decoded nothing.
THEOREM CudaOutputsAsPromised == Spec => []OutputsAsPromised
<1>1. IInv /\ ShapeInv /\ OutInv => OutputsAsPromised
  <2> SUFFICES ASSUME IInv, ShapeInv, OutInv, NEW c \in DOMAIN results, args[c].entry \in Decodes
               PROVE  /\ /\ results[c] = "ok" /\ Countable(args[c])
                         /\ (c \in waited \/ (~Pending(c) /\ ~faulted))
                       => /\ \A b \in Example : ~InvalidMetadata(args[c], b)
                          /\ DenseOutputs(c)
                      /\ results[c] = "invalid" =>
                           \A i \in DOMAIN out[c].tokens : out[c].tokens[i] \in {Junk, Fill}
    BY DEF OutputsAsPromised
  <2>1. c \in DOMAIN args /\ args \in Seq(ArgType)
    <3>1. /\ Len(args) = Len(results) + (IF pc = "idle" THEN 0 ELSE 1)
          /\ DOMAIN args = 1 .. Len(args) /\ DOMAIN results = 1 .. Len(results)
          /\ Len(results) \in Nat /\ args \in Seq(ArgType)
      BY Shapes
    <3> QED  BY <3>1
  <2>2. PICK a \in ArgType : a = args[c]
    BY <2>1
  <2>3. CallOk(c)
    BY <2>1 DEF OutInv, CallInv
  <2>4. ASSUME results[c] = "ok", Countable(args[c]), c \in waited \/ (~Pending(c) /\ ~faulted)
        PROVE  /\ \A b \in Example : ~InvalidMetadata(args[c], b)
               /\ DenseOutputs(c)
    <3>1. Accepted(c)
      BY <2>4 DEF Accepted
    <3>2. AllValid(c) /\ Holds(c, Example)
      BY <2>3, <2>4, <3>1 DEF CallOk, InFlight, Pending
    <3>3. a.entry # "variable" => a.meta = Uniform(a.beam)
      BY <2>1, <2>2 DEF ShapeInv, ArgInv
    <3>4. a.beam \in Nat
      <4>1. ~Refused(a)
        BY <2>1, <2>2, <2>4 DEF ShapeInv, ArgInv, Going
      <4>2. a.beam \in 1 .. MaxBeam
        BY <2>2, <4>1 DEF Refused, Decodes
      <4> QED  BY <4>2, SizesNat
    <3>5. PICK tokens, scores : tokens = out[c].tokens /\ scores = out[c].scores
      OBVIOUS
    <3>6. Countable(a) /\ Held(a, tokens, scores, Example)
      BY <2>2, <2>4, <3>2, <3>5 DEF Holds
    <3>7. /\ \A x \in Cells(a) :
               tokens[RowMajor(<<Batch, Steps, a.beam>>, x)]
                 = IF x \in TokenSlots(a, x[1]) THEN x ELSE Fill
          /\ \A x \in Rows(a) :
               scores[RowMajor(<<Batch, a.beam>>, x)]
                 = IF x \in ScoreSlots(a, x[1]) THEN x ELSE Fill
      BY <3>3, <3>4, <3>6, HeldByAll
    <3>8. a.entry = "full" => out[c].traces = out[c].tokens
      BY <2>2, <2>3 DEF CallOk
    <3>9. DenseOutputs(c)
      BY <2>2, <3>5, <3>7, <3>8 DEF DenseOutputs, Cells, Rows
    <3> QED  BY <3>2, <3>9 DEF AllValid
  <2>5. ASSUME results[c] = "invalid"
        PROVE  \A i \in DOMAIN out[c].tokens : out[c].tokens[i] \in {Junk, Fill}
    BY <2>3, <2>5 DEF CallOk, Unstarted, Undecoded
  <2> QED  BY <2>4, <2>5
<1> QED  BY OutInvariant, <1>1, PTL

\* On every path through validate_variable_metadata_on_device, with whichever
\* of its runtime calls failing, the device memory for the answer is released
\* before the call goes on, and not while an operation on it may still run.
THEOREM CudaStatusCellReleased == Spec => []StatusCellReleased
<1>1. IInv => StatusCellReleased
  BY DEF IInv, CellInv, StatusCellReleased, InCheck, StatusKinds
<1> QED  BY <1>1, CudaInvariant, PTL

\* Once a call has failed in the runtime, no later call that asks the runtime
\* reports success: cudaPeekAtLastError keeps the error.
THEOREM CudaFailureSticks == Spec => []FailureSticks
<1>1. IInv => FailureSticks
  BY DEF IInv
<1> QED  BY <1>1, CudaInvariant, PTL

(***************************************************************************)
(* Whenever no scatter is under way, the gradient is what all scatters so  *)
(* far owe it, however the kernels' threads and the host's calls           *)
(* interleave: each entry of a list in range counts as often as it is      *)
(* listed, and each token of a traced decode once, with the draw of its    *)
(* beam.  The decodes that are traced number their slots in int without    *)
(* overflow.                                                               *)
(***************************************************************************)
THEOREM CudaGradientDue ==
  ASSUME FullCountable
  PROVE  Spec => []GradientDue
<1>1. Init => IInv /\ ShapeInv /\ OutInv /\ GradInv
  BY InitInv, InitShape, InitOut, InitGrad
<1>2. IInv /\ ShapeInv /\ OutInv /\ GradInv /\ [Next]_vars
        => (IInv /\ ShapeInv /\ OutInv /\ GradInv)'
  BY NextInv, NextShape, NextOut, NextGrad
<1>3. GradInv => GradientDue
  BY DEF GradInv, SumInv, GradientDue
<1> QED  BY <1>1, <1>2, <1>3, PTL DEF Spec
=============================================================================
