------------------------------ MODULE CudaCalls ------------------------------
(***************************************************************************)
(* The host functions of dbs_cuda.cu, called one after the other by a host *)
(* thread on one stream, and the device that works the stream off.         *)
(*                                                                         *)
(* A call checks its arguments, enqueues kernels and copies, and looks for *)
(* errors; each step of the runtime may fail, and a kernel may fault.  The *)
(* variable launch also asks the device about the metadata and waits for   *)
(* the answer.  Whether a call waits for its kernels is a switch that      *)
(* another thread may turn at any time.                                    *)
(*                                                                         *)
(* What a decode computes is in CudaForward; here a decoded slot is the    *)
(* triple of the example, the step and the beam it belongs to, so that     *)
(* what matters is which slot of the dense outputs it reaches.             *)
(***************************************************************************)
EXTENDS Integers, Sequences, FiniteSets, FiniteSetsExt

CONSTANTS
  Batch, Steps, Vocab,  (* batch_size, steps or max_steps, vocab_size      *)
  MaxBeam, FastMaxBeam, (* DBS_CUDA_MAX_BEAM, DBS_CUDA_FAST_MAX_BEAM       *)
  IntLimit,             (* a slot number of IntLimit or more overflows int *)
  Requests,             (* calls that read no output of an earlier one     *)
  Threads,              (* threads of the kernels that stride over a grid  *)
  Decoded,              (* the trace of each decoded slot                  *)
  Draw,                 (* the surrogate gradient of each final beam       *)
  MaxCalls,             (* bound on the number of calls                    *)
  MaxRequests           (* bound on the number of Requests among them      *)

Example == 0 .. Batch - 1

ASSUME SizesAssumption ==
  /\ {Batch, Steps, Vocab, MaxBeam, IntLimit, Threads} \subseteq Nat \ {0}
  /\ FastMaxBeam \in 1 .. MaxBeam
  /\ {MaxCalls, MaxRequests} \subseteq Nat

\* What the decoder selects for a slot, and the gradients: numbers.
ASSUME DataAssumption ==
  /\ \A x \in Example \X (0 .. Steps - 1) \X (0 .. MaxBeam - 1) :
       /\ {Decoded[x].parent, Decoded[x].token} \subseteq Int
       /\ Decoded[x].fromLogprob \in {0, 1}
  /\ Draw \in [Example -> [0 .. MaxBeam - 1 -> Int]]

VARIABLES
  args,       (* the arguments of each call so far                         *)
  results,    (* the status of each call that has returned                 *)
  pc,         (* the position of the host thread                           *)
  err,        (* the host's err, TRUE unless cudaSuccess                   *)
  host,       (* host_status                                               *)
  waited,     (* the current call has seen its stream drained              *)
  sync,       (* g_dbs_cuda_synchronize_calls                              *)
  lastError,  (* what cudaPeekAtLastError would report                     *)
  queue,      (* operations enqueued on the stream and not completed       *)
  done,       (* the parts of the first of them that have run              *)
  faulted,    (* a kernel has faulted: nothing runs any more               *)
  cell,       (* device_status                                             *)
  out,        (* the output buffers of each call                           *)
  grad,       (* grad_out, which all scatters add to                       *)
  due         (* history: what the scatters so far should have made of it  *)

hostVars == <<args, results, pc, err, host, waited>>
deviceVars == <<queue, done, faulted>>
memory == <<cell, out, grad, due>>
vars == <<hostVars, sync, lastError, deviceVars, memory>>

-----------------------------------------------------------------------------
(***************************************************************************)
(* Buffers.                                                                *)
(***************************************************************************)

Junk == <<"junk">>      (* memory as the caller left it                    *)
Fill == <<"fill">>      (* -1 for a token, -infinity for a score           *)
NoEntry == [index |-> -1, value |-> 0]
JunkEntry == [index |-> -2, value |-> 0]

TokenCount(a) == Batch * Steps * a.beam
ScoreCount(a) == Batch * a.beam
GradCount == Batch * Steps * FastMaxBeam * Vocab

\* A slot of [B, T, K], and one of [B, K].
TokenSlot(a, x) == (x[1] * Steps + x[2]) * a.beam + x[3]
ScoreSlot(a, x) == x[1] * a.beam + x[2]

\* A kernel numbers slots in int: beyond the limit a number turns negative.
Address(n) == IF n < IntLimit THEN n ELSE n - 2 * IntLimit

\* The fresh buffers a caller passes along.
Fresh(a) ==
  [tokens  |-> [i \in 0 .. TokenCount(a) - 1 |-> Junk],
   scores  |-> [i \in 0 .. ScoreCount(a) - 1 |-> Junk],
   traces  |-> [i \in 0 .. TokenCount(a) - 1 |-> Junk],
   entries |-> [i \in 0 .. TokenCount(a) - 1 |-> JunkEntry],
   draws   |-> [b \in Example |-> [k \in 0 .. a.beam - 1 |-> 0]]]

-----------------------------------------------------------------------------
(***************************************************************************)
(* Arguments.  A call's entry is "forward", "fast" (which stands for       *)
(* fast_ex too), "full", "variable", "build" or "scatter"; `from` is the   *)
(* call whose output buffers it reads, 0 if it brings a list of its own.   *)
(***************************************************************************)

Decodes == {"forward", "fast", "full", "variable"}

Uniform(beam) ==
  [b \in Example |-> [steps |-> Steps, beam |-> beam, eos |-> -1, min |-> 0]]

Call(entry, beam, meta, from, list) ==
  [entry |-> entry, beam |-> beam, meta |-> meta, from |-> from, list |-> list]

\* What a caller can ask for on its own: a decode, or the scatter of a list.
\* Only the variable launch takes an array of metadata.
ASSUME RequestsAssumption ==
  \A a \in Requests :
    /\ a.entry \in Decodes \cup {"scatter"}
    /\ a = Call(a.entry, a.beam, a.meta, 0, a.list)
    /\ a.beam \in Int
    /\ a.meta \in [Example -> [steps : Int, beam : Int, eos : Int, min : Int]]
    /\ a.entry \in {"forward", "fast", "full"} => a.meta = Uniform(a.beam)
    /\ a.list \in Seq([index : Int, value : Int])

\* The calls whose outputs may be read: status ok, or the caller gives up.
Usable(entry) ==
  {c \in DOMAIN results : args[c].entry = entry /\ results[c] = "ok"}

Arguments ==
  {a \in Requests : Cardinality({c \in DOMAIN args : args[c].from = 0}) < MaxRequests}
  \cup {Call("build", args[c].beam, args[c].meta, c, <<>>) : c \in Usable("full")}
  \cup {Call("scatter", args[c].beam, args[c].meta, c, <<>>) : c \in Usable("build")}

\* The checks on pointers, sizes, end token and element counts return alike;
\* the beam size stands for them all, also in a scatter, which has none.
Refused(a) == ~(a.beam \in 1 .. MaxBeam)

\* dbs_validate_variable_metadata_kernel, one example
InvalidMetadata(a, b) ==
  LET x == a.meta[b] IN
  \/ ~(x.steps \in 1 .. Steps)
  \/ ~(x.beam \in 1 .. a.beam) \/ x.beam > MaxBeam
  \/ ~(x.eos \in -1 .. Vocab - 1)
  \/ x.min < 0

\* The entries the scatter of call c reads, as a function from 0 .. n - 1.
Entries(c) ==
  IF args[c].from = 0 THEN [i \in 0 .. Len(args[c].list) - 1 |-> args[c].list[i + 1]]
  ELSE out[args[c].from].entries

-----------------------------------------------------------------------------
(***************************************************************************)
(* The device.  The operations of the stream run one after the other.  A   *)
(* part of a kernel is what one of its threads does between two points at  *)
(* which others may see it; parts that touch different memory are one.     *)
(***************************************************************************)

Op(kind) == [kind |-> kind, call |-> Len(args)]
Head1 == queue[1]
Running(kind) == queue # <<>> /\ Head1.kind = kind
Arg == args[Head1.call]
Buffer == out[Head1.call]

\* Lane -1 of a block of the gradient kernel is lane 0 before the barrier.
Parts(op) ==
  CASE op.kind \in {"memset", "copy"} -> {0}
    [] op.kind = "init" -> 0 .. Threads - 1
    [] op.kind \in {"validate", "decode"} -> Example
    [] op.kind = "build" -> Example \X (-1 .. Threads - 1)
    [] op.kind = "scatter" -> DOMAIN Entries(op.call)

\* Part p of the first operation has run; after the last the next one starts.
Advance(p) ==
  IF done \cup {p} = Parts(Head1)
  THEN queue' = Tail(queue) /\ done' = {}
  ELSE queue' = queue /\ done' = done \cup {p}

\* dbs_init_decode_outputs_kernel: thread p strides over both arrays.
Struck(buffer, p) == [i \in DOMAIN buffer |-> IF i % Threads = p THEN Fill ELSE buffer[i]]

RunInit(p) ==
  /\ Running("init") /\ p \in Parts(Head1) \ done
  /\ out' = [out EXCEPT ![Head1.call] =
       [Buffer EXCEPT !.tokens = Struck(Buffer.tokens, p),
                      !.scores = Struck(Buffer.scores, p)]]
  /\ Advance(p)
  /\ UNCHANGED <<hostVars, sync, lastError, faulted, cell, grad, due>>

RunMemset ==
  /\ Running("memset")
  /\ cell' = "ok"
  /\ Advance(0)
  /\ UNCHANGED <<hostVars, sync, lastError, faulted, out, grad, due>>

\* Faulty variant of RunValidate: each thread stores its verdict.
RunValidateStores(b) ==
  /\ Running("validate") /\ b \in Parts(Head1) \ done
  /\ cell' = IF InvalidMetadata(Arg, b) THEN "invalid" ELSE "ok"
  /\ Advance(b)
  /\ UNCHANGED <<hostVars, sync, lastError, faulted, out, grad, due>>

\* One thread per example: atomicCAS(status, OK, INVALID_ARGUMENT).
RunValidate(b) ==
  /\ Running("validate") /\ b \in Parts(Head1) \ done
  /\ cell' = IF InvalidMetadata(Arg, b) /\ cell = "ok" THEN "invalid" ELSE cell
  /\ Advance(b)
  /\ UNCHANGED <<hostVars, sync, lastError, faulted, out, grad, due>>

RunCopy ==
  /\ Running("copy")
  /\ host' = cell
  /\ Advance(0)
  /\ UNCHANGED <<args, results, pc, err, waited, sync, lastError, faulted, memory>>

\* The slots an example writes: those of its own steps and beams.
TokenSlots(a, b) == {b} \X (0 .. a.meta[b].steps - 1) \X (0 .. a.meta[b].beam - 1)
ScoreSlots(a, b) == {b} \X (0 .. a.meta[b].beam - 1)

\* A buffer after each slot x has been written at address where[x].
Store(buffer, where) ==
  [i \in DOMAIN buffer |->
     IF \E x \in DOMAIN where : where[x] = i
     THEN CHOOSE x \in DOMAIN where : where[x] = i
     ELSE buffer[i]]

\* A block of dbs_forward_fast_kernel or of dbs_forward_kernel: one example.
RunDecode(b) ==
  /\ Running("decode") /\ b \in Parts(Head1) \ done
  /\ LET tokens == [x \in TokenSlots(Arg, b) |-> Address(TokenSlot(Arg, x))]
         scores == [x \in ScoreSlots(Arg, b) |-> ScoreSlot(Arg, x)]
     IN  out' = [out EXCEPT ![Head1.call] =
           [Buffer EXCEPT
              !.tokens = Store(Buffer.tokens, tokens),
              !.scores = Store(Buffer.scores, scores),
              !.traces = IF Arg.entry = "full" THEN Store(Buffer.traces, tokens) ELSE Buffer.traces]]
  /\ Advance(b)
  /\ UNCHANGED <<hostVars, sync, lastError, faulted, cell, grad, due>>

\* The gradient kernel reads the trace a full decode has written and makes of
\* each slot one entry, unless nothing was selected there or a beam carried.
EntryIndex(a, x, slot) ==
  ((x[1] * Steps + x[2]) * a.beam + Decoded[slot].parent) * Vocab + Decoded[slot].token

EntryOf(a, x, slot, draw) ==
  IF Decoded[slot].parent < 0 \/ Decoded[slot].token < 0 \/ Decoded[slot].fromLogprob = 0
  THEN NoEntry
  ELSE [index |-> EntryIndex(a, x, slot), value |-> draw]

\* Lane 0 computes the draws of the block's example.
RunDraws(b) ==
  /\ Running("build") /\ <<b, -1>> \in Parts(Head1) \ done
  /\ out' = [out EXCEPT ![Head1.call].draws[b] = Draw[b]]
  /\ Advance(<<b, -1>>)
  /\ UNCHANGED <<hostVars, sync, lastError, faulted, cell, grad, due>>

\* Faulty variants of PastBarrier: there is none; lane 0 leaves before it.
NoBarrier(b) == TRUE
BarrierWithoutLane0(b) == FALSE

\* The barrier of the block keeps the lanes from the draws until then.
PastBarrier(b) == <<b, -1>> \in done

\* Lane l strides over the slots of its block.
RunBuild(b, l) ==
  /\ Running("build") /\ <<b, l>> \in Parts(Head1) \ done
  /\ PastBarrier(b)
  /\ LET mine == {x \in TokenSlots(Arg, b) : (x[2] * Arg.beam + x[3]) % Threads = l}
         trace == out[Arg.from].traces
         Entry(x) == EntryOf(Arg, x, trace[TokenSlot(Arg, x)], Buffer.draws[b][x[3]])
     IN  out' = [out EXCEPT ![Head1.call].entries =
           [i \in DOMAIN Buffer.entries |->
              IF \E x \in mine : TokenSlot(Arg, x) = i
              THEN Entry(CHOOSE x \in mine : TokenSlot(Arg, x) = i)
              ELSE Buffer.entries[i]]]
  /\ Advance(<<b, l>>)
  /\ UNCHANGED <<hostVars, sync, lastError, faulted, cell, grad, due>>

\* dbs_sparse_scatter_kernel: one atomicAdd, if the index is in range.
Scattered(e) ==
  IF e.index \in DOMAIN grad THEN [grad EXCEPT ![e.index] = @ + e.value] ELSE grad

\* The place of x in a dense array of the given sizes.
RowMajor(sizes, x) ==
  LET place[i \in 0 .. Len(sizes)] ==
        IF i = 0 THEN 0 ELSE place[i - 1] * sizes[i] + x[i]
  IN  place[Len(sizes)]

\* History: what the entries of call c, or the trace behind them, add up to.
Listed(c) ==
  LET list == args[c].list
      value == [i \in DOMAIN list |-> list[i].value]
  IN  [j \in DOMAIN due |->
         MapThenSumSet(LAMBDA i : value[i], {i \in DOMAIN list : list[i].index = j})]

Traced(c) ==
  LET a == args[args[args[c].from].from]
      selected == {x \in UNION {TokenSlots(a, b) : b \in Example} :
                     /\ Decoded[x].parent >= 0 /\ Decoded[x].token >= 0
                     /\ Decoded[x].fromLogprob = 1}
      Source(x) == RowMajor(<<Batch, Steps, a.beam, Vocab>>,
                            <<x[1], x[2], Decoded[x].parent, Decoded[x].token>>)
      draw == [x \in selected |-> Draw[x[1]][x[3]]]
  IN  [j \in DOMAIN due |->
         MapThenSumSet(LAMBDA x : draw[x], {x \in selected : Source(x) = j})]

Owed(c) ==
  LET more == IF args[c].from = 0 THEN Listed(c) ELSE Traced(c)
  IN  [j \in DOMAIN due |-> due[j] + more[j]]

RunScatter(i) ==
  /\ Running("scatter") /\ i \in Parts(Head1) \ done
  /\ grad' = Scattered(Entries(Head1.call)[i])
  /\ due' = IF done = {} THEN Owed(Head1.call) ELSE due
  /\ Advance(i)
  /\ UNCHANGED <<hostVars, sync, lastError, faulted, cell, out>>

\* A kernel faults: the context is lost, with all that was to run on it.
Fault ==
  /\ queue # <<>> /\ Head1.kind \notin {"memset", "copy"}
  /\ faulted' = TRUE /\ queue' = <<>> /\ done' = {}
  /\ UNCHANGED <<hostVars, sync, lastError, memory>>

DeviceStep ==
  \/ RunMemset \/ RunCopy
  \/ \E p \in 0 .. Threads - 1 : RunInit(p)
  \/ \E b \in Example : RunValidate(b) \/ RunDecode(b) \/ RunDraws(b)
  \/ \E b \in Example, l \in 0 .. Threads - 1 : RunBuild(b, l)
  \/ queue # <<>> /\ \E i \in Parts(Head1) : RunScatter(i)

-----------------------------------------------------------------------------
(***************************************************************************)
(* The host.  A call of the runtime succeeds or leaves an error behind,    *)
(* which cudaPeekAtLastError reports until cudaGetLastError takes it away. *)
(***************************************************************************)

Api(ok) ==
  /\ faulted => ~ok
  /\ lastError' = (lastError \/ ~ok)

Enqueue(kind) == queue' = Append(queue, Op(kind))

Return(status) ==
  /\ results' = Append(results, status)
  /\ pc' = "idle"

Current == args[Len(args)]

\* The runtime takes the operation, or reports an error.
Submit(kind, ok) ==
  /\ Api(ok)
  /\ IF ok THEN Enqueue(kind) ELSE UNCHANGED queue

Begin(a) ==
  /\ pc = "idle" /\ Len(args) < MaxCalls
  /\ args' = Append(args, a)
  /\ out' = Append(out, Fresh(a))
  /\ err' = FALSE /\ host' = "failed"
  /\ IF Refused(a) THEN Return("invalid")
     ELSE IF a.entry # "scatter" THEN pc' = "grid" /\ UNCHANGED results
     ELSE IF a.from = 0 /\ a.list = <<>> THEN Return("ok")
     ELSE pc' = "launch" /\ UNCHANGED results
  /\ UNCHANGED <<waited, sync, lastError, deviceVars, cell, grad, due>>

\* validate_launch_grid_x; a small beam sends "forward" on to "fast_ex", which
\* checks everything once more.
CheckGrid ==
  /\ pc = "grid"
  /\ \/ \E status \in {"failed", "invalid"} :
          /\ lastError' = (lastError \/ status = "failed")
          /\ Return(status)
          /\ UNCHANGED args
     \/ /\ IF Current.entry = "forward" /\ Current.beam <= FastMaxBeam
           THEN /\ args' = [args EXCEPT ![Len(args)].entry = "fast"]
                /\ pc' = "grid"
           ELSE /\ pc' = IF Current.entry = "variable" THEN "init" ELSE "launch"
                /\ UNCHANGED args
        /\ UNCHANGED <<results, lastError>>
  /\ UNCHANGED <<err, host, waited, sync, deviceVars, memory>>

\* launch_init_decode_outputs
LaunchInit ==
  /\ pc = "init"
  /\ \E ok \in BOOLEAN : Submit("init", ok)
  /\ IF lastError' THEN Return("failed") ELSE pc' = "malloc" /\ UNCHANGED results
  /\ UNCHANGED <<args, err, host, waited, sync, done, faulted, memory>>

\* Faulty variant of Malloc: its error is recorded but does not return.
MallocGoesOn ==
  /\ pc = "malloc"
  /\ \/ Api(FALSE) /\ results' = Append(results, "failed")
     \/ Api(TRUE) /\ results' = results
  /\ pc' = "memset" /\ cell' = "junk"
  /\ UNCHANGED <<args, err, host, waited, sync, deviceVars, out, grad, due>>

\* validate_variable_metadata_on_device, from cudaMalloc to cudaFree
Malloc ==
  /\ pc = "malloc"
  /\ \/ /\ Api(FALSE) /\ Return("failed")
        /\ UNCHANGED cell
     \/ /\ Api(TRUE) /\ pc' = "memset"
        /\ cell' = "junk"
        /\ UNCHANGED results
  /\ UNCHANGED <<args, err, host, waited, sync, deviceVars, out, grad, due>>

\* Faulty variant of CheckStep: an error returns at once.
CheckStepReturns(at, kind, next) ==
  /\ pc = at
  /\ \E ok \in BOOLEAN : Submit(kind, ok) /\ err' = ~ok
  /\ IF err' THEN Return("failed") ELSE pc' = next /\ UNCHANGED results
  /\ UNCHANGED <<args, host, waited, sync, done, faulted, memory>>

\* An operation of the check: the first that fails leads straight to the end.
CheckStep(at, kind, next) ==
  /\ pc = at
  /\ \E ok \in BOOLEAN :
       /\ Submit(kind, ok)
       /\ err' = IF kind = "validate" THEN lastError' ELSE ~ok
  /\ pc' = IF err' THEN "free" ELSE next
  /\ UNCHANGED <<args, results, host, waited, sync, done, faulted, memory>>

Memset == CheckStep("memset", "memset", "validate")
LaunchValidate == CheckStep("validate", "validate", "copy")
CopyStatus == CheckStep("copy", "copy", "wait")

\* cudaStreamSynchronize: it returns when the stream is empty, or an error.
Drained(ok) ==
  /\ Api(ok)
  /\ ok => queue = <<>>

AwaitStatus ==
  /\ pc = "wait"
  /\ \E ok \in BOOLEAN : Drained(ok) /\ err' = ~ok
  /\ pc' = "free"
  /\ UNCHANGED <<args, results, host, waited, sync, deviceVars, memory>>

\* cudaFree does not return while the stream may still use the memory.
FreeStatus ==
  /\ pc = "free"
  /\ queue = <<>>
  /\ cell' = "none"
  /\ Api(~faulted)
  /\ IF err THEN Return("failed")
     ELSE IF host # "ok" THEN Return("invalid")
     ELSE pc' = "launch" /\ UNCHANGED results
  /\ UNCHANGED <<args, err, host, waited, sync, deviceVars, out, grad, due>>

\* The kernel that does the work of a call.
Work(a) == IF a.entry \in Decodes THEN "decode" ELSE a.entry

\* The serial kernel writes no trace, so "full" has no large beams.
LaunchWork ==
  /\ pc = "launch"
  /\ IF Current.entry = "full" /\ Current.beam > FastMaxBeam
     THEN /\ Return("invalid")
          /\ UNCHANGED <<err, lastError, queue>>
     ELSE /\ \E ok \in BOOLEAN : Submit(Work(Current), ok)
          /\ err' = lastError'
          /\ pc' = "finish"
          /\ UNCHANGED results
  /\ UNCHANGED <<args, host, waited, sync, done, faulted, memory>>

\* Faulty variant of Finish: it takes the last error instead of peeking.
FinishTaking ==
  /\ pc = "finish"
  /\ IF err \/ lastError THEN Return("failed")
     ELSE IF sync THEN pc' = "sync" /\ UNCHANGED results
     ELSE Return("ok")
  /\ lastError' = FALSE
  /\ UNCHANGED <<args, err, host, waited, sync, deviceVars, memory>>

\* finish_cuda, up to the test whether to wait
Finish ==
  /\ pc = "finish"
  /\ IF err \/ lastError THEN Return("failed")
     ELSE IF sync THEN pc' = "sync" /\ UNCHANGED results
     ELSE Return("ok")
  /\ UNCHANGED <<args, err, host, waited, sync, lastError, deviceVars, memory>>

\* ... and from cudaStreamSynchronize on.
Synchronize ==
  /\ pc = "sync"
  /\ \E ok \in BOOLEAN :
       /\ ok => queue = <<>> /\ ~faulted
       /\ lastError' = (lastError \/ ~ok)
       /\ Return(IF ok THEN "ok" ELSE "failed")
       /\ waited' = IF ok THEN waited \cup {Len(args)} ELSE waited
  /\ UNCHANGED <<args, err, host, sync, deviceVars, memory>>

HostStep ==
  \/ CheckGrid \/ LaunchInit
  \/ Malloc \/ Memset \/ LaunchValidate \/ CopyStatus \/ AwaitStatus \/ FreeStatus
  \/ LaunchWork \/ Finish \/ Synchronize

\* dbs_cuda_set_synchronization, called by any thread.
SetSynchronization ==
  /\ sync' = ~sync
  /\ UNCHANGED <<hostVars, lastError, deviceVars, memory>>

-----------------------------------------------------------------------------
Init ==
  /\ args = <<>> /\ results = <<>>
  /\ pc = "idle" /\ err = FALSE /\ host = "failed" /\ waited = {}
  /\ sync = TRUE
  /\ lastError = FALSE
  /\ queue = <<>> /\ done = {} /\ faulted = FALSE
  /\ cell = "none"
  /\ out = <<>>
  /\ grad = [j \in 0 .. GradCount - 1 |-> 0]
  /\ due = grad

Next ==
  \/ \E a \in Arguments : Begin(a)
  \/ HostStep
  \/ DeviceStep
  \/ Fault
  \/ SetSynchronization

Spec == Init /\ [][Next]_vars

\* A step the host thread takes without the runtime giving up on a wait: a
\* synchronization may end in an error at any time, and need never do so.
UnaidedStep == HostStep /\ (pc \in {"wait", "sync"} => queue = <<>>)

\* The host thread runs, and the device works its stream off.
FairSpec == Spec /\ WF_vars(UnaidedStep) /\ WF_vars(DeviceStep)

-----------------------------------------------------------------------------
(***************************************************************************)
(* Properties.                                                             *)
(***************************************************************************)

Kinds == {"init", "memset", "validate", "copy", "decode", "build", "scatter"}

(***************************************************************************)
(* The state is one of a stream, a host thread and their buffers; the      *)
(* first operation has parts left, and the host thread is within a call    *)
(* exactly when one call has no result yet.                                *)
(***************************************************************************)
TypeOK ==
  /\ pc \in {"idle", "grid", "init", "malloc", "memset", "validate", "copy",
             "wait", "free", "launch", "finish", "sync"}
  /\ Len(args) = Len(results) + (IF pc = "idle" THEN 0 ELSE 1)
  /\ Len(out) = Len(args)
  /\ \A c \in DOMAIN results : results[c] \in {"ok", "invalid", "failed"}
  /\ {err, sync, lastError, faulted} \subseteq BOOLEAN
  /\ host \in {"ok", "invalid", "failed"}
  /\ cell \in {"none", "junk", "ok", "invalid"}
  /\ waited \subseteq DOMAIN results
  /\ \A n \in DOMAIN queue : queue[n].kind \in Kinds /\ queue[n].call \in DOMAIN args
  /\ IF queue = <<>> THEN done = {} ELSE done \subseteq Parts(Head1) /\ done # Parts(Head1)

Pending(c) == \E n \in DOMAIN queue : queue[n].call = c

\* The outputs of a decode: every slot of every example is the example's own,
\* and the rest of the dense buffers is filled.
DenseOutputs(c) ==
  LET a == args[c]
      Promised(slots, x) == IF x \in slots THEN x ELSE Fill
  IN  /\ \A x \in Example \X (0 .. Steps - 1) \X (0 .. a.beam - 1) :
           out[c].tokens[RowMajor(<<Batch, Steps, a.beam>>, x)] = Promised(TokenSlots(a, x[1]), x)
      /\ \A x \in Example \X (0 .. a.beam - 1) :
           out[c].scores[RowMajor(<<Batch, a.beam>>, x)] = Promised(ScoreSlots(a, x[1]), x)
      /\ a.entry = "full" => out[c].traces = out[c].tokens

\* A decode whose slot numbers all fit in int.
Countable(a) == TokenCount(a) <= IntLimit

(***************************************************************************)
(* Whoever has waited, or finds the stream past the call, has the outputs  *)
(* that dbs_cuda.h promises after status ok: each slot of [B, T, K] and    *)
(* [B, K] holds what was decoded for it, padding is filled, and an example *)
(* with invalid metadata is never decoded, whatever the timing of the      *)
(* threads that check it.  A refused call has decoded nothing.             *)
(***************************************************************************)
OutputsAsPromised ==
  \A c \in DOMAIN results : args[c].entry \in Decodes =>
    /\ results[c] = "ok" /\ Countable(args[c])
         /\ (c \in waited \/ (~Pending(c) /\ ~faulted))
       => /\ \A b \in Example : ~InvalidMetadata(args[c], b)
          /\ DenseOutputs(c)
    /\ results[c] = "invalid" =>
         \A i \in DOMAIN out[c].tokens : out[c].tokens[i] \in {Junk, Fill}

(***************************************************************************)
(* On every path through validate_variable_metadata_on_device, device      *)
(* memory for the answer is released before the call goes on, and not      *)
(* while an operation on it may still run.                                 *)
(***************************************************************************)
StatusCellReleased ==
  /\ pc \notin {"memset", "validate", "copy", "wait", "free"} => cell = "none"
  /\ \A n \in DOMAIN queue :
       queue[n].kind \in {"memset", "validate", "copy"} => cell # "none"

(***************************************************************************)
(* When no scatter is under way, the gradient is what all scatters so far  *)
(* owe it: a duplicate index counts as often as it is listed, an index out *)
(* of range not at all, and a traced decode contributes each selected slot *)
(* once, with the draw of its beam.                                        *)
(***************************************************************************)
GradientDue ==
  ~faulted /\ ~(Running("scatter") /\ done # {}) => grad = due

(***************************************************************************)
(* Peeking leaves an error where it is, so a failure is not lost: after a  *)
(* call that failed in the runtime, which may have been enqueued without   *)
(* its outputs ever being written, no call that asks the runtime is ok.    *)
(***************************************************************************)
FailureSticks ==
  \A c, d \in DOMAIN results :
    c < d /\ results[c] = "failed" /\ results[d] = "ok"
    => args[d].entry = "scatter" /\ args[d].from = 0 /\ args[d].list = <<>>

\* Every call returns: no failure leaves the host waiting for the device.
CallsReturn == pc # "idle" ~> pc = "idle"
=============================================================================
