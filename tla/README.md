# Verification of differentiable-beam-search

TLA+ models of the decoder in `src/src/differentiable_beam.cpp`, checked by TLC
on small instances and, where it matters most, proved by TLAPS for every value
of the constants. Line numbers refer to that file unless another one is named.

## 1. The system

The library decodes sequences with beam search. A caller supplies a
`[T, K, V]` tensor of log-probabilities (steps, beams, vocabulary); the decoder
keeps K hypotheses, replaces them at each step by the K best of their
continuations, and exports everything a gradient needs: the selected row, a
larger *relaxed pool* of P >= K candidates, and soft weights for both.

| Component | State it keeps | Operations | What makes it correct |
|---|---|---|---|
| Candidate order and top-P buffer (253-383) | the buffer of one step | `candidate_better`, `insert_topk` | holds the best P of what was offered, sorted, whatever the order of the offers and the ties |
| Hard decoding (476-549, 882-1233, 1388-1672, 1796-1857) | scores, lengths, end flags and prefixes of the K beams; the buffer; the result so far | one step: reset, scan each beam's row (scalar, constrained or vector kernel), carry finished beams, select, swap | it is beam search: every selected row is the best K of all legal continuations; no duplicate, no lost hypothesis; constraints hold of what comes out |
| Result (2188-2224, 3894-4102) | immutable | `build_sequences`, order check, accessors, JSON summary | rebuilt sequences are the decoder's prefixes; the order check accepts what the decoder returns |
| Batch decoding (3588-3780) | per call: atomic index, result slots, first exception, threads; per thread: kernel override | spawn, fetch, decode, catch, join, rethrow, publish | each item once; all results or none and an error; no thread outlives the call |
| Handle API (3049-3143, 3229-3357, 4136-4211) | `last_error` and statistics, each under its mutex; allocator counters | every call records one outcome | message, category and statistics tell of the same call |
| Model-step decoding, workspaces (3192-3227, 3485-3586) | workspace buffers under a mutex | callback per step, partial decode, final decode | the callback sees the hypotheses that the final decode follows; no self-deadlock |
| Soft outputs (404-475, 1272-1386) | none | softmax, bisection for a soft top-k threshold | weights in [0, 1] that sum to k within the tolerance, as long as the scores leave the threshold finite |
| Backward passes (1674-2186) | none | dense and sparse gradients through the parents | both forms give the same gradient |
| Kernel selection (551-640) | thread-local override | override, runtime detection | kernels agree on the outcome |
| CUDA kernels (`src/cuda/dbs_cuda.cu`) | shared memory of a block | serial and fast forward kernel | same order of ties as its serial form, independent of thread timing |
| CUDA host functions (same file) | the stream, the runtime's last error, device memory for the metadata check, output buffers, a switch for synchronization | launch, check metadata on the device, build and scatter sparse gradients, wait | after status ok the outputs are those promised; no failure leaks, hangs or is forgotten |
| Python and JAX bindings (`src/python`) | handle and result of an autograd node | forward, backward, close | each C object freed once and never used after, on every path |

How they interact: `decode_constrained` calls `insert_topk` for every candidate
and `build_sequences` at the end; the batch functions run it in several threads
(the fixed form on one shared, immutable decoder; the variable form on a decoder
per item) and report through the handle; the model-step function runs it once
per step on a growing prefix; the backward passes read the result only. The
bindings create, call and free through the C API; the torch binding leaves
handle and result to an autograd node between its two calls. The CUDA functions
share nothing with the CPU decoder but their meaning; they share the stream, the
runtime's error and the caller's buffers with each other.

What is hard here: ties (three sources of order: the loops, the comparison, the
vector threshold), rounding that makes ranks tie though raw scores differ,
values that share -infinity (dead beams, placeholders, masked tokens,
saturated sums), state reused from step to step, constraints enforced in
several places; in the batch functions interleaving, partial failure and
thread-local state; in the CUDA functions work that runs after the call has
returned, and errors that appear later still; in the bindings exceptions between
any two calls. The list, line by line, is `hazards` in `PROJECT.json`.

## 2. Modules

| Module | Models | Uses |
|---|---|---|
| `Candidates` | `Candidate`, `candidate_better`, the buffer and `insert_topk` as one step; what "holds the best" means | |
| `TopKBuffer` | abstract: a buffer that takes one offer per step | `Candidates` |
| `TopKInsert` | `insert_topk`, one action per loop iteration | implements `TopKBuffer` |
| `BeamCore` | beams, constraints, continuations, what a selected row becomes | `Candidates` |
| `BeamSearch` | abstract: a step replaces the beams by the best K of all continuations | `BeamCore` |
| `BeamDecode` | `decode_constrained` and its scans, one action per loop body | implements `BeamSearch` |
| `BeamResult` | `build_sequences` and the order check | `BeamDecode` |
| `BatchPromise` | abstract: a call returns all results, or none and an error | |
| `BatchDecode` | `dbs_decode_batch`, `dbs_decode_batch_variable`: caller and workers | implements `BatchPromise` |
| `CudaForward` | `dbs_forward_fast_kernel` with its lanes and barriers, `dbs_forward_kernel` | implements `BeamSearch` |
| `CudaCalls` | the host functions of `dbs_cuda.cu` on one stream, and all other kernels, thread by thread | |
| `SoftWeights` | `soft_topk_inclusion`: the bisection and the weights it writes | `BeamResult` for the pools |
| `Ownership` | who owns handles, results and backward results, in the bindings; the byte count of the allocator | |
| `Backward` | `backward`, `backward_sparse`, with the scatters and `finalize_sparse_entries` | `BeamCore` for the decode |
| `HandleApi` | concurrent calls of the C API on one handle and one workspace, `dbs_decode_model_steps_with_workspace` in detail | |
| `BeamDecodeProofs` (with `Candidates`, `TopKInsert` and `SoftWeights`), `CudaForwardProofs`, `BackwardProofs`, `BatchProofs`, `HandleProofs`, `CudaCallsProofs`, `OwnershipProofs` | theorems | the modules above |
| `SumProofs` | lemmas on sums over finite sets | the proofs of ownership, backward passes, soft weights and CUDA calls extend it |
| `MCBeamValues` | log-probabilities, ranking functions and constraints that several instances share | `BeamCore` |
| `MCTopKInsert`, `MCBeamDecode`, `MCBeamResult`, `MCSoftWeights`, `MCCudaForward`, `MCCudaCalls`, `MCBackward` | data of the TLC instances | the modules above |

### From the code to the models

*Floats.* A score is an integer between `NegInf` and `PosInf`, which stand for
the infinities; sums saturate. A log-probability `NegInf` stands for every
non-finite value, since the scans test `std::isfinite` and skip them alike. The
ranking functions are constants: `Rank(raw, length)` for a scan, which
multiplies by a rounded reciprocal, and `CarryRank` for a finished beam, which
divides. With a length penalty the instances round both to the integer grid, in
different directions: distinct raw scores then share a rank, as products of
rounded floats do. Only the instance's range is artificial; no property depends
on which pairs tie.

*The buffer.* `TopKInsert` has the early return (`Reject`, `Enter`), the binary
search (`Probe`, `Locate`), the shift and the store. `Candidates!Insert` is the
whole call as one step, which `BeamDecode` uses; that the two agree is
`ImplementsBuffer`.

*A step of the decoder.* `BeginStep` resets the buffer and reads the step's
rows; `SkipDead`, `CarryFinished` and `ScanToken` are the three ways through
the loop over beams; `Select` is the tail of the step, copies and swaps
included. A beam is a record of what the code keeps in four arrays. The rows of
dead and finished beams are pinned to `NegInf` because the code never reads
them. `DecodeConstraints` is a record; a token filter is the set of steps,
prefixes and tokens for which it answers no (its other arguments, the example and
the parent's slot, are left out, so a filter that looks at them is not among the
instances); null pointers are the empty set and -1. A ban mask that bans nothing
is the null pointer here, although the code scans such rows one token at a time:
without a length penalty the two scans agree (`DecodePoolHoldsBest`).

*Kernels.* `Width`, `MaskedTail` and `Block` describe the kernel. `Width = 1` is
the scalar loop, also used by NEON builds. A vector kernel compares `Width`
lanes with the last slot's score as it was before any of them (`Threshold`),
leaves what does not fill a vector to scalar iterations (SSE4.2, AVX2) or to a
masked vector (AVX-512, `MaskedTail`), and hands constrained rows to the scalar
loop (`VectorRow`). The instances use a width of 2 and blocks of 3 where the
code has 4 to 16 and at least 16: what matters is that a row has several
vectors, a tail, and lanes that change the buffer under their own threshold.

*Results.* `BeamResult` only adds operators over the states of `BeamDecode`:
`BuildSequence` walks parents and tokens as `build_sequences` does, `OrderFault`
is the comparison of `dbs_result_validate_deterministic_order`.

*Batches.* The caller is a program counter `main` and the workers one `pc` each.
An item's decode is one step that may throw (`DecodeThrows`, with the category
`classify_exception` would give): the decodes share no state that is written.
A result is the kernel that computed it, because that is what differs between
threads. `AbandonCall` stands for everything that may throw before the first
thread runs, `SpawnFails` for a thread that cannot be started later, which ends
the process. Two locks are absorbed: the one around `first_exception`, held for
one statement (`KeepException`), and those of the handle, since one call at a
time uses the handle here (concurrent calls are in `HandleApi`).

*CUDA.* `CudaForward` chooses at the start between the block of
`dbs_forward_fast_kernel` and the one thread of `dbs_forward_kernel`. A lane has
its position `pc`, its loop indices and its list; the shared arrays are `prev`
and `cand`. `__syncthreads()` is `Sync`, which needs every lane of the block at
a barrier; lanes that wait may be told apart, so that a lane at the wrong
barrier is visible. Shared memory is not initialised: `prev` begins as any
beams. `hyps` is history: the tokens followed along the parents, as a reader of
`tokens_out` and `parents_out` would (the serial kernel writes no parents). The
kernels have their own order, without raw score, their own placeholders, whose
sentinels are larger than any index, and two ways to insert, from the back and
from the front. A step's rows are drawn when its scan begins. A sum that
overflows to -infinity leaves its parent and token in the slot where the CPU
leaves -1; the slot is a dead beam in both, and is compared as one (`Beams`). A sum
that overflows to +infinity outranks all others in both, and is compared as it is.

*CUDA calls.* In `CudaCalls` one host thread makes calls on one stream; the
device works the stream off whenever it likes, before or after a call returns.
An action of the host is what lies between two calls of the runtime, each of
which may fail (`Api`, `Submit`). An action of the device is what one thread of
a kernel does between two points at which others could see it (`Parts`). A
kernel may fault (`Fault`), and then nothing runs any more and every later call
of the runtime fails. What a decode computes is in `CudaForward`; here a decoded slot is
the triple of its example, step and beam, and the question is which address it
reaches. `Address` wraps at `IntLimit` as `int` arithmetic does, to a negative
number, which stands for the undefined outcome; `OutputsAsPromised` asks nothing
of a decode that large, and the instance has one. `Arguments` lets a caller read
the outputs of an earlier call only if that call returned ok; the fast, full and
fast_ex entries share their code after the checks. A null metadata array means
the default for each example, so an instance of metadata stands for both, and the
environment variables that force synchronization act like the switch
(`SetSynchronization`), which any thread may turn in the middle of a call. The
error of the runtime is one flag, `lastError`: the code only peeks at it, so it
stays. External, from the runtime's documentation and the code's reliance on it:
operations of a stream run in order, `cudaFree` waits for the device,
`cudaMemcpyAsync` to pageable memory is waited for by the synchronization that
follows it.

*Soft weights.* `SoftWeights` adds operators over the pools of `BeamDecode`, as
`BeamResult` does. Scores and threshold lie on a grid with `Unit` points to a unit
of score, and the sigmoid is a ramp that saturates `Reach` points from its middle:
of the real one the bisection uses only that it rises from 0 to 1. `Stops` has
the tolerance and the width at which the bracket is left, which is relative to the
threshold and never less than a grid point (`NarrowAt`); `Theta` is the whole
loop, a recursive function that stays put once the bracket has collapsed, as the
loop ends there. The early branch for pools that are no larger than the beam
gives weights of 0 and 1 (`Inclusion`). A score at or below `NEG_GUARD` (-1e30) has
no weight, though it may be finite (`Active`).

The grid ends at `PosInf`: sums beyond are infinite (`GridAdd`), as the upper end of
the bracket is with an infinite score, and as the sum of its ends is, before it is
halved, when they are beyond half the range of a float. The threshold is then
infinite and every weight is 0. That includes the candidates with an
infinite score, whose argument to the sigmoid is not a number: the clamp of
`safe_exp_scalar` (262-265), `std::max` and then `std::min` with the constant
first, makes it the lowest argument, and the vector form does the same, so the
weights written are around 1e-38, which is 0 on the grid. The margin of
80 temperatures around the scores is assumed to be finite (`GridAssumption`).

*Ownership.* An action of `Ownership` is a call into the library or the
statements between two of them, and each may throw (`Throw`, with the position,
since the handlers of `final_scores_backward` cover its return statement too).
`h`, `r` and `b` are a function's local pointers, `node` the autograd nodes with
their `_DBSState`, whose finalizer runs when it is closed or collected
(`Finalized`, `Collect`). Objects are numbered as they are made and numbers are
not used again, so that a stale pointer is visible: `misuse` records each call that
is passed one. `bytes` is `g_allocator_bytes`; allocations in a call in progress
are in `scratch`. `dbs_allocator_counters_reset` is one action, possible at any
time. The two functions of `jax_dbs.py` create, call and free in one `try` and
`finally`, on paths that "scores" and "gradient" have too.

*Backward passes.* `Decode` keeps the pool of each step, of which the first K
slots are the selected row. `ScatterSelected` and `ScatterRelaxed` are the loop
bodies, `StepBack` the swap with the fill that begins the next step, `Sort`,
`Merge` and `FlushLast` the three parts of `finalize_sparse_entries`. Gradients
are integers. What softmax, sigmoid, temperatures and the length penalty make of
a caller's gradient concerns one slot, so each slot's local gradient is an
arbitrary number (`Upstream`), with one exception: with no more live slots than
beams all weights of the soft top-k are 1 or 0 and no gradient passes
(`RelaxedGradient`). A null pointer is a gradient of zeros. `PathGradient` is the
reference: a raw score is a sum along a path, so a slot's gradient belongs once to
each log-probability on its path.

*Handle and workspace.* In `HandleApi` an action is what a thread does under one
lock; each call is a number, which stands for its message, its statistics and the
rows its model writes. A decode is one step that may throw, as it reads only its
arguments. A workspace row is the call whose model wrote it, or -infinity; beams
shown to the model are identified by the rows they were decoded from (`Prefix`),
because a decode of the first m rows is the beginning of a decode of more. The
model may leave its row as it is, and may fail at every step; every decode may
throw; the buffers may not fit. An exception releases the workspace before the
error is recorded (`Unwind`), a success after the message is cleared (`Unlock`):
that is where `lock_guard` ends in the two cases.

## 3. Runs

| Run | Instance | Shows |
|---|---|---|
| `TopKInsert` | 4 slots, 7 candidates that tie on score, raw score or parent, one that ties with the placeholder | every order of offers: sorted best-P list between calls, refinement of the one-step buffer, bounds of the loops, termination |
| `BeamScalar` | scalar kernel, K=2, P=3, V=3, T=3, length penalty, log-probabilities {-inf, -5, 5} of which two overflow, downwards or upwards | refinement of beam search; hypotheses distinct, of the right length, rebuilt from parents and tokens, frozen once finished |
| `BeamVector` | width 2 with scalar tail, K=2, P=3, V=3, T=3, minimum length 2, no length penalty, every kind of constraint and combinations, log-probabilities {-inf, -1, 3} of which two 3s make +infinity | the vector threshold loses nothing; constraints (the n-gram ban and a filter that asks for step and prefix included) hold of the hypotheses; the order check accepts every decode; the soft weights of every pool add up to the beam size, or are all 0 because the threshold is infinite |
| `BeamVectorPenalty` | width 2, masked tail, length penalty | *violation*: see finding 1 |
| `ResultPenalty` | scalar, length penalty | *violation*: see finding 2 |
| `BatchThreads` | batches of 1 and 3, 1 to 3 threads, two error categories, both functions | items once, no surviving worker, index overshoot, refinement of the all-or-nothing call, return |
| `CudaForward` | two lanes, K=2, V=3, T=2, log-probabilities {-inf, -5, 5} of which two overflow, downwards or upwards, minimum length 0 and 2 | no race between the barriers, refinement of beam search by both kernels, no lane left at a barrier |
| `CudaCalls` | two examples, two steps, beams 0 to 4, valid metadata and one of each invalid kind, lists with a duplicate, a sentinel and an index past the end; three calls, of which two bring their own arguments | promised outputs, device memory released, the gradient owed, errors that stick, return; with failures of every runtime call and faults of every kernel |
| `Backward` | K=2, P=3, V=2, T=3, both forms, three decoders; a power of two per slot, and gradients that cancel | both forms return the derivative along the paths, nothing lost on the way; sparse entries in order, each index once, only where a candidate was extended |
| `HandleApi` | two threads, three calls, T=2 | rows and beams of a model-step decode are its own, lone calls are reported truthfully, calls return |
| `Ownership` | two threads, five objects, four functions, an exception at every statement, collection and resets at any time | one owner per live object, no misuse but two known cases, byte count balanced |
| `BatchArguments` | two calls | *violation*: see finding 3 |

*Bounds.* Three tokens and two beams suffice for a carry, an end token and an
ordinary token to compete; three steps let a finished beam be carried and an
n-gram return; P = 3 with K = 2 distinguishes the pool from the selected row.
Two lanes on three
tokens give one lane a stride of two tokens and the other a single one.
Three items on two or three threads let a fast worker take two items, two
workers throw at once, and more threads than remaining items overshoot.
`MaxCalls` bounds the number of calls: one is enough for the properties of a
call, since `BeginCall` resets all its state, and two for the stale category.
The backward passes are linear in the gradients, so a power of two for each slot
tells from every sum which slots it contains, and three steps let a gradient pass
both swapped buffers. In `HandleApi` three calls let a third one meet what a
failed and a concurrent call have left in workspace and handle.

In `CudaCalls` three calls (`MaxCalls`) are a decode, the construction of its
gradient and the scatter, or a call that meets the error or the gradient of an
earlier one; two of them may be requests (`MaxRequests`). `IntLimit` is 12: a
decode with a beam of 3 just fits and one with 4 overflows. The fast kernel takes
beams up to 2 and the serial one up to 4, so both paths of `dbs_cuda_forward` and
the refusal of a large "full" decode happen. Each draw is a power of two. In
`Ownership` five objects (`MaxObjects`) are a node and a gradient, or a node and two or
three backward passes through it, concurrent with the other thread. In `SoftWeights` a
unit of score has 8 points and a sigmoid saturates 6 points away, so that the
sigmoids of neighbouring scores overlap and those of distant ones do not; eight
halvings (`MaxIters`) reach one point from the widest bracket. Scores from -9 to 6
give pools with an infinite score, pools of finite scores whose bracket overflows,
pools beyond half the range whose bracket does not, and ordinary ones; `NegGuard`
is the sum of three ordinary log-probabilities, which has no weight any more, and
thresholds from 12 points on are far enough from 0 to widen the last bracket.

Deadlock checking is off because all these programs stop: a decode ends, the
candidates, calls or objects run out, or the process is terminated.

*Fairness.* `TopKInsert!InsertFairSpec` is fair to the loop bodies, not to the
caller: once called, a function runs. `BatchDecode!FairSpec` is fair to the
caller within its call and to each worker, which is what the operating system
gives runnable threads; nothing forces a new call. `CallReturns` therefore
says that a call returns if every decode does. `HandleApi!FairSpec` is fair to
every thread in a call, and so assumes that a caller's model answers; a thread
that waits for the workspace needs no more than weak fairness, since calls are
finite in number. `CudaForward!FairSpec` is fair to
every lane: the threads of a running block are all scheduled.
`CudaCalls!FairSpec` is fair to the host thread and to the device as a whole: the
stream is worked off in some order of the threads of a kernel. Failures and faults
may happen or not, and neither keeps a call from returning. A synchronization may
end in an error while the stream is not empty, but nothing relies on it: fairness
takes the host on from a wait only when the stream is empty or lost
(`UnaidedStep`), so a device that hangs is visible as a call that never returns.

*Faulty variants.* Definitions marked "Faulty variant of X" are not part of any
specification. Each is X with a plausible bug (a missing reset, an off-by-one, a
dropped lock release) and serves to show that a property fails when the code is
wrong: `mutants` in `PROJECT.json` lists which property each one breaks.

*Known cases in a passing property.* `LifetimesRespected` names two ways in which
the bindings pass a freed object as the code stands, and checks that there is no
third. A second backward pass through a retained graph: `backward` closes the
node's state in its `finally` (`src/python/torch_dbs.py:292`) and nothing marks the node as
used. An exception of the return statement of `final_scores_backward`, after
everything has been freed inside the same `try`
(`src/python/torch_extension.cpp:181-186`). No document promises otherwise, so
they are not findings. `FailureSticks` likewise states what the code does: since it
peeks at the runtime's error and never takes it, a call after a failed one reports
failure although its own kernel may have been enqueued and may run.

## 4. Findings

1. *A vector kernel may drop a better candidate* (`BeamVectorPenalty`). The
   vector scans test `rank > threshold` (930, 957, 1080, 1201), while
   `candidate_better` breaks a tie on the rank by the raw score. With a length
   penalty a candidate that ties with the last slot's rank and has a higher raw
   score is inserted by the scalar kernel and dropped by the vector ones, so
   kernels differ in the relaxed pool and, when P = K, in the hypotheses.
   `docs/VALIDATION.md:36` asks for bit-stable output across them.
2. *The order check rejects correct decodes* (`ResultPenalty`).
   `dbs_result_validate_deterministic_order` compares parents as soon as ranks
   tie (4055-4060) and ignores the raw score that the decoder ranks first, so
   it returns -4. Without a length penalty it never does (`BeamVector`).
3. *A stale error category* (`BatchArguments`). `dbs_decode_batch` refuses
   invalid arguments without `dbs_mark_error` (3598-3605); `last_error` is set
   and `last_error_category` keeps the value of the call before.

## 5. Theorems

All are proved for every value of the constants that meets the named `ASSUME`s,
which say what the constructor and the argument checks of the code guarantee.

| Theorem | States | Assumes in addition |
|---|---|---|
| `TopKTypeOK`, `TopKBestBetweenCalls`, `TopKImplementsBuffer` | the loops of `insert_topk` stay in bounds, keep the best P, implement the one-step buffer | |
| `DecodeTypeOK` | the scan stays in bounds, scores stay floats | |
| `DecodeDistinctHypotheses`, `DecodeLengthsMatch`, `DecodeConstraintsHonoured`, `DecodeFinishedFrozen` | no two live beams are the same hypothesis; lengths count it; minimum length, allowed tokens and the n-gram ban hold of it; finished ones are kept as they are or dropped; for every kernel, penalty and constraint | |
| `DecodeTraceMatchesPrefix` | parents and tokens followed back from a beam spell its hypothesis, as `build_sequences` assumes | |
| `DecodePassesValidation` | the library's order check accepts every decode | `RankIsRaw`: no length penalty |
| `DecodePoolHoldsBest`, `DecodeImplementsBeamSearch` | the pool is the best P of what was scanned; `decode_constrained` is beam search | `ExactScan`: scalar kernel, or no length penalty |
| `DecodeInclusionFillsBeam` | section 3's `InclusionFillsBeam`, for the pools of every decode, infinite scores included, and every grid | `EnoughHalvings`: `soft_topk_max_iters` halvings narrow the widest bracket to one grid step |
| `HandleTypeOK`, `HandleModelFollowsResult` | one thread at a time between lock and unlock; a model-step decode is computed from rows of its own model, which saw every prefix of them; for any number of threads, calls and steps | |
| `HandleLastCallReported` | message, category and statistics tell of the last call, if it met no other | |
| `BatchTypeOK`, `BatchEachItemOnce`, `BatchNoWorkerOutlives`, `BatchIndexBounded`, `BatchImplementsPromise` | section 3's `BatchThreads`, for any batch and any number of threads | |
| `CudaForwardTypeOK`, `CudaForwardBarriersSeparate`, `CudaForwardImplementsBeamSearch` | section 3's `CudaForward`, for both kernels and any number of lanes, beams, tokens and steps | |
| `CudaCallsTypeOK`, `CudaOutputsAsPromised`, `CudaStatusCellReleased`, `CudaFailureSticks` | section 3's `CudaCalls`, for any batch, steps, beams, metadata, threads, requests and number of calls, and any failure of the runtime | `RequestsAssumption`: what a caller brings is a decode or the scatter of a list of its own, and only the variable launch takes an array of metadata |
| `CudaGradientDue` | whenever no scatter is under way the gradient is what the scatters so far owe it, for any threads, lists, decodes and draws | `RequestsAssumption`; `FullCountable`: a traced decode the runtime takes has slot numbers that fit in `int` |
| `OwnershipLifetimesRespected`, `OwnershipOneOwner` | section 3's `Ownership`, for any number of threads, nodes and objects | |
| `BackwardTypeOK`, `BackwardGradientConserved`, `BackwardGradientFollowsPaths` | section 3's `Backward`, for both forms, any sizes, decode and upstream gradients | |
| `OwnershipBytesBalanced` | the allocator's count is what is in use less what was in use at its last reset, for any sizes | `ThreadAssumption`: the threads are finitely many |

`ExactScan` cannot be dropped: `BeamVectorPenalty` is a counterexample without
it. Nor can `RankIsRaw`, as `ResultPenalty` shows: the order check compares parents as
soon as ranks tie, which is the decoder's order only where the rank is the raw score.

*The arguments.* `BeamDecodeProofs` first shows that `Better` is a strict total order
on candidates (irreflexive, transitive, two candidates that differ are ordered),
and that inserting at the first beaten slot keeps `HoldsBest`. The invariant of
`TopKInsert` says what the bracket of the search has excluded so far, and that
the buffer with the hole of the shift filled in (`DecidedTop`) is the abstract
buffer. For the decoder, `TypeInv` adds to `TypeOK` that a candidate's parent and
token are in range (or -1), without which the swap would index outside the
beams; `PoolInv` adds that the pool holds the best P of `Scanned`, that scanned
candidates have distinct (parent, token), and that a vector's threshold is no
better than the last slot is now: a lane it turns away would also be turned away
by `insert_topk`, which is where `ExactScan` enters (equal ranks mean equal raw
scores, and the later token loses). A pool that is the best P has the best K in
front, which gives the refinement.

What the decoder's hypotheses are needs less: `RowInv` says that the pool is sorted,
has no duplicate (parent, token) and holds only what was scanned; it holds whatever a
vector scan drops, since it says nothing of what is left out. A scanned candidate carries a
finished beam or extends an open one by a token the constraints allow (`ScannedLegal`).
`HypothesisInv` follows over the steps: two live slots of a selected row differ in
parent or token, and the hypotheses they extend differ already, so the new ones do. A
carry adds no token, and a carried hypothesis is shorter than any extended one. `TraceInv` relates the exported rows to the prefixes: a path is a
function that solves the recursion of `Path`, each step of the decoder extends the
paths to the row before by one place (`PathExtended`), and every path spells the
hypothesis of its beam and then only end tokens. `OrderInv` says that every exported row
is in the order of `Better` with rank and raw score equal, from which the library's
check follows.

The soft weights are a function of a pool, so their theorem needs of the decoder only its
types. From one finite theta to a higher one the sum of the shifted sigmoids falls by at
most P for each grid point (`SumFalls`), and it is too large at the lower end of the first
bracket and too small at the upper (`FirstBrackets`). So a bracket either still has the
threshold between its ends or has collapsed to a theta that will do or is infinite
(`Brackets`), and a halving keeps it so (`HalveBrackets`). Its upper end never exceeds the
margin around the highest score unless it is infinite, so the middle is infinite only if twice that
margin is beyond the grid (`MiddleOfBracket`, `MayOverflow`); and an infinite score keeps
the upper end, hence every middle, infinite. `EnoughHalvings` cannot be dropped: after too few
iterations theta is the middle of a bracket about which nothing is known. It is a
condition on constants, which the instance `BeamVector` just meets; the code's default of
48 iterations is enough for scores of ordinary size, not for a bracket as wide as the
floats.

For batches, `IInv` says that every item below
the index is decoded or held by exactly one worker, that a worker which has left
the loop has seen the index pass the end, and that an item decoded without a
result means an exception is kept or being kept. When the caller has joined
everyone the first two give `EachItemOnce`, the third `ImplementsPromise`. The
index is at most the batch size plus the number of workers that have left the loop
(`CountInv`), and those are among the threads that were started. For
model-step decodes, `TypeOK` says that the holder of the lock is exactly the thread
between lock and unlock, and `RowsInv` what each thread there may rely on: the rows
are its own or -infinity, its model has seen the prefixes of the rows as they are
now (a later row does not change them: `PrefixKeeps`), and the beams in `i32` belong
to the rows so far. Others cannot disturb it, since they are not in the workspace.
`ReportInv` follows a call through the three critical sections in which it reports:
what it has told its own thread (`Told`), which nobody disturbs, and what it has written
to the handle by each position if it was alone so far (`Written`), which every step of
another thread would make untrue and none can take.

`KernelInv` of `CudaForward` is organised by the barriers. `PhaseInv` says where the other
lanes may be for each position of lane 0; no lane is ever on both sides of one barrier,
which is `BarriersSeparate`. `IndexInv` bounds the loops, `BeamInv` says that
lengths and end flags in shared memory fit the step, and `ListInv` that each
list is sorted and holds the best K of what its lane has passed: the live continuations
with a token of the lane's stride up to where its loops stand. The merge works on this:
the best K of a union are among the best K of each part, so a list that has taken in
the other lanes' lists and the carries holds the best K of all of them
(`BestOfBest`). Which lane came first never enters, as the lists partition the
continuations by token. A candidate of the kernel is mapped to one of `Candidates`
(`CandidateOf`); the orders agree on live candidates with different parent or token
because the rank is the raw score there, and the slots that overflowed downwards are
mapped to the placeholders that the abstract row ends with.

For the CUDA calls, `ErrorInv` says that a failed call and the host's own `err` both
imply the runtime's error, and that a call waits for its stream only while there is
none; so a call that returns ok does so without an error, and none before it failed
in the runtime. The one exception is in the property: the scatter of an empty list
returns before it asks. `CellInv` says that the cell exists exactly between
`cudaMalloc` and `cudaFree` and that enqueued operations on it imply it does; `cudaFree`
needs an empty stream, which is the external assumption that carries the proof.

What the outputs hold takes two more layers. `ShapeInv` says which arguments a call
that goes on can have, that its buffers have a slot for every cell, and that the first
operation has parts left; `TypeOK` follows. `OutInv` then follows the contents.
`Held(a, tokens, scores, S)`: with the examples of S decoded, every cell of theirs is in
its own slot, and for the variable launch every other cell is filled. It needs the
arithmetic of slots: places are in range and no two cells share one
(`TokenSlotInRange`, `TokenSlotUnique`), so one example's block disturbs no other's.
`QueueInv` keeps it for each decode on the stream, with the examples that have run, and
says that nothing fills a call after its decode; `CallInv` for the calls, from the moment
the runtime has taken the decode. That a call gets there with valid metadata and filled
buffers is `StageInv`: the four operations of the check come last on the stream, in
order, and with each of them through something more is certain, filled buffers, a cell
that is set, that holds the verdict on the examples looked at, that has been copied. The
operations of earlier calls may run in between. A fault ends what is certain of calls
still on the stream, not of those the caller has waited for (`waited`).

`GradInv` has three parts. `LinkInv` says who reads whom: a gradient kernel the output
of an earlier traced decode, a scatter that of an earlier gradient kernel, both with status
ok, and the stream is in the order of the calls, so what is read is complete when the
reader begins. `BuildInv` says which entries the gradient kernel has made: those of the
cells whose lane is through, each with the draw of its beam, which the kernel writes before
the barrier. `SumInv` says that while a scatter runs the gradient lacks, at each index, just
the entries that are left (`Amount`). What is owed is defined over the decoded slots and
what is added over the entries of a list. Their sums agree because slot numbers map the
cells one to one to the places of the list (`TotalRenamed`) and a cell that selected
nothing has an entry that counts nowhere (`TotalSelected`). The map is one to one
only while slot numbers fit in `int`, so `FullCountable` cannot be dropped.

For ownership, `OwnInv` partitions the live objects: `Owns(p)` is what a thread is going
to free and `Finalized(n)` what a node is; they are live, they cover the live objects,
and no two share one. Six lemmas say how a step may change such a partition (make, keep,
free, close, collect, hand over), and each action is one of them. `Shape` says which
pointers a thread has at each position, and `ShapeInv` that a function which has
released everything (`Gone`) holds stale pointers only, which is where the two known
cases come from.

The byte count is about sums over the live objects and over the threads. A sum is a fold,
that is, the value at a set of a function defined by recursion on its subsets.
`SumsExist` shows that there is such a function (by induction over cardinalities, with
the numbers for which it holds as a set, as the provers instantiate no induction theorem
that takes an operator), `SumsAgree` that two of them agree where their terms do, and
`SumsRemove` that it does not matter which element is taken first. From there sums can be
split (`TotalSplit`) and changed in one term (`TotalChange`). `ByteInv` adds to
`BytesBalanced` what each thread has taken at each position (`Taken`): what a call takes
as it begins is what it hands out and gives back at its end.

For the backward passes, each selected or relaxed slot that a gradient enters by is a
source: a record of step, slot, kind and gradient (`SourceFields`: they are finitely many,
and no two differ in the gradient alone). A source's path is a function that solves the
recursion of `PathTo`; it exists (`PathExists`, by induction over the steps), is what the
model's definition stands for, and passes each log-probability at most once, since the
index of one tells its step (`PassesOnce`). On its way the source is at one place at a
time. `Arrived` is the set of those whose gradient has come to step t, by now, `CameTo`
those of a set whose path has a given beam at a given step, `Spread` those whose path has
passed a given log-probability by now. `FlowInv` says that `prev` of a beam is the sum of
those arrived that go to it from t, `next` of those that went to it from t + 1, and the dense gradient or the
unsorted entries of `Spread`; at the end the row that is returned is what came to step 0. Each scatter adds one source, or moves all sources of
one beam to its parent, and the two lemmas `ScatterFlow` and `SelectedArrives` (with
`RelaxedArrives` and `SwapArrives`) say how the sets change. A source without a parent, or
with no gradient, is in no set and in no sum. `GradientConserved` is the sum of `prev` and `next`
over the beams, family by family (`WaitingAt`). For the sparse form, `SortingOrders` shows that
placing each entry behind those that precede it is a sorted permutation, so no index's value
changes (`SortingKeepsValues`), and `MergeInv` that what has been written, what is being
added up and what has not been read give the value at each index, in order.

*Only model-checked:* liveness (`CallReturns`, `CallsReturn`, `KernelFinishes`), which is
out of the prover's reach. Every other property of a passing run is proved.

## 6. Not modelled, and plan

*Floating-point arithmetic* itself is left to the numeric tests of the repository:
the softmax of the selected row (404-475), the vector forms of exponential, sigmoid
and their sums, and the conversions of fp16 and bf16. Positive log-probabilities
that overflow to +infinity are in `BeamScalar` and `BeamVector`. With more candidates
than beams a score of +infinity, or scores beyond half the range of a float, leave
the relaxed pool without soft weights instead of k of them: `InclusionFillsBeam` says
so as an exception. No document of the repository promises more of such scores, so it is not
listed as a finding.

*Handle API.* In `HandleApi` the models make no calls of their own: one that uses
its own workspace deadlocks, by the contract of `std::mutex`. Overlapping calls on
one handle may mix their reports, message of one with category of another: the code
takes the two locks separately and promises nothing, so `LastCallReported` is
about calls that met no other. Not modelled: the pointer `dbs_last_error` returns,
which a concurrent call may invalidate; the allocator's counter of calls; the seed, which
no decode reads. A workspace whose buffer does not fit fails with one category, though
`assign` has two ways to throw. The per-example options of the variable batch (3746) are not
in `BatchDecode`, where an item's decode is one step.

*CUDA.* Several host threads on several streams, and the stub library, whose functions
return one constant. `torch_cuda_extension.cpp` only wraps the calls of `CudaCalls` in
tensors that the framework owns; its own routing between them and the framework's
top-k is not modelled.

*Bindings.* An exception between making a node's state and clearing the local handle, or
before the `try` of the Python forward pass (torch_dbs.py:233), is not among the positions of
`Throw`. Checks and conversions of tensors in Python, and the JAX binding beyond what
it shares with the torch one.

Kernel selection, tests, benchmarks, examples, scripts and packaging are not
modelled: the first is a constant of `BeamDecode`, the others are not part of the
running system.

Order of what follows, most important first:

1. Per-example options of the variable batch as part of `BatchDecode`.
2. Models that call the API, in `HandleApi`.
3. Several host threads in `CudaCalls`, which share the runtime's error and the switch.

New questions about a module join the run of that module where the instance
allows.
