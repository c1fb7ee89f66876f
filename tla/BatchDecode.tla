------------------------------ MODULE BatchDecode ------------------------------
(***************************************************************************)
(* dbs_decode_batch and dbs_decode_batch_variable: the calling thread      *)
(* spawns workers, which take items from a shared atomic index, decode     *)
(* them into disjoint slots and keep the first exception; the caller joins *)
(* them and publishes all results or reports that exception.               *)
(*                                                                         *)
(* A result is abstracted to the kernel that computed it: the kernels      *)
(* break ties differently, and the one to use is thread-local.             *)
(***************************************************************************)
EXTENDS Integers

CONSTANTS
  Kernels,     (* the kernels a thread may have selected                   *)
  Default,     (* the one a new thread starts with                         *)
  Sizes,       (* the batch sizes callers pass, zero and less included     *)
  Requests,    (* the num_threads callers pass                             *)
  Hardware,    (* std::thread::hardware_concurrency(); may be 0            *)
  Failures,    (* the error categories a decode may fail with              *)
  Variants,    (* "fixed" and "variable": which of the two functions        *)
  MaxCalls,    (* bound on the number of calls                             *)
  Null         (* no result, no exception                                  *)

ASSUME KernelsAssumption == Default \in Kernels /\ Null \notin Kernels
ASSUME ArgumentsAssumption ==
  /\ Sizes \subseteq Int /\ Requests \subseteq Int
  /\ Hardware \in Nat /\ MaxCalls \in Nat
  /\ Variants \subseteq {"fixed", "variable"}
ASSUME FailuresAssumption == Failures \subseteq 1 .. 4 /\ Null \notin 0 .. 4

Smaller(x, y) == IF x < y THEN x ELSE y
Larger(x, y)  == IF x < y THEN y ELSE x

\* max(1, min(batch_size, num_threads > 0 ? num_threads : max(1, hardware)))
ThreadCount(n, request) ==
  Larger(1, Smaller(n, IF request > 0 THEN request ELSE Larger(1, Hardware)))

Worker == UNION {1 .. n : n \in Sizes}
Item   == UNION {0 .. n - 1 : n \in Sizes}

VARIABLES
  calls,      (* calls begun                                               *)
  main,       (* the caller: "idle", "spawn", "join", "terminated"         *)
  variant,    (* which of the two functions is running                     *)
  size,       (* batch_size                                                *)
  threads,    (* threads                                                   *)
  override,   (* captured_override: the caller's kernel                    *)
  spawned,    (* threads started                                           *)
  joined,     (* threads joined                                            *)
  index,      (* the shared atomic index                                   *)
  first,      (* first_exception: Null or its category                     *)
  results,    (* br->results                                               *)
  pc,         (* each worker's position                                    *)
  kernel,     (* each worker's thread-local kernel                         *)
  item,       (* the item it works on                                      *)
  caught,     (* the exception it is handling                              *)
  out,        (* *out_result                                               *)
  rc,         (* the code the last call returned                           *)
  lastError,  (* handle->last_error, "none" when it is empty               *)
  category,   (* handle->stats.last_error_category                         *)
  decodes     (* history: how often each item was decoded in this call     *)

callVars   == <<variant, size, threads, override>>
workerVars == <<pc, kernel, item, caught>>
handleVars == <<out, rc, lastError, category>>
vars == <<calls, main, callVars, spawned, joined, index, first, results,
          workerVars, handleVars, decodes>>

Init ==
  /\ calls = 0
  /\ main = "idle"
  /\ variant \in Variants
  /\ size = 0 /\ threads = 0
  /\ override = Default
  /\ spawned = 0 /\ joined = 0 /\ index = 0
  /\ first = Null
  /\ results = [b \in Item |-> Null]
  /\ pc = [w \in Worker |-> "absent"]
  /\ kernel = [w \in Worker |-> Default]
  /\ item = [w \in Worker |-> 0]
  /\ caught = [w \in Worker |-> Null]
  /\ out = Null /\ rc = 0
  /\ lastError = "none" /\ category = 0
  /\ decodes = [b \in Item |-> 0]

-----------------------------------------------------------------------------
(***************************************************************************)
(* The calling thread.                                                     *)
(***************************************************************************)

\* Invalid arguments: only the variable form records a category.
RefuseArguments ==
  /\ main = "idle" /\ calls < MaxCalls
  /\ \E n \in Sizes : n <= 0
  /\ calls' = calls + 1
  /\ variant' \in Variants
  /\ out' = Null /\ rc' = -1
  /\ lastError' = "arguments"
  /\ category' = IF variant' = "variable" THEN 1 ELSE category
  /\ UNCHANGED <<main, size, threads, override, spawned, joined, index, first,
                 results, workerVars, decodes>>

BeginCall ==
  /\ main = "idle" /\ calls < MaxCalls
  /\ calls' = calls + 1
  /\ main' = "spawn"
  /\ variant' \in Variants
  /\ size' \in {n \in Sizes : n > 0}
  /\ \E request \in Requests : threads' = ThreadCount(size', request)
  /\ override' \in Kernels
  /\ spawned' = 0 /\ joined' = 0 /\ index' = 0
  /\ first' = Null
  /\ results' = [b \in Item |-> Null]
  /\ decodes' = [b \in Item |-> 0]
  /\ pc' = [w \in Worker |-> "absent"]
  /\ out' = Null
  /\ UNCHANGED <<kernel, item, caught, rc, lastError, category>>

\* The catch clauses around the body of the call.
ReportException(cat) ==
  /\ main' = "idle"
  /\ rc' = -2
  /\ lastError' = "exception"
  /\ category' = cat
  /\ UNCHANGED out

\* Something throws while no thread has been started: an allocation (3), the
\* stride (4, fixed form only) or the first thread itself (2).
AbandonCall ==
  /\ main = "spawn" /\ spawned = 0
  /\ \E cat \in IF variant = "fixed" THEN {2, 3, 4} ELSE {2, 3} : ReportException(cat)
  /\ UNCHANGED <<calls, callVars, spawned, joined, index, first, results,
                 workerVars, decodes>>

\* pool.emplace_back(worker); the last one moves the caller on to the joins.
StartThread(last) ==
  /\ main = "spawn"
  /\ spawned' = spawned + 1
  /\ pc' = [pc EXCEPT ![spawned + 1] = "start"]
  /\ kernel' = [kernel EXCEPT ![spawned + 1] = Default]
  /\ main' = IF spawned + 1 = last THEN "join" ELSE "spawn"
  /\ UNCHANGED <<calls, callVars, joined, index, first, results, item, caught,
                 handleVars, decodes>>

\* Faulty variant of SpawnWorker: one thread too many.
SpawnOneMore == StartThread(threads + 1)

SpawnWorker == StartThread(threads)

\* A later thread cannot be started: unwinding destroys the joinable ones,
\* and std::terminate ends the process.
SpawnFails ==
  /\ main = "spawn" /\ spawned > 0
  /\ main' = "terminated"
  /\ UNCHANGED <<calls, callVars, spawned, joined, index, first, results,
                 workerVars, handleVars, decodes>>

\* Faulty variant of JoinWorker: the thread is detached instead.
DetachWorker ==
  /\ main = "join" /\ joined < threads
  /\ joined' = joined + 1
  /\ UNCHANGED <<calls, main, callVars, spawned, index, first, results,
                 workerVars, handleVars, decodes>>

\* th.join(), in the order the threads were started.
JoinWorker ==
  /\ main = "join" /\ joined < threads
  /\ pc[joined + 1] = "exited"
  /\ joined' = joined + 1
  /\ UNCHANGED <<calls, main, callVars, spawned, index, first, results,
                 workerVars, handleVars, decodes>>

\* The first exception of the workers leaves through the catch clauses.
Rethrow ==
  /\ main = "join" /\ joined = threads
  /\ first # Null
  /\ ReportException(first)
  /\ UNCHANGED <<calls, callVars, spawned, joined, index, first, results,
                 workerVars, decodes>>

\* Statistics, the results, no error.
Publish ==
  /\ main = "join" /\ joined = threads
  /\ first = Null
  /\ main' = "idle"
  /\ out' = [b \in 0 .. size - 1 |-> results[b]]
  /\ rc' = 0
  /\ lastError' = "none" /\ category' = 0
  /\ UNCHANGED <<calls, callVars, spawned, joined, index, first, results,
                 workerVars, decodes>>

-----------------------------------------------------------------------------
(***************************************************************************)
(* A worker.                                                               *)
(***************************************************************************)
\* Threads run until the process ends.
Running == main \in {"spawn", "join"}

EnterLoop(w, k) ==
  /\ Running /\ pc[w] = "start"
  /\ pc' = [pc EXCEPT ![w] = "fetch"]
  /\ kernel' = [kernel EXCEPT ![w] = k]
  /\ UNCHANGED <<calls, main, callVars, spawned, joined, index, first, results,
                 item, caught, handleVars, decodes>>

\* Faulty variant of InheritKernel: the worker keeps its own default.
InheritNothing(w) == EnterLoop(w, kernel[w])

\* The thread-local kernel is set to what the caller captured.
InheritKernel(w) == EnterLoop(w, override)

\* index.fetch_add(1) returns seen, which ends the loop or is the next item.
Take(w, seen, end) ==
  /\ Running /\ pc[w] = "fetch"
  /\ index' = seen + 1
  /\ IF end
     THEN pc' = [pc EXCEPT ![w] = "exited"] /\ UNCHANGED item
     ELSE /\ pc' = [pc EXCEPT ![w] = "decode"]
          /\ item' = [item EXCEPT ![w] = seen]
  /\ UNCHANGED <<calls, main, callVars, spawned, joined, first, results, kernel,
                 caught, handleVars, decodes>>

\* Faulty variant of FetchItem: the index is read and written in two steps,
\* so a worker may use a value another one has just used.
FetchStale(w) ==
  \E seen \in {index, Larger(index - 1, 0)} : Take(w, seen, seen >= size)

\* Faulty variant of FetchItem: the loop ends one item late.
FetchPastEnd(w) == Take(w, index, index > size)

FetchItem(w) == Take(w, index, index >= size)

DecodeItem(w) ==
  /\ Running /\ pc[w] = "decode"
  /\ pc' = [pc EXCEPT ![w] = "fetch"]
  /\ results' = [results EXCEPT ![item[w]] = kernel[w]]
  /\ decodes' = [decodes EXCEPT ![item[w]] = @ + 1]
  /\ UNCHANGED <<calls, main, callVars, spawned, joined, index, first, kernel,
                 item, caught, handleVars>>

\* The item cannot be decoded; its slot keeps an empty result.
DecodeThrows(w) ==
  /\ Running /\ pc[w] = "decode"
  /\ pc' = [pc EXCEPT ![w] = "catch"]
  /\ \E cat \in Failures : caught' = [caught EXCEPT ![w] = cat]
  /\ decodes' = [decodes EXCEPT ![item[w]] = @ + 1]
  /\ UNCHANGED <<calls, main, callVars, spawned, joined, index, first, results,
                 kernel, item, handleVars>>

\* Faulty variant of KeepException: the lock is never released.
KeepOnlyFirst(w) ==
  /\ Running /\ pc[w] = "catch"
  /\ first = Null
  /\ pc' = [pc EXCEPT ![w] = "fetch"]
  /\ first' = caught[w]
  /\ UNCHANGED <<calls, main, callVars, spawned, joined, index, results, kernel,
                 item, caught, handleVars, decodes>>

\* Under the lock: the first exception is kept, later ones are dropped.
KeepException(w) ==
  /\ Running /\ pc[w] = "catch"
  /\ pc' = [pc EXCEPT ![w] = "fetch"]
  /\ first' = IF first = Null THEN caught[w] ELSE first
  /\ UNCHANGED <<calls, main, callVars, spawned, joined, index, results, kernel,
                 item, caught, handleVars, decodes>>

WorkerStep(w) ==
  \/ InheritKernel(w)
  \/ FetchItem(w)
  \/ DecodeItem(w)
  \/ DecodeThrows(w)
  \/ KeepException(w)

CallerStep ==
  AbandonCall \/ SpawnWorker \/ SpawnFails \/ JoinWorker \/ Rethrow \/ Publish

Next ==
  \/ RefuseArguments
  \/ BeginCall
  \/ CallerStep
  \/ \E w \in Worker : WorkerStep(w)

Spec == Init /\ [][Next]_vars

\* The operating system runs every thread; a decode returns or throws.
FairSpec ==
  Spec /\ WF_vars(CallerStep) /\ \A w \in Worker : WF_vars(WorkerStep(w))

-----------------------------------------------------------------------------
\* The state of the call, the workers and the handle keeps its types.
TypeOK ==
  /\ calls \in 0 .. MaxCalls
  /\ main \in {"idle", "spawn", "join", "terminated"}
  /\ variant \in Variants
  /\ size \in Int /\ threads \in Int
  /\ override \in Kernels
  /\ spawned \in 0 .. threads /\ joined \in 0 .. spawned
  /\ index \in Nat
  /\ first \in Failures \cup {Null}
  /\ results \in [Item -> Kernels \cup {Null}]
  /\ pc \in [Worker -> {"absent", "start", "fetch", "decode", "catch", "exited"}]
  /\ kernel \in [Worker -> Kernels]
  /\ item \in [Worker -> Item \cup {0}]
  /\ caught \in [Worker -> Failures \cup {Null}]
  /\ rc \in {0, -1, -2}
  /\ lastError \in {"none", "arguments", "exception"}
  /\ category \in 0 .. 4
  /\ decodes \in [Item -> Nat]

\* Each item is decoded at most once, and once all workers are joined exactly
\* once: no race on the index skips or repeats an item, and a failing item
\* does not stop the others.
EachItemOnce ==
  /\ \A b \in Item : decodes[b] <= 1
  /\ main = "join" /\ joined = threads => \A b \in 0 .. size - 1 : decodes[b] = 1

\* When the call is over no worker still runs: they hold references to its
\* locals.
NoWorkerOutlives ==
  main = "idle" => \A w \in Worker : pc[w] \in {"absent", "exited"}

\* The shared index overshoots by one per thread at most.
IndexBounded == index <= size + threads

\* last_error_category says "none" exactly when last_error is empty.
CategoryTracksError == main = "idle" => (category = 0 <=> lastError = "none")

\* The threads implement an all-or-nothing call.
Abstract ==
  INSTANCE BatchPromise WITH open <- (main # "idle"), kernel <- override

ImplementsPromise == Abstract!Spec

\* A call returns, unless the process ends.
CallReturns == main # "idle" ~> main \in {"idle", "terminated"}
=============================================================================
