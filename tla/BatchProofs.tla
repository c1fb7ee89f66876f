----------------------------- MODULE BatchProofs -----------------------------
(***************************************************************************)
(* Batch decoding for every batch size and number of threads: no item is   *)
(* lost or decoded twice, no worker outlives its call, and the threads     *)
(* implement the all-or-nothing call of BatchPromise.                      *)
(***************************************************************************)
EXTENDS BatchDecode, FiniteSetTheorems, TLAPS

(***************************************************************************)
(* The inductive invariant.  While the threads run, every item below the   *)
(* index has been decoded or is held by exactly one worker, and a worker   *)
(* that left the loop has seen the index pass the end.                     *)
(***************************************************************************)
ThreadsInv ==
  /\ threads \in 1 .. size
  /\ main = "join" => spawned = threads
  /\ main = "spawn" => spawned < threads
  /\ \A w \in Worker : pc[w] = "absent" <=> w > spawned
  /\ \A w \in Worker : w <= joined => pc[w] = "exited"

ItemsInv ==
  /\ \A w \in Worker : pc[w] = "decode" => item[w] < index /\ item[w] < size
  /\ \A w \in Worker : pc[w] = "decode" => decodes[item[w]] = 0
  /\ \A w, x \in Worker :
       pc[w] = "decode" /\ pc[x] = "decode" /\ item[w] = item[x] => w = x
  /\ \A b \in Item : b >= index => decodes[b] = 0
  /\ \A b \in Item : b < index /\ b < size =>
       decodes[b] = 1 \/ \E w \in Worker : pc[w] = "decode" /\ item[w] = b
  /\ \A b \in Item : decodes[b] <= 1
  /\ \A w \in Worker : pc[w] = "exited" => size < index

ResultsInv ==
  /\ \A w \in Worker : pc[w] \in {"fetch", "decode", "catch"} => kernel[w] = override
  /\ \A w \in Worker : pc[w] = "catch" => caught[w] # Null
  /\ \A b \in Item : decodes[b] = 1 =>
       \/ results[b] = override
       \/ first # Null
       \/ \E w \in Worker : pc[w] = "catch"

IInv ==
  /\ TypeOK
  /\ size \in Nat /\ (main # "idle" => size \in Sizes)
  /\ \A b \in Item : decodes[b] <= 1
  /\ Running => ThreadsInv /\ ItemsInv /\ ResultsInv
  /\ main # "idle" => out = Null
  /\ NoWorkerOutlives

\* Items and workers of a batch are items and workers.
LEMMA BatchRange ==
  ASSUME NEW n \in Sizes
  PROVE  /\ \A w \in 1 .. n : w \in Worker
         /\ \A b \in 0 .. n - 1 : b \in Item
BY DEF Worker, Item

\* Workers are numbered from one, items from zero.
LEMMA IdsAreNumbers == Worker \subseteq Nat \ {0} /\ Item \subseteq Nat
<1>1. \A n \in Sizes : n \in Int
  BY ArgumentsAssumption
<1>2. \A w \in Worker : w \in Nat \ {0}
  <2>1. \A w \in Worker : \E n \in Sizes : w \in 1 .. n
    BY DEF Worker
  <2>2. QED
    BY <1>1, <2>1
<1>3. \A b \in Item : b \in Nat
  <2>1. \A b \in Item : \E n \in Sizes : b \in 0 .. n - 1
    BY DEF Item
  <2>2. QED
    BY <1>1, <2>1
<1>4. QED
  BY <1>2, <1>3

\* A batch is never given more threads than it has items, and at least one.
LEMMA ThreadCountBounds ==
  ASSUME NEW n \in Int, n > 0, NEW request \in Int
  PROVE  ThreadCount(n, request) \in 1 .. n
BY ArgumentsAssumption DEF ThreadCount, Larger, Smaller

\* Null is no exception category.
LEMMA NullIsNoFailure == Null \notin Failures /\ \A cat \in Failures : cat \in 1 .. 4
<1>1. \A cat \in Failures : cat \in 1 .. 4
  BY FailuresAssumption
<1>2. \A cat \in 1 .. 4 : cat \in 0 .. 4
  OBVIOUS
<1>3. QED
  BY <1>1, <1>2, FailuresAssumption, Zenon

\* Before the first call the inductive invariant holds.
LEMMA InitIInv == Init => IInv
<1> SUFFICES ASSUME Init PROVE IInv
  OBVIOUS
<1>2. TypeOK
  BY KernelsAssumption, ArgumentsAssumption DEF Init, TypeOK
<1>3. QED
  BY <1>2 DEF Init, IInv, Running, NoWorkerOutlives

-----------------------------------------------------------------------------
\* A refused call touches neither the threads nor the items.
LEMMA RefuseInv == IInv /\ RefuseArguments => IInv'
<1> SUFFICES ASSUME IInv, RefuseArguments PROVE IInv'
  OBVIOUS
<1>1. variant' \in Variants /\ category' \in 0 .. 4 /\ calls' \in 0 .. MaxCalls
  BY ArgumentsAssumption DEF RefuseArguments, IInv, TypeOK
<1>2. TypeOK'
  BY <1>1 DEF RefuseArguments, IInv, TypeOK, workerVars
<1>3. QED
  BY <1>2 DEF RefuseArguments, IInv, Running, NoWorkerOutlives, workerVars

\* A new call starts with no thread, no item decoded and no exception.
LEMMA BeginInv == IInv /\ BeginCall => IInv'
<1> SUFFICES ASSUME IInv, BeginCall PROVE IInv'
  OBVIOUS
<1>1. PICK request \in Requests : threads' = ThreadCount(size', request)
  BY DEF BeginCall
<1>2. size' \in Sizes /\ size' \in Int /\ size' > 0 /\ request \in Int
  BY <1>1, ArgumentsAssumption DEF BeginCall
<1>3. threads' \in 1 .. size'
  BY <1>1, <1>2, ThreadCountBounds
<1>4. variant' \in Variants /\ calls' \in 0 .. MaxCalls
  BY ArgumentsAssumption DEF BeginCall, IInv, TypeOK
<1>5. TypeOK'
  BY <1>2, <1>3, <1>4, KernelsAssumption DEF BeginCall, IInv, TypeOK
<1>6. ThreadsInv'
  BY <1>3, <1>5, IdsAreNumbers DEF BeginCall, ThreadsInv
<1>7. ItemsInv' /\ ResultsInv'
  BY <1>2, <1>5, IdsAreNumbers DEF BeginCall, ItemsInv, ResultsInv
<1>8. QED
  BY <1>2, <1>5, <1>6, <1>7 DEF BeginCall, IInv, NoWorkerOutlives

\* A call that throws before its first thread leaves none behind.
LEMMA AbandonInv == IInv /\ AbandonCall => IInv'
<1> SUFFICES ASSUME IInv, AbandonCall PROVE IInv'
  OBVIOUS
<1>1. TypeOK' /\ main' = "idle"
  BY DEF AbandonCall, ReportException, IInv, TypeOK, workerVars, callVars
<1>2. \A w \in Worker : pc[w] = "absent"
  BY IdsAreNumbers DEF AbandonCall, IInv, Running, ThreadsInv
<1>3. QED
  BY <1>1, <1>2
     DEF AbandonCall, IInv, Running, NoWorkerOutlives, workerVars, callVars

\* A new thread holds no item.
LEMMA SpawnInv == IInv /\ SpawnWorker => IInv'
<1> SUFFICES ASSUME IInv, SpawnWorker PROVE IInv'
  OBVIOUS
<1> USE DEF callVars, handleVars
<1>1. /\ Running /\ spawned \in Nat /\ threads \in 1 .. size /\ size \in Sizes
      /\ spawned < threads
  BY DEF SpawnWorker, StartThread, IInv, Running, ThreadsInv, TypeOK
<1>2. spawned + 1 \in Worker
  BY <1>1, BatchRange DEF IInv
<1>3. TypeOK'
  BY <1>1, <1>2, KernelsAssumption DEF SpawnWorker, StartThread, IInv, TypeOK
<1>4. \A w \in Worker : /\ w # spawned + 1 => pc'[w] = pc[w] /\ kernel'[w] = kernel[w]
                        /\ w = spawned + 1 => pc'[w] = "start" /\ pc[w] = "absent"
  BY <1>1, <1>2, IdsAreNumbers DEF SpawnWorker, StartThread, IInv, TypeOK, ThreadsInv
<1>5. ThreadsInv'
  BY <1>1, <1>2, <1>3, <1>4, IdsAreNumbers DEF SpawnWorker, StartThread, IInv, ThreadsInv, TypeOK
<1>6. ItemsInv'
  BY <1>1, <1>4 DEF SpawnWorker, StartThread, IInv, ItemsInv
<1>7. ResultsInv'
  BY <1>1, <1>4 DEF SpawnWorker, StartThread, IInv, ResultsInv
<1>8. QED
  BY <1>3, <1>5, <1>6, <1>7, <1>1 DEF SpawnWorker, StartThread, IInv, Running, NoWorkerOutlives

\* std::terminate leaves the call open for ever.
LEMMA SpawnFailsInv == IInv /\ SpawnFails => IInv'
BY DEF SpawnFails, IInv, TypeOK, Running, NoWorkerOutlives, callVars, workerVars,
       handleVars

\* Joining changes nothing but the count of joined threads.
LEMMA JoinInv == IInv /\ JoinWorker => IInv'
<1> SUFFICES ASSUME IInv, JoinWorker PROVE IInv'
  OBVIOUS
<1> USE DEF callVars, workerVars, handleVars
<1>1. Running /\ ThreadsInv /\ ItemsInv /\ ResultsInv
  BY DEF JoinWorker, IInv, Running
<1>2. TypeOK'
  BY <1>1 DEF JoinWorker, IInv, TypeOK, ThreadsInv
<1>3. ThreadsInv'
  BY <1>1, IdsAreNumbers DEF JoinWorker, IInv, TypeOK, ThreadsInv
<1>4. ItemsInv' /\ ResultsInv'
  BY <1>1 DEF JoinWorker, ItemsInv, ResultsInv
<1>5. QED
  BY <1>2, <1>3, <1>4 DEF JoinWorker, IInv, NoWorkerOutlives

\* Once all workers are joined they have all left the loop.
LEMMA AllJoined ==
  ASSUME IInv, main = "join", joined = threads
  PROVE  /\ \A w \in Worker : pc[w] \in {"absent", "exited"}
         /\ \A b \in 0 .. size - 1 : decodes[b] = 1
<1>1. Running /\ ThreadsInv /\ ItemsInv /\ size \in Sizes /\ size \in Nat
  BY DEF IInv, Running
<1>2. \A w \in Worker : pc[w] \in {"absent", "exited"}
  BY <1>1, IdsAreNumbers DEF IInv, TypeOK, ThreadsInv
<1>3. 1 \in Worker /\ pc[1] = "exited"
  BY <1>1, BatchRange DEF IInv, TypeOK, ThreadsInv
<1>4. size < index /\ index \in Nat
  BY <1>1, <1>3 DEF ItemsInv, IInv, TypeOK
<1>5. QED
  BY <1>1, <1>2, <1>4, BatchRange DEF ItemsInv

\* The call reports its exception after all its threads have left.
LEMMA RethrowInv == IInv /\ Rethrow => IInv'
<1> SUFFICES ASSUME IInv, Rethrow PROVE IInv'
  OBVIOUS
<1>1. TypeOK' /\ main' = "idle"
  BY NullIsNoFailure
     DEF Rethrow, ReportException, IInv, TypeOK, workerVars, callVars
<1>2. QED
  BY <1>1, AllJoined
     DEF Rethrow, IInv, Running, NoWorkerOutlives, workerVars, callVars

\* The call publishes after all its threads have left.
LEMMA PublishInv == IInv /\ Publish => IInv'
<1> SUFFICES ASSUME IInv, Publish PROVE IInv'
  OBVIOUS
<1>1. TypeOK' /\ main' = "idle"
  BY DEF Publish, IInv, TypeOK, workerVars, callVars
<1>2. QED
  BY <1>1, AllJoined
     DEF Publish, IInv, Running, NoWorkerOutlives, workerVars, callVars

-----------------------------------------------------------------------------
\* What a running worker may rely on.
LEMMA WorkerContext ==
  ASSUME IInv, Running
  PROVE  /\ ThreadsInv /\ ItemsInv /\ ResultsInv
         /\ size \in Sizes /\ size \in Nat /\ index \in Nat /\ override \in Kernels
         /\ main # "idle" /\ out = Null
         /\ \A w \in Worker : item[w] \in Nat
<1>1. /\ ThreadsInv /\ ItemsInv /\ ResultsInv
      /\ size \in Nat /\ index \in Nat /\ override \in Kernels
  BY DEF IInv, TypeOK
<1>2. main # "idle" /\ size \in Sizes /\ out = Null
  BY DEF IInv, Running
<1>3. \A w \in Worker : item[w] \in Item \cup {0}
  BY DEF IInv, TypeOK
<1>4. \A w \in Worker : item[w] \in Nat
  <2>1. \A b \in Item : b \in Nat
    BY IdsAreNumbers
  <2>2. \A b \in Item \cup {0} : b \in Nat
    BY <2>1
  <2>3. QED
    BY <1>3, <2>2, Zenon
<1>5. QED
  BY <1>1, <1>2, <1>4

\* A worker enters its loop with the kernel of the caller.
LEMMA InheritInv ==
  ASSUME IInv, NEW w \in Worker, InheritKernel(w)
  PROVE  IInv'
<1> USE DEF callVars, handleVars
<1>1. Running /\ ThreadsInv /\ ItemsInv /\ ResultsInv /\ override \in Kernels
  BY WorkerContext DEF InheritKernel, EnterLoop
<1>2. TypeOK'
  BY <1>1 DEF InheritKernel, EnterLoop, IInv, TypeOK
<1>3. /\ \A x \in Worker : x # w => pc'[x] = pc[x] /\ kernel'[x] = kernel[x]
      /\ pc[w] = "start" /\ pc'[w] = "fetch" /\ kernel'[w] = override
  BY DEF InheritKernel, EnterLoop, IInv, TypeOK
<1>4. ThreadsInv' /\ ItemsInv' /\ ResultsInv'
  <2>1. ThreadsInv'
    BY <1>1, <1>3 DEF InheritKernel, EnterLoop, ThreadsInv
  <2>2. ItemsInv'
    BY <1>1, <1>3 DEF InheritKernel, EnterLoop, ItemsInv
  <2>3. ResultsInv'
    BY <1>1, <1>3 DEF InheritKernel, EnterLoop, ResultsInv
  <2>4. QED
    BY <2>1, <2>2, <2>3
<1>5. QED
  BY <1>1, <1>2, <1>4 DEF InheritKernel, EnterLoop, IInv, Running, NoWorkerOutlives

\* The atomic increment gives each item to one worker, and none twice.
LEMMA FetchInv ==
  ASSUME IInv, NEW w \in Worker, FetchItem(w)
  PROVE  IInv'
<1> USE DEF callVars, handleVars
<1>1. /\ Running /\ ThreadsInv /\ ItemsInv /\ ResultsInv
      /\ size \in Sizes /\ size \in Nat /\ index \in Nat
      /\ \A x \in Worker : item[x] \in Nat
  BY WorkerContext DEF FetchItem, Take
<1>2. /\ \A x \in Worker : x # w => pc'[x] = pc[x] /\ item'[x] = item[x]
      /\ pc[w] = "fetch" /\ index' = index + 1
  BY DEF FetchItem, Take, IInv, TypeOK
<1>3. CASE index >= size
  <2>1. pc'[w] = "exited" /\ item' = item
    BY <1>3 DEF FetchItem, Take, IInv, TypeOK
  <2>2. TypeOK'
    BY <1>1, <1>3 DEF FetchItem, Take, IInv, TypeOK
  <2>3. ThreadsInv'
    BY <1>1, <1>2, <2>1 DEF FetchItem, Take, ThreadsInv
  <2>4. ItemsInv'
    BY <1>1, <1>2, <1>3, <2>1, IdsAreNumbers DEF FetchItem, Take, ItemsInv
  <2>5. ResultsInv'
    BY <1>1, <1>2, <2>1 DEF FetchItem, Take, ResultsInv
  <2>6. QED
    BY <1>1, <2>2, <2>3, <2>4, <2>5 DEF FetchItem, Take, IInv, Running, NoWorkerOutlives
<1>4. CASE ~(index >= size)
  <2>1. pc'[w] = "decode" /\ item'[w] = index
    BY <1>4 DEF FetchItem, Take, IInv, TypeOK
  <2>2. index \in Item
    BY <1>1, <1>4, BatchRange
  <2>3. TypeOK'
    BY <1>1, <1>4, <2>2 DEF FetchItem, Take, IInv, TypeOK
  <2>4. ThreadsInv'
    <3>1. \A x \in Worker : x <= joined => x # w
      BY <1>1, <1>2 DEF ThreadsInv
    <3>2. QED
      BY <1>1, <1>2, <2>1, <3>1 DEF FetchItem, Take, ThreadsInv
  <2>5. ItemsInv'
    <3> USE <1>1, <1>2, <1>4, <2>1 DEF FetchItem, Take
    <3>1. \A x \in Worker : pc'[x] = "decode" => item'[x] < index' /\ item'[x] < size'
      BY DEF ItemsInv
    <3>2. \A x \in Worker : pc'[x] = "decode" => decodes'[item'[x]] = 0
      BY <2>2 DEF ItemsInv
    <3>3. \A x, y \in Worker :
            pc'[x] = "decode" /\ pc'[y] = "decode" /\ item'[x] = item'[y] => x = y
      BY DEF ItemsInv
    <3>4. \A d \in Item : d >= index' => decodes'[d] = 0
      BY IdsAreNumbers DEF ItemsInv
    <3>5. \A d \in Item : d < index' /\ d < size' =>
            decodes'[d] = 1 \/ \E x \in Worker : pc'[x] = "decode" /\ item'[x] = d
      <4>1. ASSUME NEW d \in Item, d < index', d < size'
            PROVE  decodes'[d] = 1 \/ \E x \in Worker : pc'[x] = "decode" /\ item'[x] = d
        <5>1. d < index \/ d = index
          BY <4>1, IdsAreNumbers
        <5>2. CASE d = index
          BY <5>2
        <5>3. CASE d < index
          <6>1. decodes[d] = 1 \/ \E x \in Worker : pc[x] = "decode" /\ item[x] = d
            BY <4>1, <5>3 DEF ItemsInv
          <6>2. QED
            BY <6>1
        <5>4. QED
          BY <5>1, <5>2, <5>3
      <4>2. QED
        BY <4>1
    <3>6. \A d \in Item : decodes'[d] <= 1
      BY DEF ItemsInv
    <3>7. \A x \in Worker : pc'[x] = "exited" => size' < index'
      BY DEF ItemsInv
    <3>8. QED
      BY <3>1, <3>2, <3>3, <3>4, <3>5, <3>6, <3>7 DEF ItemsInv
  <2>6. ResultsInv'
    BY <1>1, <1>2, <2>1 DEF FetchItem, Take, ResultsInv
  <2>7. QED
    BY <1>1, <2>3, <2>4, <2>5, <2>6 DEF FetchItem, Take, IInv, Running, NoWorkerOutlives
<1>5. QED
  BY <1>3, <1>4

\* A worker that ends its item, one way or the other, gives it up decoded.
LEMMA ItemDone ==
  ASSUME IInv, Running, NEW w \in Worker, pc[w] = "decode",
         NEW next \in {"fetch", "catch"},
         pc' = [pc EXCEPT ![w] = next],
         decodes' = [decodes EXCEPT ![item[w]] = @ + 1],
         UNCHANGED <<main, size, threads, spawned, joined, index, item>>
  PROVE  /\ ThreadsInv' /\ ItemsInv'
         /\ item[w] \in Item /\ decodes' \in [Item -> Nat]
         /\ \A d \in Item : decodes'[d] <= 1
         /\ \A d \in Item : d # item[w] => decodes'[d] = decodes[d]
<1>1. /\ ThreadsInv /\ ItemsInv /\ size \in Sizes /\ size \in Nat /\ index \in Nat
      /\ \A x \in Worker : item[x] \in Nat
  BY WorkerContext
<1>2. item[w] < index /\ item[w] < size /\ decodes[item[w]] = 0
  BY <1>1 DEF ItemsInv
<1>3. item[w] \in Item
  BY <1>1, <1>2, BatchRange
<1>4. /\ decodes' \in [Item -> Nat] /\ decodes'[item[w]] = 1
      /\ \A d \in Item : d # item[w] => decodes'[d] = decodes[d]
  BY <1>2, <1>3 DEF IInv, TypeOK
<1>5. /\ \A x \in Worker : x # w => pc'[x] = pc[x]
      /\ pc'[w] = next /\ next # "decode" /\ next # "exited" /\ next # "absent"
  BY DEF IInv, TypeOK
<1>6. ThreadsInv'
  BY <1>1, <1>5 DEF ThreadsInv
<1>7. \A x \in Worker : pc'[x] = "decode" => x # w /\ pc[x] = "decode" /\ item[x] # item[w]
  BY <1>1, <1>5 DEF ItemsInv
<1>8. ItemsInv'
  <2>1. \A x \in Worker : pc'[x] = "decode" => item'[x] < index' /\ item'[x] < size'
    BY <1>1, <1>7 DEF ItemsInv
  <2>2. \A x \in Worker : pc'[x] = "decode" => decodes'[item'[x]] = 0
    <3>1. \A x \in Worker : pc'[x] = "decode" => item[x] \in Item /\ decodes[item[x]] = 0
      BY <1>1, <1>7, BatchRange DEF ItemsInv
    <3>2. QED
      BY <1>4, <1>7, <3>1
  <2>3. \A x, y \in Worker :
          pc'[x] = "decode" /\ pc'[y] = "decode" /\ item'[x] = item'[y] => x = y
    BY <1>1, <1>7 DEF ItemsInv
  <2>4. \A d \in Item : d >= index' => decodes'[d] = 0
    BY <1>1, <1>2, <1>4, IdsAreNumbers DEF ItemsInv
  <2>5. \A d \in Item : d < index' /\ d < size' =>
          decodes'[d] = 1 \/ \E x \in Worker : pc'[x] = "decode" /\ item'[x] = d
    <3>1. ASSUME NEW d \in Item, d < index, d < size, d # item[w]
          PROVE  decodes'[d] = 1 \/ \E x \in Worker : pc'[x] = "decode" /\ item'[x] = d
      <4>1. decodes[d] = 1 \/ \E x \in Worker : pc[x] = "decode" /\ item[x] = d
        BY <1>1, <3>1 DEF ItemsInv
      <4>2. QED
        BY <1>4, <1>5, <3>1, <4>1
    <3>2. QED
      BY <1>4, <3>1
  <2>6. \A d \in Item : decodes'[d] <= 1
    BY <1>1, <1>4 DEF ItemsInv
  <2>7. \A x \in Worker : pc'[x] = "exited" => size' < index'
    BY <1>1, <1>5 DEF ItemsInv
  <2>8. QED
    BY <2>1, <2>2, <2>3, <2>4, <2>5, <2>6, <2>7 DEF ItemsInv
<1>9. QED
  BY <1>3, <1>4, <1>6, <1>8 DEF ItemsInv

\* A decoded item holds the result of the caller's kernel.
LEMMA DecodeItemInv ==
  ASSUME IInv, NEW w \in Worker, DecodeItem(w)
  PROVE  IInv'
<1> USE DEF callVars, handleVars
<1>1. /\ Running /\ ThreadsInv /\ ItemsInv /\ ResultsInv /\ override \in Kernels
      /\ Running' /\ pc[w] = "decode"
  BY WorkerContext DEF DecodeItem, Running
<1>2. /\ ThreadsInv' /\ ItemsInv'
      /\ item[w] \in Item /\ decodes' \in [Item -> Nat]
      /\ \A d \in Item : decodes'[d] <= 1
      /\ \A d \in Item : d # item[w] => decodes'[d] = decodes[d]
  BY <1>1, ItemDone DEF DecodeItem
<1>3. kernel[w] = override
  BY <1>1 DEF ResultsInv
<1>4. TypeOK'
  BY <1>1, <1>2, <1>3 DEF DecodeItem, IInv, TypeOK
<1>5. /\ results'[item[w]] = override
      /\ \A d \in Item : d # item[w] => results'[d] = results[d]
      /\ \A x \in Worker : x # w => pc'[x] = pc[x]
      /\ pc'[w] = "fetch"
  BY <1>2, <1>3 DEF DecodeItem, IInv, TypeOK
<1>6. ResultsInv'
  <2>1. \A x \in Worker : pc'[x] \in {"fetch", "decode", "catch"} =>
                           kernel'[x] = override'
    BY <1>1, <1>3, <1>5 DEF DecodeItem, ResultsInv
  <2>2. \A x \in Worker : pc'[x] = "catch" => caught'[x] # Null
    BY <1>1, <1>5 DEF DecodeItem, ResultsInv
  <2>3. ASSUME NEW d \in Item, decodes'[d] = 1
        PROVE  \/ results'[d] = override'
               \/ first' # Null
               \/ \E x \in Worker : pc'[x] = "catch"
    <3>1. CASE d = item[w]
      BY <1>5, <3>1 DEF DecodeItem
    <3>2. CASE d # item[w]
      <4>1. \/ results[d] = override
            \/ first # Null
            \/ \E x \in Worker : pc[x] = "catch"
        BY <1>1, <1>2, <2>3, <3>2 DEF ResultsInv
      <4>2. QED
        BY <1>1, <1>5, <3>2, <4>1 DEF DecodeItem
    <3>3. QED
      BY <3>1, <3>2
  <2>4. QED
    BY <2>1, <2>2, <2>3 DEF ResultsInv
<1>7. QED
  BY <1>1, <1>2, <1>4, <1>6 DEF DecodeItem, IInv, Running, NoWorkerOutlives

\* A failed item is decoded; its worker holds the exception.
LEMMA DecodeThrowsInv ==
  ASSUME IInv, NEW w \in Worker, DecodeThrows(w)
  PROVE  IInv'
<1> USE DEF callVars, handleVars
<1>1. /\ Running /\ ThreadsInv /\ ItemsInv /\ ResultsInv
      /\ Running' /\ pc[w] = "decode"
  BY WorkerContext DEF DecodeThrows, Running
<1>2. /\ ThreadsInv' /\ ItemsInv'
      /\ decodes' \in [Item -> Nat]
      /\ \A d \in Item : decodes'[d] <= 1
  BY <1>1, ItemDone DEF DecodeThrows
<1>3. PICK cat \in Failures : caught' = [caught EXCEPT ![w] = cat]
  BY DEF DecodeThrows
<1>4. TypeOK'
  BY <1>1, <1>2, <1>3 DEF DecodeThrows, IInv, TypeOK
<1>5. /\ \A x \in Worker : x # w => pc'[x] = pc[x] /\ caught'[x] = caught[x]
      /\ pc'[w] = "catch" /\ caught'[w] = cat
  BY <1>3 DEF DecodeThrows, IInv, TypeOK
<1>6. cat # Null
  BY NullIsNoFailure
<1>7. ResultsInv'
  BY <1>1, <1>5, <1>6 DEF DecodeThrows, ResultsInv
<1>8. QED
  BY <1>1, <1>2, <1>4, <1>7 DEF DecodeThrows, IInv, Running, NoWorkerOutlives

\* No exception is lost: the first one stays.
LEMMA KeepExceptionInv ==
  ASSUME IInv, NEW w \in Worker, KeepException(w)
  PROVE  IInv'
<1> USE DEF callVars, handleVars
<1>1. /\ Running /\ ThreadsInv /\ ItemsInv /\ ResultsInv
      /\ Running' /\ pc[w] = "catch"
  BY WorkerContext DEF KeepException, Running
<1>2. TypeOK'
  BY <1>1 DEF KeepException, IInv, TypeOK
<1>3. /\ \A x \in Worker : x # w => pc'[x] = pc[x]
      /\ pc'[w] = "fetch"
  BY <1>1 DEF KeepException, IInv, TypeOK
<1>4. first' # Null
  BY <1>1 DEF KeepException, ResultsInv
<1>5. ThreadsInv'
  BY <1>1, <1>3 DEF KeepException, ThreadsInv
<1>6. ItemsInv'
  BY <1>1, <1>3 DEF KeepException, ItemsInv
<1>7. ResultsInv'
  BY <1>1, <1>3, <1>4 DEF KeepException, ResultsInv
<1>8. QED
  BY <1>1, <1>2, <1>5, <1>6, <1>7 DEF KeepException, IInv, Running, NoWorkerOutlives

-----------------------------------------------------------------------------
\* Every step keeps the inductive invariant.
LEMMA NextInv == IInv /\ [Next]_vars => IInv'
<1> SUFFICES ASSUME IInv, [Next]_vars PROVE IInv'
  OBVIOUS
<1>1. CASE RefuseArguments
  BY <1>1, RefuseInv
<1>2. CASE BeginCall
  BY <1>2, BeginInv
<1>3. CASE CallerStep
  BY <1>3, AbandonInv, SpawnInv, SpawnFailsInv, JoinInv, RethrowInv, PublishInv
     DEF CallerStep
<1>4. ASSUME NEW w \in Worker, WorkerStep(w) PROVE IInv'
  BY <1>4, InheritInv, FetchInv, DecodeItemInv, DecodeThrowsInv, KeepExceptionInv
     DEF WorkerStep
<1>5. CASE UNCHANGED vars
  <2>1. TypeOK'
    BY <1>5 DEF vars, callVars, workerVars, handleVars, IInv, TypeOK
  <2>2. ThreadsInv' <=> ThreadsInv
    BY <1>5 DEF vars, callVars, workerVars, handleVars, ThreadsInv
  <2>3. ItemsInv' <=> ItemsInv
    BY <1>5 DEF vars, callVars, workerVars, handleVars, ItemsInv
  <2>4. ResultsInv' <=> ResultsInv
    BY <1>5 DEF vars, callVars, workerVars, handleVars, ResultsInv
  <2>5. QED
    BY <1>5, <2>1, <2>2, <2>3, <2>4
       DEF vars, callVars, workerVars, handleVars, IInv, Running, NoWorkerOutlives
<1>6. QED
  BY <1>1, <1>2, <1>3, <1>4, <1>5 DEF Next

\* The inductive invariant holds in every reachable state.
LEMMA IInvInvariant == Spec => []IInv
BY InitIInv, NextInv, PTL DEF Spec

\* The state of the call, the workers and the handle keeps its types: at no
\* time more threads than items, no item outside the batch.
THEOREM BatchTypeOK == Spec => []TypeOK
<1>1. IInv => TypeOK
  BY DEF IInv
<1>2. QED
  BY <1>1, IInvInvariant, PTL

\* The workers of dbs_decode_batch share the items out exactly once, for
\* every batch size, thread count and interleaving, failing items included.
THEOREM BatchEachItemOnce == Spec => []EachItemOnce
<1>1. IInv => EachItemOnce
  BY AllJoined DEF IInv, EachItemOnce
<1>2. QED
  BY <1>1, IInvInvariant, PTL

\* No worker is left running, with references to the call's locals, once the
\* call has returned.
THEOREM BatchNoWorkerOutlives == Spec => []NoWorkerOutlives
<1>1. IInv => NoWorkerOutlives
  BY DEF IInv
<1>2. QED
  BY <1>1, IInvInvariant, PTL

-----------------------------------------------------------------------------
(***************************************************************************)
(* The index passes the end once for every worker that has left the loop.  *)
(***************************************************************************)
Exited == {w \in Worker : pc[w] = "exited"}

Counted == index <= size + Cardinality(Exited)
CountType == IsFiniteSet(Exited) /\ Cardinality(Exited) \in Nat /\ size \in Nat

CountInv == IndexBounded /\ (Running => Counted)

\* Only threads that were started have left the loop.
LEMMA ExitedBounded ==
  ASSUME IInv, Running
  PROVE  /\ IsFiniteSet(Exited) /\ Cardinality(Exited) \in 0 .. threads
         /\ size \in Nat /\ index \in Nat /\ threads \in Nat
<1>1. ThreadsInv /\ size \in Nat /\ index \in Nat /\ spawned \in 0 .. threads
  BY DEF IInv, TypeOK
<1>2. threads \in 1 .. size
  BY <1>1 DEF ThreadsInv
<1>3. \A w \in Worker : pc[w] = "exited" => w \in 1 .. threads
  BY <1>1, <1>2, IdsAreNumbers DEF ThreadsInv
<1>4. Exited \in SUBSET (1 .. threads)
  BY <1>3 DEF Exited
<1>5. IsFiniteSet(1 .. threads) /\ Cardinality(1 .. threads) = threads
  BY <1>1, <1>2, FS_Interval
<1>6. IsFiniteSet(Exited) /\ Cardinality(Exited) <= threads
  BY <1>4, <1>5, FS_Subset
<1>7. Cardinality(Exited) \in Nat
  BY <1>6, FS_CardinalityType
<1>8. QED
  BY <1>1, <1>2, <1>6, <1>7

\* While the call runs, the count alone bounds the index.
LEMMA CountBounds ==
  ASSUME IInv, Running, Counted
  PROVE  CountInv
BY ExitedBounded DEF CountInv, Counted, IndexBounded

\* The same of the state after a step.
LEMMA CountNext ==
  /\ IInv' /\ Running' => CountType'
  /\ IInv' /\ Running' /\ Counted' => CountInv'
<1>1. IInv /\ Running => CountType
  BY ExitedBounded DEF CountType
<1>2. IInv /\ Running /\ Counted => CountInv
  BY CountBounds
<1>3. QED
  BY <1>1, <1>2, PTL

\* The last increment of a worker is the only one past the end.
LEMMA FetchCount ==
  ASSUME IInv, IInv', CountInv, NEW w \in Worker, FetchItem(w)
  PROVE  CountInv'
<1>1. /\ Running /\ Running' /\ pc[w] = "fetch" /\ index' = index + 1
      /\ size' = size /\ threads' = threads
  BY DEF FetchItem, Take, Running, callVars
<1>2. /\ IsFiniteSet(Exited) /\ size \in Nat /\ index \in Nat
      /\ Cardinality(Exited) \in Nat /\ Cardinality(Exited') \in Nat
  <2>1. IsFiniteSet(Exited) /\ size \in Nat /\ index \in Nat /\ Cardinality(Exited) \in Nat
    BY <1>1, ExitedBounded
  <2>2. IsFiniteSet(Exited') /\ Cardinality(Exited') \in Nat
    BY <1>1, CountNext DEF CountType
  <2>3. QED
    BY <2>1, <2>2
<1>3. CASE index >= size
  <2>1. pc' = [pc EXCEPT ![w] = "exited"]
    BY <1>3 DEF FetchItem, Take
  <2>2. Exited' = Exited \cup {w} /\ w \notin Exited
    BY <1>1, <2>1 DEF Exited, IInv, TypeOK
  <2>3. Cardinality(Exited') = Cardinality(Exited) + 1
    BY <1>2, <2>2, FS_AddElement
  <2>4. Counted'
    BY <1>1, <1>2, <2>3 DEF CountInv, Counted
  <2>5. QED
    BY <1>1, <2>4, CountNext
<1>4. CASE ~(index >= size)
  <2>1. Counted'
    BY <1>1, <1>2, <1>4 DEF Counted
  <2>2. QED
    BY <1>1, <2>1, CountNext
<1>5. QED
  BY <1>3, <1>4

\* Nothing else moves the index, or lets a worker leave.
LEMMA OthersCount ==
  ASSUME CountInv, UNCHANGED <<size, threads, index>>,
         Running' => Running /\ Exited' = Exited
  PROVE  CountInv'
BY DEF CountInv, Counted, IndexBounded

LEMMA NextCount == IInv /\ IInv' /\ CountInv /\ [Next]_vars => CountInv'
<1> SUFFICES ASSUME IInv, IInv', CountInv, [Next]_vars PROVE CountInv'
  OBVIOUS
<1>1. CASE RefuseArguments
  BY <1>1, OthersCount DEF RefuseArguments, Running
<1>2. CASE BeginCall
  <2>1. Running' /\ index' = 0
    BY <1>2 DEF BeginCall, Running
  <2>2. Cardinality(Exited') \in Nat /\ size' \in Nat
    BY <2>1, CountNext DEF CountType
  <2>3. Counted'
    BY <2>1, <2>2 DEF Counted
  <2>4. QED
    BY <2>1, <2>3, CountNext
<1>3. CASE AbandonCall \/ Rethrow \/ Publish \/ SpawnFails
  BY <1>3, OthersCount
     DEF AbandonCall, Rethrow, Publish, SpawnFails, ReportException, Running, callVars
<1>4. CASE JoinWorker
  BY <1>4, OthersCount DEF JoinWorker, Running, callVars, workerVars, Exited
<1>5. CASE SpawnWorker
  <2>1. pc' = [pc EXCEPT ![spawned + 1] = "start"] /\ Running /\ spawned \in Nat
        /\ UNCHANGED <<size, threads, index>> /\ ThreadsInv
    BY <1>5 DEF SpawnWorker, StartThread, Running, callVars, IInv, TypeOK
  <2>2. \A w \in Worker : w = spawned + 1 => pc[w] # "exited"
    BY <2>1, IdsAreNumbers DEF ThreadsInv
  <2>3. \A w \in Worker : pc'[w] = "exited" <=> pc[w] = "exited"
    BY <2>1, <2>2 DEF IInv, TypeOK
  <2>4. Exited' = Exited
    BY <2>3 DEF Exited
  <2>5. QED
    BY <2>1, <2>4, OthersCount
<1>6. ASSUME NEW w \in Worker, WorkerStep(w) PROVE CountInv'
  <2>1. CASE FetchItem(w)
    BY <2>1, FetchCount
  <2>2. CASE InheritKernel(w) \/ DecodeItem(w) \/ DecodeThrows(w) \/ KeepException(w)
    <3>1. /\ Running /\ UNCHANGED <<size, threads, index>>
          /\ pc[w] # "exited" /\ \E l \in {"fetch", "catch"} : pc' = [pc EXCEPT ![w] = l]
      BY <2>2 DEF InheritKernel, EnterLoop, DecodeItem, DecodeThrows, KeepException, callVars
    <3>2. Exited' = Exited
      BY <3>1 DEF Exited, IInv, TypeOK
    <3>3. QED
      BY <3>1, <3>2, OthersCount
  <2>3. QED
    BY <1>6, <2>1, <2>2 DEF WorkerStep
<1>7. CASE UNCHANGED vars
  BY <1>7, OthersCount DEF vars, callVars, workerVars, Running, Exited
<1>8. QED
  BY <1>1, <1>2, <1>3, <1>4, <1>5, <1>6, <1>7 DEF Next, CallerStep

\* The shared index of dbs_decode_batch, which every worker increments once
\* past the end, overshoots by no more than the number of threads.
THEOREM BatchIndexBounded == Spec => []IndexBounded
<1>1. Init => CountInv
  <2>1. ASSUME Init PROVE index <= size + threads /\ ~Running
    <3>1. index = 0 /\ size = 0 /\ threads = 0 /\ main = "idle"
      BY <2>1 DEF Init
    <3>2. QED
      BY <3>1 DEF Running
  <2>2. QED
    BY <2>1 DEF CountInv, IndexBounded
<1>2. CountInv => IndexBounded
  BY DEF CountInv
<1>3. QED
  BY <1>1, <1>2, IInvInvariant, NextCount, PTL DEF Spec

-----------------------------------------------------------------------------
\* What is published is the caller's kernel's result for every item.
LEMMA PublishedResults ==
  ASSUME IInv, Publish
  PROVE  out' = [b \in 0 .. size - 1 |-> override]
<1>1. /\ \A w \in Worker : pc[w] \in {"absent", "exited"}
      /\ \A b \in 0 .. size - 1 : decodes[b] = 1
  BY AllJoined DEF Publish
<1>2. ResultsInv /\ size \in Sizes
  BY DEF Publish, IInv, Running
<1>3. \A b \in 0 .. size - 1 : results[b] = override
  BY <1>1, <1>2, BatchRange DEF Publish, ResultsInv
<1>4. QED
  BY <1>3 DEF Publish

\* Every step is a step of the promised call, or changes nothing it shows.
LEMMA AbstractStep == IInv /\ [Next]_vars => [Abstract!Next]_(Abstract!vars)
<1> SUFFICES ASSUME IInv, [Next]_vars
             PROVE  Abstract!Next \/ UNCHANGED Abstract!vars
  OBVIOUS
<1> USE DEF Abstract!Next, Abstract!vars, callVars, workerVars, handleVars
<1>1. CASE RefuseArguments
  BY <1>1 DEF RefuseArguments, Abstract!Refuse
<1>2. CASE BeginCall
  BY <1>2 DEF BeginCall, Abstract!Begin
<1>3. CASE CallerStep
  <2>1. CASE AbandonCall
    BY <2>1 DEF AbandonCall, ReportException, Abstract!Fail
  <2>2. CASE SpawnWorker
    BY <2>2 DEF SpawnWorker, StartThread
  <2>3. CASE SpawnFails
    BY <2>3 DEF SpawnFails
  <2>4. CASE JoinWorker
    BY <2>4 DEF JoinWorker
  <2>5. CASE Rethrow
    BY <2>5 DEF Rethrow, ReportException, Abstract!Fail
  <2>6. CASE Publish
    BY <2>6, PublishedResults DEF Publish, Abstract!Succeed
  <2>7. QED
    BY <1>3, <2>1, <2>2, <2>3, <2>4, <2>5, <2>6 DEF CallerStep
<1>4. ASSUME NEW w \in Worker, WorkerStep(w)
      PROVE  UNCHANGED Abstract!vars
  BY <1>4 DEF WorkerStep, InheritKernel, EnterLoop, FetchItem, Take, DecodeItem,
              DecodeThrows, KeepException, Running
<1>5. CASE UNCHANGED vars
  BY <1>5 DEF vars
<1>6. QED
  BY <1>1, <1>2, <1>3, <1>4, <1>5 DEF Next

\* The calling thread and its workers implement the all-or-nothing call: all
\* results, each computed with the caller's kernel, or none and an error.
THEOREM BatchImplementsPromise == Spec => ImplementsPromise
<1>1. Init => Abstract!Init
  BY KernelsAssumption DEF Init, Abstract!Init
<1>2. QED
  BY <1>1, AbstractStep, IInvInvariant, PTL DEF Spec, ImplementsPromise, Abstract!Spec
=============================================================================
