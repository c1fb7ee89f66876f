------------------------------ MODULE Ownership ------------------------------
(***************************************************************************)
(* Who owns the objects that the C API hands out.                          *)
(*                                                                         *)
(* A decoder handle, a result and a backward result live from the call     *)
(* that makes them to the call that frees them.  The bindings wrap these   *)
(* calls: torch_extension.cpp makes and frees all three in one function;   *)
(* torch_dbs.py keeps handle and result in an autograd node, which closes  *)
(* after its backward pass or when it is collected.  Every call may fail,  *)
(* and so may the statements between them.                                 *)
(*                                                                         *)
(* The vectors of an object come from AlignedAllocator, which keeps count  *)
(* of the bytes of the whole process; anyone may reset the count.          *)
(***************************************************************************)
EXTENDS Integers, Sequences, FiniteSets, FiniteSetsExt

CONSTANTS
  Thread,      (* threads of the process                                   *)
  ResultBytes, (* bytes of the vectors of a result, and of a backward one  *)
  BackBytes,
  ScratchBytes,(* bytes of the vectors a call needs while it runs          *)
  MaxObjects   (* bound on the number of objects made                      *)

\* A process has finitely many threads.
ASSUME ThreadAssumption == IsFiniteSet(Thread)

ASSUME SizesAssumption ==
  {ResultBytes, BackBytes, ScratchBytes, MaxObjects} \subseteq Nat

VARIABLES
  kind,      (* the function a thread runs                                 *)
  pc,        (* its position in it                                         *)
  h, r, b,   (* its handle, result and backward result, 0 for null         *)
  raised,    (* the position at which an exception was thrown              *)
  node,      (* the autograd nodes: their handle, result, and finalizer    *)
  at,        (* the node whose backward pass a thread runs                 *)
  made,      (* number of objects made; they are numbered from 1           *)
  size,      (* bytes of the vectors of each live object                   *)
  bytes,     (* g_allocator_bytes                                          *)
  scratch,   (* bytes of the vectors of each thread's call in progress     *)
  base,      (* history: bytes in use when the count was reset             *)
  misuse     (* history: calls that were passed a freed object             *)

locals == <<kind, pc, h, r, b, raised, at>>
heap == <<made, size, bytes, scratch>>
vars == <<locals, node, heap, base, misuse>>

live == DOMAIN size
InUse == MapThenSumSet(LAMBDA o : size[o], live)
         + MapThenSumSet(LAMBDA p : scratch[p], Thread)

-----------------------------------------------------------------------------
(***************************************************************************)
(* Objects.                                                                *)
(***************************************************************************)

Make(n) ==
  /\ made' = made + 1
  /\ size' = [o \in live \cup {made + 1} |-> IF o \in live THEN size[o] ELSE n]

\* The vectors of an object go back to the allocator with it.
Delete(objects) ==
  /\ size' = [o \in live \ objects |-> size[o]]
  /\ bytes' = bytes - MapThenSumSet(LAMBDA o : size[o], objects \cap live)

\* Someone passes objects to a call; a null pointer is not dereferenced.
Uses(who, objects) ==
  misuse' = IF objects \ {0} \subseteq live THEN misuse ELSE misuse \cup {who}

Collector == [kind |-> "collector", at |-> "", raised |-> "", closed |-> FALSE]

Passes(p, objects) ==
  Uses([kind |-> kind[p], at |-> pc[p], raised |-> raised[p],
        closed |-> at[p] # 0 /\ ~node[at[p]].open], objects)

Go(p, l) == pc' = [pc EXCEPT ![p] = l]

\* A statement throws: on to the handlers.
Throw(p) ==
  /\ raised' = [raised EXCEPT ![p] = pc[p]]
  /\ Go(p, "catch")

Leave(p) ==
  /\ Go(p, "idle")
  /\ kind' = [kind EXCEPT ![p] = "none"]
  /\ h' = [h EXCEPT ![p] = 0] /\ r' = [r EXCEPT ![p] = 0] /\ b' = [b EXCEPT ![p] = 0]
  /\ raised' = [raised EXCEPT ![p] = ""]
  /\ at' = [at EXCEPT ![p] = 0]

-----------------------------------------------------------------------------
(***************************************************************************)
(* The functions.  "scores" and "gradient" are final_scores_forward and    *)
(* final_scores_backward of torch_extension.cpp, "forward" and "backward"  *)
(* those of the autograd function of torch_dbs.py.                         *)
(***************************************************************************)

Enter(p, k) ==
  /\ pc[p] = "idle" /\ made + 3 <= MaxObjects
  /\ kind' = [kind EXCEPT ![p] = k]
  /\ Go(p, "create")
  /\ UNCHANGED <<h, r, b, raised, at, node, heap, base, misuse>>

\* Autograd runs the backward pass of a node it can still reach.
EnterBackward(p, n) ==
  /\ pc[p] = "idle" /\ made + 1 <= MaxObjects
  /\ node[n].reachable /\ \A q \in Thread : at[q] # n
  /\ kind' = [kind EXCEPT ![p] = "backward"]
  /\ at' = [at EXCEPT ![p] = n]
  /\ h' = [h EXCEPT ![p] = node[n].h] /\ r' = [r EXCEPT ![p] = node[n].r]
  /\ Go(p, "backward")
  /\ UNCHANGED <<b, raised, node, heap, base, misuse>>

\* dbs_create_ex; without a handle there is nothing to release.
Create(p) ==
  /\ pc[p] = "create"
  /\ \/ /\ Leave(p)
        /\ UNCHANGED heap
     \/ /\ Make(0)
        /\ h' = [h EXCEPT ![p] = made + 1]
        /\ Go(p, "decode")
        /\ UNCHANGED <<kind, r, b, raised, at, bytes, scratch>>
  /\ UNCHANGED <<node, base, misuse>>

\* dbs_decode or dbs_backward allocates its vectors.  If that fails it frees
\* those it has, and the caller asks the handle for the message and throws.
BeginCall(p, call, n) ==
  /\ pc[p] = call
  /\ Passes(p, {h[p], r[p]})
  /\ \/ /\ Throw(p)
        /\ UNCHANGED <<bytes, scratch>>
     \/ /\ bytes' = bytes + n + ScratchBytes
        /\ scratch' = [scratch EXCEPT ![p] = n + ScratchBytes]
        /\ Go(p, IF call = "decode" THEN "decoded" ELSE "derived")
        /\ UNCHANGED raised
  /\ UNCHANGED <<kind, h, r, b, at, node, made, size, base>>

\* Faulty variant of EndCall: the count is not told of the scratch vectors.
EndCallUncounted(p, call, n) ==
  /\ pc[p] = call
  /\ Make(n)
  /\ bytes' = bytes
  /\ scratch' = [scratch EXCEPT ![p] = 0]
  /\ IF call = "decoded" THEN r' = [r EXCEPT ![p] = made + 1] /\ UNCHANGED b
                         ELSE b' = [b EXCEPT ![p] = made + 1] /\ UNCHANGED r
  /\ Go(p, IF call = "decoded" /\ kind[p] = "gradient" THEN "backward" ELSE "read")
  /\ UNCHANGED <<kind, h, raised, at, node, base, misuse>>

\* It frees its scratch vectors and hands out the object.
EndCall(p, call, n) ==
  /\ pc[p] = call
  /\ Make(n)
  /\ bytes' = bytes - ScratchBytes
  /\ scratch' = [scratch EXCEPT ![p] = 0]
  /\ IF call = "decoded" THEN r' = [r EXCEPT ![p] = made + 1] /\ UNCHANGED b
                         ELSE b' = [b EXCEPT ![p] = made + 1] /\ UNCHANGED r
  /\ Go(p, IF call = "decoded" /\ kind[p] = "gradient" THEN "backward" ELSE "read")
  /\ UNCHANGED <<kind, h, raised, at, node, base, misuse>>

\* Tensors are made, checked and filled from the buffers of the object.
Read(p) ==
  /\ pc[p] = "read"
  /\ Passes(p, {IF b[p] # 0 THEN b[p] ELSE r[p]})
  /\ \/ Throw(p)
     \/ Go(p, IF kind[p] = "forward" THEN "keep" ELSE "release") /\ UNCHANGED raised
  /\ UNCHANGED <<kind, h, r, b, at, node, heap, base>>

\* ctx.state takes handle and result over.
Keep(p) ==
  /\ pc[p] = "keep"
  /\ node' = Append(node, [h |-> h[p], r |-> r[p], open |-> TRUE, reachable |-> TRUE])
  /\ Leave(p)
  /\ UNCHANGED <<heap, base, misuse>>

\* What a function frees of its own at its end, and in its handlers.
Owned(p) == {h[p], r[p], b[p]} \ {0}

\* The end of final_scores_forward and final_scores_backward, which still
\* reshapes the gradient it returns.
Release(p) ==
  /\ pc[p] = "release" /\ kind[p] # "backward"
  /\ Passes(p, Owned(p)) /\ Delete(Owned(p))
  /\ IF kind[p] = "gradient"
     THEN Go(p, "view") /\ UNCHANGED <<kind, h, r, b, raised, at>>
     ELSE Leave(p)
  /\ UNCHANGED <<node, made, scratch, base>>

View(p) ==
  /\ pc[p] = "view"
  /\ \/ Leave(p)
     \/ Throw(p) /\ UNCHANGED <<kind, h, r, b, at>>
  /\ UNCHANGED <<node, heap, base, misuse>>

\* Faulty variant of Catch: the result is forgotten.
CatchHandleOnly(p) ==
  /\ pc[p] = "catch" /\ kind[p] # "backward"
  /\ Passes(p, {h[p], b[p]} \ {0}) /\ Delete({h[p], b[p]} \ {0})
  /\ Leave(p)
  /\ UNCHANGED <<node, made, scratch, base>>

\* catch (...), or finally before the node has taken anything over.
Catch(p) ==
  /\ pc[p] = "catch" /\ kind[p] # "backward"
  /\ Passes(p, Owned(p)) /\ Delete(Owned(p))
  /\ Leave(p)
  /\ UNCHANGED <<node, made, scratch, base>>

\* Faulty variant of Finalized: closing a state does not disarm it.
FinalizedAgain(n) == {node[n].h, node[n].r}

\* The finalizer of a node's state frees result and handle, but only once.
Finalized(n) == IF node[n].open THEN {node[n].h, node[n].r} ELSE {}

\* finally of the backward pass: it frees what it made and closes the state.
FinishBackward(p) ==
  /\ pc[p] \in {"release", "catch"} /\ kind[p] = "backward"
  /\ LET objects == ({b[p]} \ {0}) \cup Finalized(at[p]) IN
       Passes(p, objects) /\ Delete(objects)
  /\ node' = [node EXCEPT ![at[p]].open = FALSE]
  /\ Leave(p)
  /\ UNCHANGED <<made, scratch, base>>

\* The collector takes a node that no graph holds any more.
Collect(n) ==
  /\ node[n].reachable /\ \A q \in Thread : at[q] # n
  /\ Uses(Collector, Finalized(n)) /\ Delete(Finalized(n))
  /\ node' = [node EXCEPT ![n].open = FALSE, ![n].reachable = FALSE]
  /\ UNCHANGED <<locals, made, scratch, base>>

\* dbs_allocator_counters_reset, called by any thread
ResetCounters ==
  /\ bytes' = 0
  /\ base' = InUse
  /\ UNCHANGED <<locals, node, made, size, scratch, misuse>>

-----------------------------------------------------------------------------
Init ==
  /\ kind = [p \in Thread |-> "none"] /\ pc = [p \in Thread |-> "idle"]
  /\ h = [p \in Thread |-> 0] /\ r = [p \in Thread |-> 0] /\ b = [p \in Thread |-> 0]
  /\ raised = [p \in Thread |-> ""] /\ at = [p \in Thread |-> 0]
  /\ node = <<>>
  /\ made = 0 /\ size = <<>>
  /\ bytes = 0 /\ base = 0 /\ scratch = [p \in Thread |-> 0]
  /\ misuse = {}

Next ==
  \/ \E p \in Thread :
       \/ \E k \in {"scores", "gradient", "forward"} : Enter(p, k)
       \/ \E n \in DOMAIN node : EnterBackward(p, n)
       \/ Create(p)
       \/ BeginCall(p, "decode", ResultBytes) \/ EndCall(p, "decoded", ResultBytes)
       \/ BeginCall(p, "backward", BackBytes) \/ EndCall(p, "derived", BackBytes)
       \/ Read(p) \/ Keep(p) \/ Release(p) \/ View(p) \/ Catch(p) \/ FinishBackward(p)
  \/ \E n \in DOMAIN node : Collect(n)
  \/ ResetCounters

Spec == Init /\ [][Next]_vars

-----------------------------------------------------------------------------
(***************************************************************************)
(* Properties.                                                             *)
(***************************************************************************)

(***************************************************************************)
(* Objects are passed to the library while they live, and freed once, but  *)
(* for two cases, which are as the code stands: the backward pass of a     *)
(* node whose state is closed already, because an earlier pass closed it   *)
(* and the graph was kept; and the handler of final_scores_backward, which *)
(* covers the return statement as well and frees everything a second time  *)
(* should building the returned view throw.                                *)
(***************************************************************************)
LifetimesRespected ==
  \A m \in misuse :
    \/ m.kind = "backward" /\ m.at = "backward" /\ m.closed
    \/ m.kind = "gradient" /\ m.at = "catch" /\ m.raised = "view"

(***************************************************************************)
(* Every live object has exactly one owner who is going to free it: the    *)
(* function that made it, or an open node; so nothing leaks on any path,   *)
(* and a node whose backward pass is over owns nothing.                    *)
(***************************************************************************)
Owners(o) ==
  {p \in Thread : o = b[p] \/ (kind[p] # "backward" /\ o \in {h[p], r[p]})}
  \cup {<<n>> : n \in {n \in DOMAIN node : node[n].open /\ o \in {node[n].h, node[n].r}}}

OneOwner == \A o \in live : Cardinality(Owners(o)) = 1

(***************************************************************************)
(* The byte count is what is in use, less what was in use at its last      *)
(* reset; so it returns to zero when all is freed unless it was reset in   *)
(* between, and then it ends below zero by just as much.                   *)
(***************************************************************************)
BytesBalanced == bytes = InUse - base
=============================================================================
