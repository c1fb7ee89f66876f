----------------------------- MODULE BatchPromise -----------------------------
(***************************************************************************)
(* What a batch decode promises its caller, whatever its threads do: a     *)
(* call hands over the results of all its items, each decoded with the     *)
(* caller's kernel, or it hands over nothing and says why.  BatchDecode    *)
(* implements this module.                                                 *)
(***************************************************************************)
EXTENDS Integers

CONSTANTS
  Kernels,  (* the kernels a thread may have selected                      *)
  Sizes,    (* the batch sizes callers pass                                *)
  Null      (* no result                                                   *)

VARIABLES
  open,    (* whether a call is in progress                                *)
  size,    (* its batch size                                               *)
  kernel,  (* the kernel its caller had selected                           *)
  out,     (* *out_result: Null, or the kernel that decoded each item      *)
  rc       (* the code the last call returned                              *)

vars == <<open, size, kernel, out, rc>>

Init ==
  /\ open = FALSE
  /\ size = 0
  /\ kernel \in Kernels
  /\ out = Null
  /\ rc = 0

Begin ==
  /\ ~open
  /\ open' = TRUE
  /\ size' \in {n \in Sizes : n > 0}
  /\ kernel' \in Kernels
  /\ out' = Null
  /\ UNCHANGED rc

\* Arguments that make no batch are turned down at once.
Refuse ==
  /\ ~open
  /\ out' = Null
  /\ rc' = -1
  /\ UNCHANGED <<open, size, kernel>>

Succeed ==
  /\ open
  /\ open' = FALSE
  /\ out' = [b \in 0 .. size - 1 |-> kernel]
  /\ rc' = 0
  /\ UNCHANGED <<size, kernel>>

Fail ==
  /\ open
  /\ open' = FALSE
  /\ rc' = -2
  /\ UNCHANGED <<size, kernel, out>>

Next == Begin \/ Refuse \/ Succeed \/ Fail

Spec == Init /\ [][Next]_vars
=============================================================================
