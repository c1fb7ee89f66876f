------------------------------ MODULE TopKInsert ------------------------------
(***************************************************************************)
(* insert_topk, loop iteration by loop iteration: the early return, the    *)
(* binary search for the slot, the shift of the tail and the store.        *)
(***************************************************************************)
EXTENDS Candidates

CONSTANT Offers  (* the candidates a step of the decoder may offer         *)

ASSUME OffersAssumption == Offers \subseteq Candidate

VARIABLES
  buffer,    (* top, the caller's array                                    *)
  offered,   (* history: the candidates whose offer has been decided       *)
  loop,      (* "idle" between calls, "search" and "shift" in the loops    *)
  entering,  (* c, the argument of the current call                        *)
  lo, hi,    (* the binary search's bracket; lo is pos in the shift loop   *)
  gap        (* i, the shift loop's index                                  *)

insertVars == <<buffer, offered, loop, entering, lo, hi, gap>>

InsertInit ==
  /\ buffer = EmptyBuffer
  /\ offered = {}
  /\ loop = "idle"
  /\ entering = Placeholder
  /\ lo = 0 /\ hi = 0 /\ gap = 0

\* Faulty variant of Reject: a tie on score alone is enough to return.
RejectOnScore(cand) ==
  /\ loop = "idle"
  /\ cand \notin offered
  /\ cand.score <= buffer[P - 1].score
  /\ offered' = offered \cup {cand}
  /\ UNCHANGED <<buffer, loop, entering, lo, hi, gap>>

\* The early return: c does not beat the last slot.
Reject(cand) ==
  /\ loop = "idle"
  /\ cand \notin offered
  /\ ~Better(cand, buffer[P - 1])
  /\ offered' = offered \cup {cand}
  /\ UNCHANGED <<buffer, loop, entering, lo, hi, gap>>

\* Faulty variant of Enter: the bracket reaches past the last slot.
EnterPastEnd(cand) ==
  /\ loop = "idle"
  /\ cand \notin offered
  /\ Better(cand, buffer[P - 1])
  /\ loop' = "search"
  /\ entering' = cand
  /\ lo' = 0
  /\ hi' = P
  /\ UNCHANGED <<buffer, offered, gap>>

\* The candidate enters the buffer: search the whole of it for its slot.
Enter(cand) ==
  /\ loop = "idle"
  /\ cand \notin offered
  /\ Better(cand, buffer[P - 1])
  /\ loop' = "search"
  /\ entering' = cand
  /\ lo' = 0
  /\ hi' = P - 1
  /\ UNCHANGED <<buffer, offered, gap>>

\* Faulty variant of Probe: lo = mid instead of lo = mid + 1.
ProbeStuck ==
  /\ loop = "search"
  /\ lo < hi
  /\ LET mid == lo + ((hi - lo) \div 2)
     IN  IF Better(entering, buffer[mid])
         THEN hi' = mid /\ UNCHANGED lo
         ELSE lo' = mid /\ UNCHANGED hi
  /\ UNCHANGED <<buffer, offered, loop, entering, gap>>

\* One iteration of while (lo < hi).
Probe ==
  /\ loop = "search"
  /\ lo < hi
  /\ LET mid == lo + ((hi - lo) \div 2)
     IN  IF Better(entering, buffer[mid])
         THEN hi' = mid /\ UNCHANGED lo
         ELSE lo' = mid + 1 /\ UNCHANGED hi
  /\ UNCHANGED <<buffer, offered, loop, entering, gap>>

\* Faulty variant of Locate: the shift starts one slot early.
LocateShort ==
  /\ loop = "search"
  /\ ~(lo < hi)
  /\ loop' = "shift"
  /\ gap' = P - 2
  /\ offered' = offered \cup {entering}
  /\ UNCHANGED <<buffer, entering, lo, hi>>

\* The search is over: pos = lo.
Locate ==
  /\ loop = "search"
  /\ ~(lo < hi)
  /\ loop' = "shift"
  /\ gap' = P - 1
  /\ offered' = offered \cup {entering}
  /\ UNCHANGED <<buffer, entering, lo, hi>>

\* One iteration of for (i = k - 1; i > pos; --i).
Shift ==
  /\ loop = "shift"
  /\ gap > lo
  /\ buffer' = [buffer EXCEPT ![gap] = buffer[gap - 1]]
  /\ gap' = gap - 1
  /\ UNCHANGED <<offered, loop, entering, lo, hi>>

\* top[pos] = c; the locals of the call are dead from here on.
Store ==
  /\ loop = "shift"
  /\ ~(gap > lo)
  /\ buffer' = [buffer EXCEPT ![lo] = entering]
  /\ loop' = "idle"
  /\ entering' = Placeholder
  /\ lo' = 0 /\ hi' = 0 /\ gap' = 0
  /\ UNCHANGED offered

InsertNext ==
  \/ \E cand \in Offers : Reject(cand) \/ Enter(cand)
  \/ Probe
  \/ Locate
  \/ Shift
  \/ Store

InsertSpec == InsertInit /\ [][InsertNext]_insertVars
InsertFairSpec ==
  InsertSpec /\ WF_insertVars(Probe \/ Locate \/ Shift \/ Store)

-----------------------------------------------------------------------------
\* The loops index the buffer only within its slots.
InsertTypeOK ==
  /\ buffer \in Buffer
  /\ offered \subseteq Offers
  /\ loop \in {"idle", "search", "shift"}
  /\ entering \in Offers \cup {Placeholder}
  /\ lo \in Slot /\ hi \in Slot /\ gap \in Slot

(***************************************************************************)
(* Refinement.  The offer takes effect when the search ends: from then on  *)
(* the caller will find the candidate in slot lo, and a slot between lo    *)
(* and gap is about to receive its left neighbour.                         *)
(***************************************************************************)
DecidedTop ==
  IF loop # "shift" THEN buffer
  ELSE [j \in Slot |-> IF j = lo THEN entering
                       ELSE IF lo < j /\ j <= gap THEN buffer[j - 1]
                       ELSE buffer[j]]

Buffered == INSTANCE TopKBuffer WITH top <- DecidedTop

\* The loops implement the one-step insertion: every state the callers can
\* observe is one the abstract buffer goes through, in the same order.
ImplementsBuffer == Buffered!Spec

\* Between calls of insert_topk the buffer holds the best P candidates offered.
BestBetweenCalls == loop = "idle" => HoldsBest(buffer, P, offered)

\* A call of insert_topk returns (both loops are bounded).
CallReturns == loop # "idle" ~> loop = "idle"
=============================================================================
