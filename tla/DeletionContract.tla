-------------------------- MODULE DeletionContract --------------------------
(***************************************************************************)
(* What deleting a memory record promises, without the requests, workers,  *)
(* leases, retries and transactions that bring it about.  MemoryForget     *)
(* implements it.                                                          *)
(*                                                                         *)
(* A record is LIVE, CLEARED once a deletion passed the governance check,  *)
(* and DELETED for good.  Derived stores are only told to delete what is   *)
(* cleared, and a deletion is attested (its task says COMPLETED, or its    *)
(* stored result says verified) only when nothing is left.                 *)
(***************************************************************************)

CONSTANTS
  Records,   \* memory_id values
  Stores     \* configured derived stores

VARIABLES
  phase,     \* LIVE, CLEARED, DELETED
  hold,      \* governance blocks the record
  copy,      \* PRESENT, DOOMED (told to delete, not yet gone) or ABSENT
  attested   \* records whose deletion is said to be complete

contractVars == <<phase, hold, copy, attested>>

ContractInit ==
  /\ phase = [r \in Records |-> "LIVE"]
  /\ hold \in [Records -> BOOLEAN]
  /\ copy = [r \in Records |-> [s \in Stores |-> "PRESENT"]]
  /\ attested = {}

Gone(r) == \A s \in Stores : copy[r][s] = "ABSENT"

HoldOrRelease(r) ==
  /\ hold' = [hold EXCEPT ![r] = ~@]
  /\ UNCHANGED <<phase, copy, attested>>

(* The governance check passes.                                            *)
Clear(r) ==
  /\ phase[r] = "LIVE" /\ ~hold[r]
  /\ phase' = [phase EXCEPT ![r] = "CLEARED"]
  /\ UNCHANGED <<hold, copy, attested>>

(* The last handler that had cleared the record fails or stops.            *)
Lapse(r) ==
  /\ phase[r] = "CLEARED"
  /\ phase' = [phase EXCEPT ![r] = "LIVE"]
  /\ UNCHANGED <<hold, copy, attested>>

(* A store is told to delete its copy.                                     *)
Tell(r, s) ==
  /\ phase[r] # "LIVE"
  /\ \E after \in {"DOOMED", "ABSENT"} : copy' = [copy EXCEPT ![r][s] = after]
  /\ copy[r][s] # "ABSENT"
  /\ UNCHANGED <<phase, hold, attested>>

(* A store carries out a delete it was told of, whatever became of the     *)
(* deletion since.                                                         *)
Settle(r, s) ==
  /\ copy[r][s] = "DOOMED"
  /\ copy' = [copy EXCEPT ![r][s] = "ABSENT"]
  /\ UNCHANGED <<phase, hold, attested>>

(* The deletion is committed, and attested only if nothing is left.        *)
Finish(r) ==
  /\ phase[r] = "CLEARED"
  /\ phase' = [phase EXCEPT ![r] = "DELETED"]
  /\ \/ attested' = attested
     \/ Gone(r) /\ attested' = attested \cup {r}
  /\ UNCHANGED <<hold, copy>>

(* A later attempt attests, or a slower one takes it back: it says less    *)
(* than is true, never more.                                               *)
Attest(r) ==
  /\ phase[r] = "DELETED" /\ Gone(r)
  /\ attested' = attested \cup {r}
  /\ UNCHANGED <<phase, hold, copy>>

Retract(r) ==
  /\ attested' = attested \ {r}
  /\ UNCHANGED <<phase, hold, copy>>

ContractNext ==
  \E r \in Records :
    \/ HoldOrRelease(r) \/ Clear(r) \/ Lapse(r) \/ Finish(r) \/ Attest(r) \/ Retract(r)
    \/ \E s \in Stores : Tell(r, s) \/ Settle(r, s)

ContractSpec == ContractInit /\ [][ContractNext]_contractVars
=============================================================================
