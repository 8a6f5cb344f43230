---------------------------- MODULE PurgeContract ----------------------------
(***************************************************************************)
(* What forgetting a user promises, without the tasks, workers, leases,    *)
(* events and transactions that bring it about.  MemoryPurge implements    *)
(* it.                                                                     *)
(*                                                                         *)
(* Each record is LIVE, CLEARED once a purge has passed the governance     *)
(* check on it, and DELETED for good, as in DeletionContract.  What a      *)
(* purge adds is that a user asks for all of them: the records that are    *)
(* due to a request are those there were when it began, less those that    *)
(* it finds held, and a verified answer stands for them.  A purge may be   *)
(* carried out in pieces, by anyone, and any number of them at once.       *)
(***************************************************************************)

CONSTANTS
  Records,   \* memory_id values of the user
  Clients    \* requests

VARIABLES
  phase,     \* LIVE, CLEARED, DELETED
  hold,      \* governance blocks the record
  copy,      \* PRESENT or ABSENT, in Redis
  attested,  \* records of a purge that is said to be complete
  due,       \* the records a request has still to account for
  answer     \* whether the request was last told that they are erased

contractVars == <<phase, hold, copy, attested, due, answer>>

ContractInit ==
  /\ phase = [r \in Records |-> "LIVE"]
  /\ hold \in [Records -> BOOLEAN]
  /\ copy = [r \in Records |-> "PRESENT"]
  /\ attested = {}
  /\ due = [c \in Clients |-> {}]
  /\ answer = [c \in Clients |-> "none"]

----------------------------------------------------------------------------
(* What a step may do to the records.                                      *)

Cleared == {r \in Records : phase[r] = "CLEARED"}
Become(S, p) == phase' = [r \in Records |-> IF r \in S THEN p ELSE phase[r]]

(* Whatever it says, it does not say more than is true.                    *)
Attests == attested' \subseteq attested \cup {r \in Records : phase'[r] = "DELETED" /\ copy'[r] = "ABSENT"}
Retracts == attested' \subseteq attested

HoldOrRelease(r) ==
  /\ hold' = [hold EXCEPT ![r] = ~@]
  /\ UNCHANGED <<phase, copy, attested, due, answer>>

(* The governance check passes.                                            *)
Clear(r) ==
  /\ phase[r] = "LIVE" /\ ~hold[r]
  /\ Become({r}, "CLEARED")
  /\ UNCHANGED <<hold, copy, attested, due, answer>>

(* Redis is told to delete copies.                                         *)
Tell(S) ==
  /\ \A r \in S : phase[r] # "LIVE"
  /\ copy' = [r \in Records |-> IF r \in S THEN "ABSENT" ELSE copy[r]]
  /\ UNCHANGED <<phase, hold, attested, due, answer>>

(* A worker commits what was cleared, all of it or a part.                 *)
Finish(S) ==
  /\ S \subseteq Cleared /\ Become(S, "DELETED")
  /\ Attests
  /\ UNCHANGED <<hold, copy, due, answer>>

(* What had cleared these records fails or stops.                          *)
Lapse(S) ==
  /\ S \subseteq Cleared /\ Become(S, "LIVE")
  /\ Retracts
  /\ UNCHANGED <<hold, copy, due, answer>>

----------------------------------------------------------------------------
(* The requests.                                                           *)

Ask(c) ==
  /\ due' = [due EXCEPT ![c] = {r \in Records : phase[r] # "DELETED"}]
  /\ answer' = [answer EXCEPT ![c] = "none"]
  /\ UNCHANGED <<phase, hold, copy, attested>>

(* The answer to an earlier request, which promises nothing of this one.   *)
Refer(c) ==
  /\ answer' = [answer EXCEPT ![c] = "none"]
  /\ UNCHANGED <<phase, hold, copy, attested, due>>

(* A held record is kept; what was cleared before it is committed.         *)
Keep(c, r, S) ==
  /\ hold[r]
  /\ due' = [due EXCEPT ![c] = @ \ {r}]
  /\ S \subseteq Cleared /\ Become(S, "DELETED")
  /\ Retracts
  /\ UNCHANGED <<hold, copy, answer>>

(* The request commits and is answered.                                    *)
Answer(c, S) ==
  /\ S \subseteq Cleared /\ Become(S, "DELETED")
  /\ Attests
  /\ due' = [due EXCEPT ![c] = {}]
  /\ \/ answer' = [answer EXCEPT ![c] = "none"]
     \/ /\ \A r \in due[c] : phase'[r] = "DELETED" /\ copy[r] = "ABSENT"
        /\ answer' = [answer EXCEPT ![c] = "verified"]
  /\ UNCHANGED <<hold, copy>>

Fail(c, S) ==
  /\ S \subseteq Cleared /\ Become(S, "LIVE")
  /\ due' = [due EXCEPT ![c] = {}]
  /\ answer' = [answer EXCEPT ![c] = "none"]
  /\ UNCHANGED <<hold, copy, attested>>

ContractNext ==
  \/ \E r \in Records : HoldOrRelease(r) \/ Clear(r)
  \/ \E S \in SUBSET Records : Tell(S) \/ Finish(S) \/ Lapse(S)
  \/ \E c \in Clients : Ask(c) \/ Refer(c)
  \/ \E c \in Clients, S \in SUBSET Records :
       Answer(c, S) \/ Fail(c, S) \/ \E r \in Records : Keep(c, r, S)

ContractSpec == ContractInit /\ [][ContractNext]_contractVars
=============================================================================
