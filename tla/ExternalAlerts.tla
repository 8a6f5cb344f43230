--------------------------- MODULE ExternalAlerts ---------------------------
(***************************************************************************)
(* The signed webhook of security alerts: deliveries with an idempotency   *)
(* key, a bounded number of posts, and one circuit for the process         *)
(* (preproduction/alerts.py).                                              *)
(*                                                                         *)
(* The row of a key is inserted and flushed first; resolving the signing   *)
(* credential commits it (governance/secrets.py, resolve), and the posts   *)
(* come after that commit.  The database lets one session insert a key.    *)
(***************************************************************************)
EXTENDS Naturals

CONSTANTS
  Keys,          \* idempotency keys: an alert with its count and status
  Calls,         \* concurrent deliveries
  MaxAttempts,   \* external_alert_max_attempts
  Threshold      \* external_alert_circuit_threshold

VARIABLES
  row,        \* external_alert_delivery by key
  posts,      \* history: posts the endpoint has received, by key
  accepted,   \* history: keys the endpoint has answered with 2xx
  circuit,    \* _CIRCUIT
  call        \* what each delivery does

vars == <<row, posts, accepted, circuit, call>>

Idle == [pc |-> "idle", key |-> "none", attempt |-> 0]

(* Rows, circuit and calls have their types.                               *)
TypeOK ==
  /\ row \in [Keys -> {"NONE", "PENDING", "FAILED", "DELIVERED"}]
  /\ posts \in [Keys -> 0 .. MaxAttempts + 1]
  /\ accepted \in SUBSET Keys
  /\ circuit \in [failures : 0 .. Threshold, open : BOOLEAN]
  /\ call \in [Calls -> [pc : {"idle", "deliver", "insert", "flushed", "post", "answered"},
                         key : Keys \cup {"none"}, attempt : 0 .. MaxAttempts]]

Init ==
  /\ row = [k \in Keys |-> "NONE"]
  /\ posts = [k \in Keys |-> 0] /\ accepted = {}
  /\ circuit = [failures |-> 0, open |-> FALSE]
  /\ call = [c \in Calls |-> Idle]

Done(c) == call' = [call EXCEPT ![c] = Idle]

(* deliver: authorization, settings and the circuit; a refusal is Reject.  *)
Deliver(c, k) ==
  /\ call[c].pc = "idle" /\ ~circuit.open
  /\ call' = [call EXCEPT ![c] = [Idle EXCEPT !.pc = "deliver", !.key = k]]
  /\ UNCHANGED <<row, posts, accepted, circuit>>

(* A row with the key, whatever its status, is returned as a replay.       *)
LookUp(c) ==
  /\ call[c].pc = "deliver"
  /\ IF row[call[c].key] # "NONE" THEN Done(c)
     ELSE call' = [call EXCEPT ![c].pc = "insert"]
  /\ UNCHANGED <<row, posts, accepted, circuit>>

(* The flush waits for another session that has inserted the key, and is   *)
(* an error if that one has committed.                                     *)
Insert(c) ==
  /\ call[c].pc = "insert"
  /\ \A d \in Calls : call[d].pc = "flushed" => call[d].key # call[c].key
  /\ IF row[call[c].key] # "NONE" THEN Done(c)
     ELSE call' = [call EXCEPT ![c].pc = "flushed"]
  /\ UNCHANGED <<row, posts, accepted, circuit>>

(* resolve commits the PENDING row together with its audit.                *)
Resolve(c) ==
  /\ call[c].pc = "flushed"
  /\ row' = [row EXCEPT ![call[c].key] = "PENDING"]
  /\ call' = [call EXCEPT ![c].pc = "post"]
  /\ UNCHANGED <<posts, accepted, circuit>>

(* The credential cannot be resolved.                                      *)
ResolveFails(c) ==
  /\ call[c].pc = "flushed"
  /\ row' = [row EXCEPT ![call[c].key] = "FAILED"]
  /\ Done(c)
  /\ UNCHANGED <<posts, accepted, circuit>>

(* One post reaches the endpoint or not, and its answer arrives or not: a  *)
(* timeout is an error whether the endpoint has accepted or not.           *)
Post(c, reaches, accepts, arrives) ==
  LET k == call[c].key IN
  /\ call[c].pc = "post" /\ call[c].attempt < MaxAttempts
  /\ posts' = [posts EXCEPT ![k] = IF reaches /\ @ <= MaxAttempts THEN @ + 1 ELSE @]
  /\ accepted' = IF reaches /\ accepts THEN accepted \cup {k} ELSE accepted
  /\ call' = [call EXCEPT ![c].attempt = @ + 1,
                          ![c].pc = IF reaches /\ accepts /\ arrives THEN "answered" ELSE "post"]
  /\ UNCHANGED <<row, circuit>>

Succeed(c) ==
  /\ call[c].pc = "answered"
  /\ row' = [row EXCEPT ![call[c].key] = "DELIVERED"]
  /\ circuit' = [failures |-> 0, open |-> FALSE]
  /\ Done(c)
  /\ UNCHANGED <<posts, accepted>>

(* The failures are not reset when the open period ends, so the next one   *)
(* opens the circuit again.                                                *)
Fail(c) ==
  LET n == IF circuit.failures < Threshold THEN circuit.failures + 1 ELSE Threshold IN
  /\ call[c].pc = "post" /\ call[c].attempt = MaxAttempts
  /\ row' = [row EXCEPT ![call[c].key] = "FAILED"]
  /\ circuit' = [failures |-> n, open |-> circuit.open \/ n = Threshold]
  /\ Done(c)
  /\ UNCHANGED <<posts, accepted>>

(* The process stops, or the request fails: what is not committed is gone. *)
Crash(c) ==
  /\ call[c].pc # "idle"
  /\ Done(c)
  /\ UNCHANGED <<row, posts, accepted, circuit>>

(* recovery_seconds have passed.                                           *)
CircuitCloses ==
  /\ circuit.open
  /\ circuit' = [circuit EXCEPT !.open = FALSE]
  /\ UNCHANGED <<row, posts, accepted, call>>

Next ==
  \/ \E c \in Calls : (\E k \in Keys : Deliver(c, k)) \/ LookUp(c) \/ Insert(c) \/ Resolve(c)
       \/ ResolveFails(c) \/ (\E reaches, accepts, arrives \in BOOLEAN : Post(c, reaches, accepts, arrives))
       \/ Succeed(c) \/ Fail(c) \/ Crash(c)
  \/ CircuitCloses

Spec == Init /\ [][Next]_vars

----------------------------------------------------------------------------
(* Properties.                                                             *)

(* docs/platformization/p4/09_EXTERNAL_ALERT_ADAPTER.md: a repeated call   *)
(* with the same idempotency key does not deliver again.  The endpoint has *)
(* at most the posts of one call, however calls overlap, time out or stop  *)
(* between the commit of the row and the post.                             *)
OneDeliveryPerKey == \A k \in Keys : posts[k] <= MaxAttempts

(* DELIVERED is never written for an alert the endpoint has not accepted.  *)
DeliveredWasAccepted == \A k \in Keys : row[k] = "DELIVERED" => k \in accepted

(* Once written, the outcome of a key is not written over by another call. *)
OutcomeIsFinal ==
  [][\A k \in Keys : row[k] \in {"FAILED", "DELIVERED"} => row'[k] = row[k]]_vars

(* The invariants of external deliveries (preproduction/alerts.py).        *)
DeliverySafe == TypeOK /\ OneDeliveryPerKey /\ DeliveredWasAccepted
=============================================================================
