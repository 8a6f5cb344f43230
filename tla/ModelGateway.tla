---------------------------- MODULE ModelGateway ----------------------------
(***************************************************************************)
(* The model gateway: calls that try the primary model of their task and   *)
(* its fallback, each with bounded retries and a circuit per model         *)
(* configuration (ai/model_gateway/router.py).                             *)
(*                                                                         *)
(* Nothing is locked.  A circuit is an object in a dictionary; a success,  *)
(* and the end of the recovery time, put a fresh one in its place, while   *)
(* failure_count += 1 reads and writes the object the call has taken out.  *)
(***************************************************************************)
EXTENDS Naturals, Sequences

CONSTANTS
  Models,       \* model configurations
  Routes,       \* routes of the calls: sequences of models
  Calls,        \* concurrent calls
  Threshold,    \* failure_threshold
  MaxAttempts   \* 1 + max_retries

VARIABLES
  circuit,    \* the circuit each model has in the dictionary
  failures,   \* history: failed attempts on a model since that circuit is there
  call        \* what each call does

vars == <<circuit, failures, call>>

Fresh == [count |-> 0, opened |-> "no"]
Idle  == [pc |-> "idle", route |-> <<>>, attempt |-> 0, held |-> FALSE, count |-> 0]

(* Every circuit and call has its type; counters above the threshold, and  *)
(* the history with them, are cut off at it.                               *)
TypeOK ==
  /\ circuit \in [Models -> [count : 0 .. Threshold, opened : {"no", "open", "due"}]]
  /\ failures \in [Models -> 0 .. Threshold]
  /\ \A c \in Calls :
       /\ call[c].pc \in {"idle", "admit", "calling", "failed", "count"}
       /\ call[c].attempt \in 0 .. MaxAttempts /\ call[c].held \in BOOLEAN
       /\ call[c].count \in 0 .. Threshold
       /\ call[c].pc # "idle" => call[c].route # <<>>

Init ==
  /\ circuit = [m \in Models |-> Fresh]
  /\ failures = [m \in Models |-> 0]
  /\ call = [c \in Calls |-> Idle]

Bounded(n) == IF n > Threshold THEN Threshold ELSE n
Model(c)   == Head(call[c].route)

(* complete takes the primary and its fallback, complete_with_config one.  *)
Start(c, route) ==
  /\ call[c].pc = "idle"
  /\ call' = [call EXCEPT ![c] = [Idle EXCEPT !.pc = "admit", !.route = route]]
  /\ UNCHANGED <<circuit, failures>>

(* The error of a model: the next one of the route, or the caller's error. *)
NextModel(c) ==
  call' = [call EXCEPT ![c] =
    IF Len(call[c].route) = 1 THEN Idle
    ELSE [Idle EXCEPT !.pc = "admit", !.route = Tail(call[c].route)]]

(* Calls that have taken the circuit of m out of the dictionary now hold   *)
(* an object that is in it no more.                                        *)
Detached(m) == [c \in Calls |->
  IF call[c].held /\ Model(c) = m THEN [call[c] EXCEPT !.held = FALSE] ELSE call[c]]

(* Data classification not allowed, no provider, or an open circuit.       *)
Deny(c) ==
  /\ call[c].pc = "admit"
  /\ NextModel(c)
  /\ UNCHANGED <<circuit, failures>>

(* Variant: the recovered circuit is reset in place.                       *)
AdmitResetting(c) ==
  LET m == Model(c) IN
  /\ call[c].pc = "admit" /\ circuit[m].opened # "open"
  /\ IF circuit[m].opened = "due"
     THEN /\ circuit' = [circuit EXCEPT ![m] = Fresh] /\ failures' = [failures EXCEPT ![m] = 0]
          /\ call' = [call EXCEPT ![c].pc = "calling", ![c].attempt = 1]
     ELSE /\ call' = [call EXCEPT ![c].pc = "calling", ![c].attempt = 1]
          /\ UNCHANGED <<circuit, failures>>

(* _assert_circuit; a circuit whose recovery time is over is replaced, and *)
(* every call that comes then is let through.                              *)
Admit(c) ==
  LET m == Model(c) IN
  /\ call[c].pc = "admit" /\ circuit[m].opened # "open"
  /\ IF circuit[m].opened = "due"
     THEN /\ circuit' = [circuit EXCEPT ![m] = Fresh] /\ failures' = [failures EXCEPT ![m] = 0]
          /\ call' = [Detached(m) EXCEPT ![c].pc = "calling", ![c].attempt = 1]
     ELSE /\ call' = [call EXCEPT ![c].pc = "calling", ![c].attempt = 1]
          /\ UNCHANGED <<circuit, failures>>

Succeed(c) ==
  LET m == Model(c) IN
  /\ call[c].pc = "calling"
  /\ circuit' = [circuit EXCEPT ![m] = Fresh] /\ failures' = [failures EXCEPT ![m] = 0]
  /\ call' = [Detached(m) EXCEPT ![c] = Idle]

(* A retryable error is tried again up to the limit.                       *)
Retry(c) ==
  /\ call[c].pc = "calling" /\ call[c].attempt < MaxAttempts
  /\ call' = [call EXCEPT ![c].attempt = @ + 1]
  /\ UNCHANGED <<circuit, failures>>

GiveUp(c) ==
  /\ call[c].pc = "calling"
  /\ call' = [call EXCEPT ![c].pc = "failed"]
  /\ UNCHANGED <<circuit, failures>>

(* The circuit is taken out and its count read ...                         *)
TakeCircuit(c) ==
  /\ call[c].pc = "failed"
  /\ failures' = [failures EXCEPT ![Model(c)] = Bounded(@ + 1)]
  /\ call' = [call EXCEPT ![c].pc = "count", ![c].held = TRUE,
                          ![c].count = circuit[Model(c)].count]
  /\ UNCHANGED circuit

(* ... and written back, one higher, to that object; with the threshold    *)
(* reached it opens.                                                       *)
CountFailure(c) ==
  LET m == Model(c)  n == Bounded(call[c].count + 1) IN
  /\ call[c].pc = "count"
  /\ IF call[c].held
     THEN circuit' = [circuit EXCEPT ![m] =
            [count |-> n, opened |-> IF n >= Threshold THEN "open" ELSE @.opened]]
     ELSE UNCHANGED circuit
  /\ NextModel(c)
  /\ UNCHANGED failures

(* recovery_seconds have passed.                                           *)
Recover(m) ==
  /\ circuit[m].opened = "open"
  /\ circuit' = [circuit EXCEPT ![m].opened = "due"]
  /\ UNCHANGED <<failures, call>>

Next ==
  \/ \E c \in Calls : (\E route \in Routes : Start(c, route)) \/ Deny(c) \/ Admit(c)
       \/ Succeed(c) \/ Retry(c) \/ GiveUp(c) \/ TakeCircuit(c) \/ CountFailure(c)
  \/ \E m \in Models : Recover(m)

Spec == Init /\ [][Next]_vars

----------------------------------------------------------------------------
(* Properties.                                                             *)

(* A circuit that keeps callers away has had failure_threshold failures    *)
(* since the last success or recovery: calls that count without a lock may *)
(* lose a failure, never make one up, although a call may write back a     *)
(* count it read before the circuit was replaced.                          *)
OpenMeansFailures ==
  \A m \in Models : circuit[m].opened # "no" => failures[m] = Threshold

(* The count never runs ahead of the failures there have been.             *)
CountIsBacked == \A m \in Models : circuit[m].count <= failures[m]

(* The invariants of the circuits of the models (router.py).               *)
GatewaySafe == TypeOK /\ OpenMeansFailures /\ CountIsBacked
=============================================================================
