--------------------------- MODULE SecurityAlerts ---------------------------
(***************************************************************************)
(* The alert engine of the governance audit: every audited event of a rule *)
(* is counted on the alert of its subject and resource, which opens at the *)
(* threshold and may be acknowledged (governance/audit.py, api.py).        *)
(*                                                                         *)
(* One rule and one correlation key.  The alert is read, counted up and    *)
(* written without a lock or a unique key; its columns are written only if *)
(* they differ from what was read, and with the event in one commit.       *)
(***************************************************************************)
EXTENDS Naturals, FiniteSets, StatusSessions

CONSTANTS
  Alerts,      \* rows the alerts may take
  Requests,    \* sessions that record an event or acknowledge
  Threshold,   \* threshold of the rule
  MaxEvents    \* bound: events recorded

VARIABLES
  alert,    \* security_alert
  events,   \* history: events recorded
  seen,     \* history: events counted on each alert
  calm,     \* history: no two sessions have overlapped
  job       \* what each session is about to write

vars == <<alert, events, seen, calm, job>>

NoAlert == [status |-> "NONE", count |-> 0]
Idle    == [op |-> "idle", alert |-> "none", count |-> 0, status |-> "KEEP"]

(* Alerts and sessions have their types.                                   *)
TypeOK ==
  /\ alert \in [Alerts -> [status : {"NONE", "OBSERVING", "OPEN", "ACKNOWLEDGED"},
                           count : 0 .. MaxEvents]]
  /\ events \in 0 .. MaxEvents /\ seen \in [Alerts -> 0 .. MaxEvents] /\ calm \in BOOLEAN
  /\ job \in [Requests -> [op : {"idle", "observe", "acknowledge"}, alert : Alerts \cup {"none"},
                           count : 0 .. MaxEvents,
                           status : {"KEEP", "OBSERVING", "OPEN", "ACKNOWLEDGED"}]]

Init ==
  /\ alert = [a \in Alerts |-> NoAlert]
  /\ events = 0 /\ seen = [a \in Alerts |-> 0] /\ calm = TRUE
  /\ job = [j \in Requests |-> Idle]

Live == {a \in Alerts : alert[a].status \in {"OBSERVING", "OPEN"}}
Free == {a \in Alerts : alert[a].status = "NONE" /\ \A j \in Requests : job[j].alert # a}

Plan(j, op, a, count, status) ==
  /\ job[j].op = "idle"
  /\ job' = [job EXCEPT ![j] = [op |-> op, alert |-> a, count |-> count, status |-> status]]
  /\ calm' = (calm /\ Alone(job, j))
  /\ UNCHANGED <<alert, events, seen>>

(* The status that goes with a count, written if it is a change.           *)
Escalated(status, count) ==
  IF count >= Threshold /\ status # "OPEN" THEN "OPEN" ELSE "KEEP"

(* observe finds no alert that is observing or open ...                    *)
ObserveFirst(j, a) ==
  /\ Live = {} /\ a \in Free
  /\ Plan(j, "observe", a, 1, IF Threshold = 1 THEN "OPEN" ELSE "OBSERVING")

(* ... or the first one it finds is counted up.                            *)
ObserveAgain(j, a) ==
  /\ a \in Live /\ events < MaxEvents
  /\ LET n == alert[a].count + 1 IN
       Plan(j, "observe", a, n, Escalated(alert[a].status, n))

(* Acknowledging looks at no status, and an acknowledged alert is not      *)
(* written again.                                                          *)
Acknowledge(j, a) ==
  /\ alert[a].status \in {"OBSERVING", "OPEN"}
  /\ Plan(j, "acknowledge", a, 0, "ACKNOWLEDGED")

(* The caller's commit: event and alert together.                          *)
CommitEvent(j) ==
  LET a == job[j].alert IN
  /\ job[j].op = "observe" /\ events < MaxEvents
  /\ events' = events + 1 /\ seen' = [seen EXCEPT ![a] = @ + 1]
  /\ alert' = [alert EXCEPT ![a].count = job[j].count,
                            ![a].status = IF job[j].status = "KEEP" THEN @ ELSE job[j].status]
  /\ job' = [job EXCEPT ![j] = Idle]
  /\ UNCHANGED calm

CommitAcknowledge(j) ==
  /\ job[j].op = "acknowledge"
  /\ alert' = [alert EXCEPT ![job[j].alert].status = "ACKNOWLEDGED"]
  /\ job' = [job EXCEPT ![j] = Idle]
  /\ UNCHANGED <<events, seen, calm>>

(* The caller fails after all; the event goes with its transaction.        *)
Abandon(j) ==
  /\ job[j].op # "idle"
  /\ job' = [job EXCEPT ![j] = Idle]
  /\ UNCHANGED <<alert, events, seen, calm>>

Next == \E j \in Requests :
  \/ \E a \in Alerts : ObserveFirst(j, a) \/ ObserveAgain(j, a) \/ Acknowledge(j, a)
  \/ CommitEvent(j) \/ CommitAcknowledge(j) \/ Abandon(j)

Spec == Init /\ [][Next]_vars

----------------------------------------------------------------------------
(* Properties.                                                             *)

(* No false alarm: an open alert has had as many events of its own as the  *)
(* rule asks for, although counts are lost when sessions overlap and an    *)
(* acknowledged alert may be opened again by a session that read it before.*)
OpenHadItsEvents == \A a \in Alerts : alert[a].status = "OPEN" => seen[a] >= Threshold

(* As long as sessions do not overlap the count of an alert is the number  *)
(* of its events and no event is left uncounted.                           *)
CalmCountsAreExact ==
  calm => /\ \A a \in Alerts : alert[a].count = seen[a]
          /\ \A a \in Alerts : alert[a].count >= Threshold => alert[a].status # "OBSERVING"
          /\ Cardinality(Live) <= 1

(* The invariants of security alerts and their counts (audit.py).          *)
SecuritySafe == TypeOK /\ OpenHadItsEvents /\ CalmCountsAreExact
=============================================================================
