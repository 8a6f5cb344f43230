--------------------------- MODULE BusinessAlerts ---------------------------
(***************************************************************************)
(* The life of a business alert: generation under a deduplication key with *)
(* two delivery attempts, the transitions with their times, and the        *)
(* timeline (business_loop/alerts.py).                                     *)
(***************************************************************************)
EXTENDS Naturals, Sequences

CONSTANTS
  Requests,      \* concurrent requests
  MaxTimeline    \* bound: events of the timeline

Status == {"NONE", "OPEN", "ASSIGNED", "ACKNOWLEDGED", "IN_PROGRESS", "RESOLVED", "VERIFIED",
           "CLOSED", "REOPENED"}
Times  == {"acknowledged", "resolved", "verified", "closed"}

VARIABLES
  status,     \* p6_alert_event.status
  times,      \* the time columns that are set
  attempts,   \* outcomes of the delivery attempts, oldest first
  timeline,   \* before_state and after_state of the timeline events
  calm,       \* history: no two requests have overlapped
  job         \* what each request has loaded and planned

vars == <<status, times, attempts, timeline, calm, job>>

NoJob == [op |-> "idle", from |-> "NONE", to |-> "KEEP", set |-> {}, clear |-> {}]

TRANSITIONS ==
  [assign      |-> [from |-> {"OPEN", "REOPENED", "ASSIGNED"}, to |-> "ASSIGNED"],
   acknowledge |-> [from |-> {"OPEN", "ASSIGNED", "REOPENED"}, to |-> "ACKNOWLEDGED"],
   in_progress |-> [from |-> {"ACKNOWLEDGED"}, to |-> "IN_PROGRESS"],
   resolve     |-> [from |-> {"ACKNOWLEDGED", "IN_PROGRESS"}, to |-> "RESOLVED"],
   verify      |-> [from |-> {"RESOLVED"}, to |-> "VERIFIED"],
   close       |-> [from |-> {"VERIFIED"}, to |-> "CLOSED"],
   reopen      |-> [from |-> {"RESOLVED", "VERIFIED", "CLOSED"}, to |-> "REOPENED"]]

(* The alert, its requests and its timeline have their types.              *)
TypeOK ==
  /\ status \in Status /\ times \subseteq Times /\ calm \in BOOLEAN
  /\ attempts \in UNION {[1 .. n -> {"ACKNOWLEDGED", "FAILED"}] : n \in 0 .. 2}
  /\ timeline \in Seq([before : Status, after : Status]) /\ Len(timeline) <= MaxTimeline
  /\ job \in [Requests ->
       [op : {"idle", "generate", "comment"} \cup DOMAIN TRANSITIONS, from : Status,
        to : Status \cup {"KEEP"}, set : SUBSET Times, clear : SUBSET Times]]

Init ==
  /\ status = "NONE" /\ times = {} /\ attempts = <<>> /\ timeline = <<>> /\ calm = TRUE
  /\ job = [j \in Requests |-> NoJob]

Plan(j, op, to, set, clear) ==
  /\ job[j].op = "idle" /\ Len(timeline) < MaxTimeline
  /\ job' = [job EXCEPT ![j] = [op |-> op, from |-> status, set |-> set, clear |-> clear,
                                to |-> IF to = status THEN "KEEP" ELSE to]]
  /\ calm' = (calm /\ \A k \in Requests : k # j => job[k].op = "idle")
  /\ UNCHANGED <<status, times, attempts, timeline>>

(* generate: no alert of the key has been found.  (When one is found, only *)
(* an audit record is written.)                                            *)
Generate(j) == status = "NONE" /\ Plan(j, "generate", "OPEN", {}, {})

Comment(j) == status # "NONE" /\ Plan(j, "comment", status, {}, {})

(* Variant: reopening keeps the times.                                     *)
StampsKept(op) ==
  CASE op = "acknowledge" -> [set |-> {"acknowledged"}, clear |-> {}]
    [] op = "resolve"     -> [set |-> {"resolved"}, clear |-> {}]
    [] op = "verify"      -> [set |-> {"verified"}, clear |-> {}]
    [] op = "close"       -> [set |-> {"closed"}, clear |-> {}]
    [] OTHER -> [set |-> {}, clear |-> {}]

(* The times a transition sets and clears.                                 *)
Stamps(op) ==
  CASE op = "acknowledge" -> [set |-> {"acknowledged"}, clear |-> {}]
    [] op = "resolve"     -> [set |-> {"resolved"}, clear |-> {}]
    [] op = "verify"      -> [set |-> {"verified"}, clear |-> {}]
    [] op = "close"       -> [set |-> {"closed"}, clear |-> {}]
    [] op = "reopen"      -> [set |-> {}, clear |-> {"resolved", "verified", "closed"}]
    [] OTHER -> [set |-> {}, clear |-> {}]

(* Times that are empty as loaded are not written again.                   *)
Transition(j, op) ==
  /\ status \in TRANSITIONS[op].from
  /\ Plan(j, op, TRANSITIONS[op].to, Stamps(op).set, Stamps(op).clear \cap times)

(* The alert, its first timeline event and its delivery attempts in one    *)
(* commit; a second insert under the key fails.                            *)
CommitGenerate(j, outcomes) ==
  /\ job[j].op = "generate" /\ status = "NONE"
  /\ status' = "OPEN" /\ attempts' = outcomes
  /\ timeline' = Append(timeline, [before |-> "NONE", after |-> "OPEN"])
  /\ job' = [job EXCEPT ![j] = NoJob]
  /\ UNCHANGED <<times, calm>>

(* _deliver: a second attempt only after a failed one.                     *)
Deliveries == {<<"ACKNOWLEDGED">>, <<"FAILED", "ACKNOWLEDGED">>, <<"FAILED", "FAILED">>}

(* The alert and the timeline event, from the status as loaded, in one     *)
(* commit.                                                                 *)
Commit(j) ==
  LET q == job[j] IN
  /\ q.op \notin {"idle", "generate"} /\ Len(timeline) < MaxTimeline
  /\ status' = IF q.to = "KEEP" THEN status ELSE q.to
  /\ times' = (times \ q.clear) \cup q.set
  /\ timeline' = Append(timeline, [before |-> q.from, after |-> IF q.to = "KEEP" THEN q.from ELSE q.to])
  /\ job' = [job EXCEPT ![j] = NoJob]
  /\ UNCHANGED <<attempts, calm>>

Abandon(j) ==
  /\ job[j].op # "idle"
  /\ job' = [job EXCEPT ![j] = NoJob]
  /\ UNCHANGED <<status, times, attempts, timeline, calm>>

Handle(j) ==
  \/ Generate(j) \/ Comment(j)
  \/ \E op \in DOMAIN TRANSITIONS : Transition(j, op)
  \/ \E outcomes \in Deliveries : CommitGenerate(j, outcomes)
  \/ Commit(j) \/ Abandon(j)

Next == \E j \in Requests : Handle(j)

Spec == Init /\ [][Next]_vars

----------------------------------------------------------------------------
(* Properties.                                                             *)

(* As long as requests do not overlap, the times agree with the status: a  *)
(* closed alert was resolved and verified since it was last reopened, and  *)
(* an alert at work bears none of these times.  (A close that overlaps a   *)
(* reopening closes without them.)                                         *)
CalmTimesFitStatus ==
  calm => /\ status = "CLOSED" <=> "closed" \in times
          /\ status \in {"VERIFIED", "CLOSED"} <=> "verified" \in times
          /\ status \in {"RESOLVED", "VERIFIED", "CLOSED"} <=> "resolved" \in times

(* As long as requests do not overlap, the timeline tells one story: every *)
(* event starts where the one before ended, and the last ends at the       *)
(* status of the alert.                                                    *)
CalmTimelineIsChain ==
  calm /\ timeline # <<>> =>
    /\ timeline[1].before = "NONE" /\ timeline[Len(timeline)].after = status
    /\ \A i \in 1 .. Len(timeline) - 1 : timeline[i + 1].before = timeline[i].after

(* However requests overlap, an alert is generated once: its timeline has  *)
(* one beginning, and what has been done since is never reset to OPEN.     *)
GeneratedOnce ==
  \A i \in 1 .. Len(timeline) : timeline[i].before = "NONE" <=> i = 1

(* The invariants of an alert and its timeline (alerts.py).                *)
AlertSafe == TypeOK /\ CalmTimesFitStatus /\ CalmTimelineIsChain /\ GeneratedOnce
=============================================================================
