--------------------------- MODULE MemoryMaintain ---------------------------
(***************************************************************************)
(* The MAINTAIN tasks of the scheduler: workers that lease a task, let     *)
(* maintain end or reduce records in a commit of its own, write outbox     *)
(* events for the ended ones and drop their derived copies                 *)
(* (memory/scheduler.py, lifecycle.py, jobs.py).                           *)
(*                                                                         *)
(* A record is LIVE while it can be recalled, RETIRED once its status is   *)
(* COLD, ARCHIVED or REVOKED, STALE when another session has written a     *)
(* live status over that (its validity has ended all the same), and        *)
(* DELETED; MemoryFacts has the rows behind this.  Deadlines are left out: *)
(* a lease may expire and a retry may be due at any moment.                *)
(***************************************************************************)
EXTENDS LifecycleContracts

CONSTANTS
  Records,      \* memory_record rows of the scenario
  Tasks,        \* MAINTAIN tasks, one per minute
  Workers,      \* lifecycle workers
  MaxAttempts   \* max_attempts of a task and of its events

VARIABLES
  rec,      \* what each record is to recall
  copies,   \* records that have a copy in the derived store
  task,     \* memory_lifecycle_task
  event,    \* memory_lifecycle_outbox, by task and record
  job       \* what each worker holds

vars == <<rec, copies, task, event, job>>

EventRow == [status : OutboxStatus, attempts : 0 .. MaxAttempts]
NoEvents == [r \in Records |-> NoEvent]
NoJob    == [op |-> "idle", task |-> "none", ends |-> {}, after |-> NoEvents]

(* Every row and worker has its type, and no counter leaves its budget.    *)
TypeOK ==
  /\ rec \in [Records -> {"LIVE", "RETIRED", "STALE", "DELETED"}]
  /\ copies \in SUBSET Records
  /\ task \in [Tasks -> [status : TaskStatus, attempts : 0 .. MaxAttempts, locked : BOOLEAN]]
  /\ event \in [Tasks -> [Records -> EventRow]]
  /\ job \in [Workers -> [op : {"idle", "claimed", "maintain", "dispatch", "settle"},
                          task : Tasks \cup {"none"}, ends : SUBSET Records,
                          after : [Records -> EventRow]]]

Init ==
  /\ rec = [r \in Records |-> "LIVE"]
  /\ copies = Records
  /\ task = [t \in Tasks |-> [status |-> "NONE", attempts |-> 0, locked |-> FALSE]]
  /\ event = [t \in Tasks |-> NoEvents]
  /\ job = [w \in Workers |-> NoJob]

Done(w) == job' = [job EXCEPT ![w] = NoJob]

(* enqueue_maintenance.                                                    *)
Enqueue(t) ==
  /\ task[t].status = "NONE"
  /\ task' = [task EXCEPT ![t].status = "PENDING"]
  /\ UNCHANGED <<rec, copies, event, job>>

Claim(w, t) ==
  /\ job[w].op = "idle" /\ Due(task[t])
  /\ task' = [task EXCEPT ![t] = [status |-> "RUNNING", locked |-> TRUE,
                                  attempts |-> Bump(@.attempts, MaxAttempts)]]
  /\ job' = [job EXCEPT ![w] = [NoJob EXCEPT !.op = "claimed", !.task = t]]
  /\ UNCHANGED <<rec, copies, event>>

(* maintain selects the records that are due to end.  The query does not   *)
(* look at valid_to, so a STALE one may be among them.                     *)
MaintainRead(w, ends) ==
  /\ job[w].op = "claimed"
  /\ \A r \in ends : rec[r] \in {"LIVE", "STALE"}
  /\ job' = [job EXCEPT ![w].op = "maintain", ![w].ends = ends]
  /\ UNCHANGED <<rec, copies, task, event>>

(* maintain's own commit; the ids live in the worker's memory until its    *)
(* next one.  A record deleted since keeps deleted_at.                     *)
MaintainCommit(w) ==
  /\ job[w].op = "maintain"
  /\ rec' = [r \in Records |-> IF r \in job[w].ends /\ rec[r] # "DELETED"
                               THEN "RETIRED" ELSE rec[r]]
  /\ job' = [job EXCEPT ![w].op = "dispatch"]
  /\ UNCHANGED <<copies, task, event>>

Fresh(w) == {r \in job[w].ends : ~Exists(event[job[w].task][r])}

(* ensure_outbox (flushed, not committed: another worker that inserts the  *)
(* same event waits) and the calls of the store, for the new events and    *)
(* for those left open before.                                             *)
Dispatch(w, confirmed) ==
  LET t     == job[w].task
      tries == Fresh(w) \cup {r \in Records : Open(event[t][r])}
  IN
  /\ job[w].op = "dispatch"
  /\ \A k \in Workers : job[k].op = "settle" /\ job[k].task = t =>
       \A r \in Fresh(w) : ~Exists(job[k].after[r])
  /\ confirmed \in SUBSET tries
  /\ copies' = copies \ confirmed
  /\ job' = [job EXCEPT ![w].op = "settle", ![w].after =
       [r \in Records |-> IF r \in tries
                          THEN EventAfter(event[t][r].attempts, r \in confirmed, MaxAttempts)
                          ELSE NoEvent]]
  /\ UNCHANGED <<rec, task, event>>

(* Variant: only the events of this attempt are asked.                     *)
SettleOwn(w) ==
  LET t      == job[w].task
      listed == {r \in Records : Exists(job[w].after[r])}
      after  == [r \in Records |-> IF r \in listed THEN Written(event[t][r], job[w].after[r])
                                     ELSE event[t][r]]
  IN
  /\ job[w].op = "settle"
  /\ event' = [event EXCEPT ![t] = after]
  /\ task' = [task EXCEPT
       ![t].status = StatusAfter({after[r] : r \in listed}, listed \cap copies = {}),
       ![t].locked = FALSE]
  /\ Done(w)
  /\ UNCHANGED <<rec, copies>>

(* verify and the worker's commit.                                         *)
Settle(w) ==
  LET t        == job[w].task
      after    == [r \in Records |-> IF Exists(job[w].after[r])
                                     THEN Written(event[t][r], job[w].after[r])
                                     ELSE event[t][r]]
      listed   == {r \in Records : Exists(after[r])}
      verified == /\ \A r \in job[w].ends : rec[r] \in {"RETIRED", "DELETED"}
                  /\ listed \cap copies = {}
  IN
  /\ job[w].op = "settle"
  /\ event' = [event EXCEPT ![t] = after]
  /\ task' = [task EXCEPT ![t].status = StatusAfter({after[r] : r \in listed}, verified),
                          ![t].locked = FALSE]
  /\ Done(w)
  /\ UNCHANGED <<rec, copies>>

(* The except branch of run_once; what maintain committed stays.           *)
WorkerError(w) ==
  /\ job[w].op # "idle"
  /\ task' = [task EXCEPT ![job[w].task] =
       [@ EXCEPT !.status = StatusAfterError(task[job[w].task].attempts, MaxAttempts),
                 !.locked = FALSE]]
  /\ Done(w)
  /\ UNCHANGED <<rec, copies, event>>

Crash(w) ==
  /\ job[w].op # "idle"
  /\ Done(w)
  /\ UNCHANGED <<rec, copies, task, event>>

(* Other sessions: a deletion, or a recall that writes ACTIVE over what    *)
(* maintain has committed since.                                           *)
Forget(r) ==
  /\ rec[r] # "DELETED"
  /\ rec' = [rec EXCEPT ![r] = "DELETED"]
  /\ UNCHANGED <<copies, task, event, job>>

StaleRecall(r) ==
  /\ rec[r] = "RETIRED"
  /\ rec' = [rec EXCEPT ![r] = "STALE"]
  /\ UNCHANGED <<copies, task, event, job>>

Work(w) ==
  \/ \E t \in Tasks : Claim(w, t)
  \/ \E ends \in SUBSET Records : MaintainRead(w, ends)
  \/ MaintainCommit(w)
  \/ \E confirmed \in SUBSET Records : Dispatch(w, confirmed)
  \/ Settle(w) \/ WorkerError(w)

Next ==
  \/ \E t \in Tasks : Enqueue(t)
  \/ \E w \in Workers : Work(w) \/ Crash(w)
  \/ \E r \in Records : Forget(r) \/ StaleRecall(r)

Spec == Init /\ [][Next]_vars

----------------------------------------------------------------------------
(* Properties.                                                             *)

(* Maintenance never drops the derived copy of a record that can still be  *)
(* recalled, whichever worker holds which task, with leases lost and tasks *)
(* repeated (run_once: maintain commits before the outbox is dispatched).  *)
LiveRecordsKeepCopies == \A r \in Records : rec[r] = "LIVE" => r \in copies

(* A task that says COMPLETED has dropped the copy of every record that    *)
(* any of its attempts wrote an event for, although a retry starts from an *)
(* empty list of ids (dispatch_and_verify selects the events by task).     *)
CompletedReachedCopies ==
  \A t \in Tasks, r \in Records :
    task[t].status = "COMPLETED" /\ Exists(event[t][r]) => r \notin copies

(* The invariants of maintenance and its outbox (scheduler.py, jobs.py).   *)
MaintainSafe == TypeOK /\ LiveRecordsKeepCopies /\ CompletedReachedCopies

(* docs/platformization/memory41/00_MEMORY_LIFECYCLE_41_IMPLEMENTATION.md, *)
(* "outbox -> retry -> cross-store delete -> delete verification": once    *)
(* the tasks are completed no ended record has a derived copy left.        *)
RetiredReachCopies ==
  (\A t \in Tasks : task[t].status = "COMPLETED") =>
    \A r \in Records : rec[r] = "RETIRED" => r \notin copies
=============================================================================
