---------------------------- MODULE MemoryForget ----------------------------
(***************************************************************************)
(* Deleting one memory record.                                             *)
(*                                                                         *)
(* DELETE /memory/records/{id} (client actors) runs                        *)
(* MemoryDeletionService.delete_one; MemoryLifecycleWorker.run_once        *)
(* (worker actors) claims the same FORGET_MEMORY task when it is due.      *)
(* Both finish in CrossStoreDeleteCoordinator.dispatch_and_verify.  An     *)
(* action ends where a database transaction commits or blocks, or where an *)
(* external store answers; what a handler holds between two actions is in  *)
(* sess[a] and is lost when its process stops.                             *)
(*                                                                         *)
(* The idempotency key of delete_one names the record, so a task is named  *)
(* by its record here.                                                     *)
(***************************************************************************)
EXTENDS LifecycleContracts

CONSTANTS
  Records,      \* memory_id values
  Stores,       \* configured derived stores (REDIS, VECTOR, OBJECT)
  AsyncStores,  \* those that acknowledge a delete before it takes effect
  Clients,      \* concurrent delete_one requests
  Workers,      \* lifecycle workers, one per scheduler process
  MaxAttempts,  \* max_attempts of tasks and events
  MaxCrashes    \* bound: process stops in one behaviour

ASSUME ForgetAssumption ==
  /\ MaxAttempts \in Nat \ {0}
  /\ MaxCrashes \in Nat
  /\ AsyncStores \subseteq Stores
  /\ Clients \cap Workers = {}

VARIABLES
  record,   \* memory_record: LIVE, or DELETED with its content anonymised
  hold,     \* governance blocks the record: ACTIVE legal hold or retention
  task,     \* memory_lifecycle_task
  outbox,   \* memory_lifecycle_outbox, one event per record and store
  copy,     \* what the derived stores still hold
  sess,     \* what each handler keeps in memory and in its open transaction
  reply,    \* the last answer each client was given
  crashes

vars == <<record, hold, task, outbox, copy, sess, reply, crashes>>

Actors == Clients \cup Workers
NoRecord == "no record"

NoTask == [status |-> "NONE", attempts |-> 0, locked |-> FALSE, result |-> "NONE"]
Idle == [pc       |-> "idle",
         rec      |-> NoRecord,
         loaded   |-> "NONE",                       \* task.status as read
         attempts |-> 0,                            \* a client's attempt_count to write
         wrote    |-> FALSE,                        \* record UPDATE flushed
         seen     |-> {},                           \* outbox rows found by SELECT
         new      |-> {},                           \* outbox rows inserted
         tries    |-> [s \in Stores |-> 0],         \* event.attempt_count as read
         got      |-> [s \in Stores |-> "none"]]    \* outcome of store.delete

TaskRow == [status : TaskStatus, attempts : 0..MaxAttempts, locked : BOOLEAN,
            result : {"NONE", "UNVERIFIED", "VERIFIED"}]
EventRow == [status : OutboxStatus, attempts : 0..MaxAttempts]
Session == [pc : {"idle", "govern", "blocking", "flush", "dispatch"},
            rec : Records \cup {NoRecord},
            loaded : TaskStatus,
            attempts : 0..MaxAttempts,
            wrote : BOOLEAN,
            seen : SUBSET Stores,
            new : SUBSET Stores,
            tries : [Stores -> 0..MaxAttempts],
            got : [Stores -> {"none", "todo", "ok", "fail"}]]

TypeOK ==
  /\ record \in [Records -> {"LIVE", "DELETED"}]
  /\ hold \in [Records -> BOOLEAN]
  /\ task \in [Records -> TaskRow]
  /\ outbox \in [Records -> [Stores -> EventRow]]
  /\ copy \in [Records -> [Stores -> CopyState]]
  /\ sess \in [Actors -> Session]
  /\ \A a \in Actors : sess[a].pc # "idle" => sess[a].rec \in Records
  /\ reply \in [Clients -> {"none", "held", "error", "unverified", "verified"}]
  /\ crashes \in 0..MaxCrashes

Init ==
  /\ record = [r \in Records |-> "LIVE"]
  /\ hold \in [Records -> BOOLEAN]
  /\ task = [r \in Records |-> NoTask]
  /\ outbox = [r \in Records |-> [s \in Stores |-> NoEvent]]
  /\ copy = [r \in Records |-> [s \in Stores |-> "PRESENT"]]
  /\ sess = [a \in Actors |-> Idle]
  /\ reply = [c \in Clients |-> "none"]
  /\ crashes = 0

----------------------------------------------------------------------------
(* Row locks of open transactions.                                         *)

Working(a, r, pc) == sess[a].pc = pc /\ sess[a].rec = r

(* A flushed UPDATE of the record row locks it until commit.               *)
RecordLocked(r) == \E b \in Actors : Working(b, r, "dispatch") /\ sess[b].wrote

(* delete_one flushes its RUNNING status and attempt counter together with *)
(* the record; a worker's task UPDATE is flushed and committed in one go.  *)
TaskLocked(r) == \E c \in Clients : Working(c, r, "dispatch")

Close(a) == sess' = [sess EXCEPT ![a] = Idle]

----------------------------------------------------------------------------
(* delete_one, called by a client.                                         *)

(* db.get(record), enqueue and the commit that makes the request durable.  *)
(* A COMPLETED task answers from result_json; the column still has its     *)
(* default {} when a worker finished the task, and building DeletionResult *)
(* from it raises TypeError.                                               *)
Request(c, r) ==
  /\ sess[c].pc = "idle"
  /\ ~TaskLocked(r)
  /\ IF task[r].status = "COMPLETED"
     THEN /\ reply' = [reply EXCEPT ![c] = CASE task[r].result = "NONE" -> "error"
                                             [] task[r].result = "VERIFIED" -> "verified"
                                             [] OTHER -> "unverified"]
          /\ UNCHANGED <<task, sess>>
     ELSE /\ task' = IF task[r].status = "NONE"
                     THEN [task EXCEPT ![r] = [NoTask EXCEPT !.status = "PENDING"]]
                     ELSE task
          /\ sess' = [sess EXCEPT ![c] = [Idle EXCEPT
                        !.pc = "govern", !.rec = r,
                        !.loaded = task'[r].status,
                        !.attempts = Bump(task'[r].attempts, MaxAttempts)]]
          /\ reply' = [reply EXCEPT ![c] = "none"]
  /\ UNCHANGED <<record, hold, outbox, copy, crashes>>

(* _governance_decision finds a hold.  Recording the blocked decision      *)
(* commits the session, and with it the RUNNING status set just before,    *)
(* on a row whose locked_at delete_one never writes.                       *)
ClientHeld(c) ==
  LET r == sess[c].rec IN
  /\ sess[c].pc = "govern"
  /\ hold[r]
  /\ ~TaskLocked(r)
  /\ task' = [task EXCEPT ![r].status = IF sess[c].loaded = "RUNNING" THEN @ ELSE "RUNNING",
                          ![r].attempts = sess[c].attempts]
  /\ sess' = [sess EXCEPT ![c].pc = "blocking"]
  /\ UNCHANGED <<record, hold, outbox, copy, reply, crashes>>

(* The second commit of the blocked branch.                                *)
ClientBlock(c) ==
  LET r == sess[c].rec IN
  /\ sess[c].pc = "blocking"
  /\ ~TaskLocked(r)
  /\ task' = [task EXCEPT ![r].status = "BLOCKED"]
  /\ reply' = [reply EXCEPT ![c] = "held"]
  /\ Close(c)
  /\ UNCHANGED <<record, hold, outbox, copy, crashes>>

(* Variant: the governance decision is not asked for.                      *)
ClientAllowedUnasked(c) ==
  /\ sess[c].pc = "govern"
  /\ sess' = [sess EXCEPT ![c].pc = "flush", ![c].wrote = TRUE,
                          ![c].seen = {s \in Stores : Exists(outbox[sess[c].rec][s])}]
  /\ UNCHANGED <<record, hold, task, outbox, copy, reply, crashes>>

(* No hold: _anonymize in the session, and the SELECTs of ensure_outbox,   *)
(* which see committed rows only.                                          *)
ClientAllowed(c) ==
  LET r == sess[c].rec IN
  /\ sess[c].pc = "govern"
  /\ ~hold[r]
  /\ sess' = [sess EXCEPT ![c].pc = "flush", ![c].wrote = TRUE,
                          ![c].seen = {s \in Stores : Exists(outbox[r][s])}]
  /\ UNCHANGED <<record, hold, task, outbox, copy, reply, crashes>>

----------------------------------------------------------------------------
(* MemoryLifecycleWorker.run_once.                                         *)

(* SELECT ... FOR UPDATE SKIP LOCKED and the commit of the claim.          *)
Claim(w, r) ==
  /\ sess[w].pc = "idle"
  /\ Due(task[r])
  /\ ~TaskLocked(r)
  /\ task' = [task EXCEPT ![r].status = "RUNNING", ![r].locked = TRUE,
                          ![r].attempts = Bump(@, MaxAttempts)]
  /\ sess' = [sess EXCEPT ![w] = [Idle EXCEPT !.pc = "govern", !.rec = r,
                                              !.loaded = "RUNNING"]]
  /\ UNCHANGED <<record, hold, outbox, copy, reply, crashes>>

(* The record is live and held: BLOCKED, the lease cleared, committed.     *)
WorkerBlock(w) ==
  LET r == sess[w].rec IN
  /\ sess[w].pc = "govern"
  /\ record[r] = "LIVE" /\ hold[r]
  /\ ~TaskLocked(r)
  /\ task' = [task EXCEPT ![r].status = "BLOCKED", ![r].locked = FALSE]
  /\ Close(w)
  /\ UNCHANGED <<record, hold, outbox, copy, reply, crashes>>

(* Variant: a retry does not ask again for the governance decision.        *)
WorkerAllowedUnasked(w) ==
  /\ sess[w].pc = "govern"
  /\ record[sess[w].rec] = "LIVE" /\ task[sess[w].rec].attempts = 1 => ~hold[sess[w].rec]
  /\ sess' = [sess EXCEPT ![w].pc = "flush",
                          ![w].wrote = (record[sess[w].rec] = "LIVE")]
  /\ UNCHANGED <<record, hold, task, outbox, copy, reply, crashes>>

(* A record already deleted is skipped; a live one is anonymised in the    *)
(* session.                                                                *)
WorkerAllowed(w) ==
  LET r == sess[w].rec IN
  /\ sess[w].pc = "govern"
  /\ record[r] = "LIVE" => ~hold[r]
  /\ sess' = [sess EXCEPT ![w].pc = "flush", ![w].wrote = (record[r] = "LIVE")]
  /\ UNCHANGED <<record, hold, task, outbox, copy, reply, crashes>>

(* The except branch, from any point of the run.                           *)
WorkerError(w) ==
  LET r == sess[w].rec IN
  /\ sess[w].pc # "idle"
  /\ ~TaskLocked(r)
  /\ task' = [task EXCEPT ![r].status = StatusAfterError(task[r].attempts, MaxAttempts),
                          ![r].locked = FALSE]
  /\ Close(w)
  /\ UNCHANGED <<record, hold, outbox, copy, reply, crashes>>

----------------------------------------------------------------------------
(* ensure_outbox and dispatch_and_verify, run by either actor.             *)

(* Variant: a worker takes the outbox of the request for granted.          *)
FoundByRequest(a) == IF a \in Clients THEN sess[a].seen ELSE Stores

(* The outbox rows actor a takes for existing: a client looked before its  *)
(* flush, a worker looks after it (its records were flushed before).       *)
Found(a) == IF a \in Clients THEN sess[a].seen
            ELSE {s \in Stores : Exists(outbox[sess[a].rec][s])}

(* The flush waits for other writers of the record, then inserts the       *)
(* missing rows and selects the events that are due: the new ones, and any *)
(* of the open ones.                                                       *)
Flush(a, old) ==
  LET r   == sess[a].rec
      new == Stores \ Found(a)
  IN
  /\ sess[a].pc = "flush"
  /\ sess[a].wrote => ~RecordLocked(r)
  /\ \A s \in new : ~Exists(outbox[r][s])
  /\ old \subseteq {s \in Stores : Open(outbox[r][s])}
  /\ sess' = [sess EXCEPT
       ![a].pc    = "dispatch",
       ![a].new   = new,
       ![a].tries = [s \in Stores |-> IF s \in old THEN outbox[r][s].attempts ELSE 0],
       ![a].got   = [s \in Stores |-> IF s \in new \cup old THEN "todo" ELSE "none"]]
  /\ UNCHANGED <<record, hold, task, outbox, copy, reply, crashes>>

(* A row the client is about to insert was committed since it looked: the  *)
(* unique key of the outbox fails the request.                             *)
FlushConflict(c) ==
  LET r == sess[c].rec IN
  /\ sess[c].pc = "flush"
  /\ ~RecordLocked(r)
  /\ \E s \in Stores \ Found(c) : Exists(outbox[r][s])
  /\ reply' = [reply EXCEPT ![c] = "error"]
  /\ Close(c)
  /\ UNCHANGED <<record, hold, task, outbox, copy, crashes>>

(* store.delete is confirmed.                                              *)
DeliverOK(a, s) ==
  LET r == sess[a].rec IN
  /\ sess[a].pc = "dispatch" /\ sess[a].got[s] = "todo"
  /\ \E after \in (IF s \in AsyncStores THEN {"DOOMED", "ABSENT"} ELSE {"ABSENT"}) :
       copy' = [copy EXCEPT ![r][s] = IF @ = "ABSENT" THEN @ ELSE after]
  /\ sess' = [sess EXCEPT ![a].got[s] = "ok"]
  /\ UNCHANGED <<record, hold, task, outbox, reply, crashes>>

(* store.delete raises or is not confirmed, before or after it had its     *)
(* effect.                                                                 *)
DeliverFail(a, s) ==
  LET r == sess[a].rec IN
  /\ sess[a].pc = "dispatch" /\ sess[a].got[s] = "todo"
  /\ \E after \in {copy[r][s], "ABSENT"} : copy' = [copy EXCEPT ![r][s] = after]
  /\ sess' = [sess EXCEPT ![a].got[s] = "fail"]
  /\ UNCHANGED <<record, hold, task, outbox, reply, crashes>>

(* An asynchronous store carries out a delete it has acknowledged.         *)
StoreSettles(r, s) ==
  /\ copy[r][s] = "DOOMED"
  /\ copy' = [copy EXCEPT ![r][s] = "ABSENT"]
  /\ UNCHANGED <<record, hold, task, outbox, sess, reply, crashes>>

(* The outbox of record r as actor a writes it.                            *)
Rows(a, r) ==
  [s \in Stores |->
     IF sess[a].got[s] # "none"
     THEN Written(outbox[r][s],
                  EventAfter(sess[a].tries[s], sess[a].got[s] = "ok", MaxAttempts))
     ELSE outbox[r][s]]

(* verify: the record is not recallable, and every store that has an event *)
(* of the task answers that the copy is absent.                            *)
Verified(a, r, rows) ==
  /\ record[r] = "DELETED" \/ sess[a].wrote
  /\ \A s \in Stores : Exists(rows[s]) => copy[r][s] = "ABSENT"

(* The flush, the counts, verify (skipped while events are pending or      *)
(* failed, and with an ERROR row when a store does not answer), the        *)
(* result, and the commit.  delete_one never clears a lease, a worker      *)
(* always does.                                                            *)
Commit(a, answered) ==
  LET r      == sess[a].rec
      rows   == Rows(a, r)
      events == {rows[s] : s \in Stores}
      verified == answered /\ Verified(a, r, rows)
                  /\ StatusAfter(events, TRUE) = "COMPLETED"
      status == StatusAfter(events, verified)
      answer == IF verified THEN "verified" ELSE "unverified"
  IN
  /\ sess[a].pc = "dispatch"
  /\ \A s \in Stores : sess[a].got[s] # "todo"
  /\ \A c \in Clients : c # a => ~Working(c, r, "dispatch")
  /\ record' = IF sess[a].wrote THEN [record EXCEPT ![r] = "DELETED"] ELSE record
  /\ outbox' = [outbox EXCEPT ![r] = rows]
  /\ task' = [task EXCEPT ![r] =
       IF a \in Clients
       THEN [@ EXCEPT !.status = status, !.attempts = sess[a].attempts,
                      !.result = IF verified THEN "VERIFIED" ELSE "UNVERIFIED"]
       ELSE [@ EXCEPT !.status = status, !.locked = FALSE]]
  /\ reply' = IF a \in Clients THEN [reply EXCEPT ![a] = answer] ELSE reply
  /\ Close(a)
  /\ UNCHANGED <<hold, copy, crashes>>

----------------------------------------------------------------------------
(* The environment.                                                        *)

(* LegalHoldService.create and release, or the end of a retention period.  *)
HoldChange(r) ==
  /\ hold' = [hold EXCEPT ![r] = ~@]
  /\ UNCHANGED <<record, task, outbox, copy, sess, reply, crashes>>

(* The process of a handler stops: its transaction is rolled back.         *)
Crash(a) ==
  /\ sess[a].pc # "idle"
  /\ crashes < MaxCrashes
  /\ crashes' = crashes + 1
  /\ reply' = IF a \in Clients THEN [reply EXCEPT ![a] = "error"] ELSE reply
  /\ Close(a)
  /\ UNCHANGED <<record, hold, task, outbox, copy>>

ClientStep(c) ==
  \/ ClientHeld(c) \/ ClientBlock(c) \/ ClientAllowed(c) \/ FlushConflict(c)

WorkerStep(w) == WorkerBlock(w) \/ WorkerAllowed(w)

DeleteStep(a) ==
  \/ \E old \in SUBSET Stores : Flush(a, old)
  \/ \E s \in Stores : DeliverOK(a, s) \/ DeliverFail(a, s)
  \/ \E answered \in BOOLEAN : Commit(a, answered)

Next ==
  \/ \E c \in Clients, r \in Records : Request(c, r)
  \/ \E c \in Clients : ClientStep(c)
  \/ \E w \in Workers, r \in Records : Claim(w, r)
  \/ \E w \in Workers : WorkerStep(w) \/ WorkerError(w)
  \/ \E a \in Actors : DeleteStep(a) \/ Crash(a)
  \/ \E r \in Records, s \in Stores : StoreSettles(r, s)
  \/ \E r \in Records : HoldChange(r)

Spec == Init /\ [][Next]_vars

----------------------------------------------------------------------------
(* Every scheduler process keeps ticking, and due_task_query takes the     *)
(* oldest deadline first, so a task that keeps coming due is claimed by    *)
(* some worker; handlers run on; deadlines pass, so that open events all   *)
(* come due together now and then; a store that keeps being asked answers. *)
(* Nothing is assumed of clients starting requests, of holds, of deletes   *)
(* succeeding or of crashes.                                               *)
Fairness ==
  /\ \A r \in Records : SF_vars(\E w \in Workers : Claim(w, r))
  /\ \A w \in Workers : WF_vars(WorkerStep(w))
  /\ \A c \in Clients : WF_vars(ClientStep(c))
  /\ \A a \in Actors : WF_vars(DeleteStep(a))
  /\ \A a \in Actors :
       SF_vars(Flush(a, {s \in Stores : sess[a].rec \in Records /\ Open(outbox[sess[a].rec][s])}))
  /\ \A a \in Actors : SF_vars(Commit(a, TRUE))
  /\ \A r \in Records, s \in Stores : WF_vars(StoreSettles(r, s))

FairSpec == Spec /\ Fairness

----------------------------------------------------------------------------
(* Properties.                                                             *)

Erased(r) == record[r] = "DELETED" /\ \A s \in Stores : copy[r][s] = "ABSENT"

(* Whatever clients, workers, stale leases and crashes did, a task that    *)
(* says COMPLETED, or a stored result that says verification_passed, means *)
(* that the content is anonymised and no configured store has a copy       *)
(* (jobs.py dispatch_and_verify, deletion.py result_json).                 *)
CompletedMeansErased ==
  \A r \in Records :
    task[r].status = "COMPLETED" \/ task[r].result = "VERIFIED" => Erased(r)

(* Handlers that overwrite each other's event rows never leave a COMPLETED *)
(* task with an event that is missing, still open or exhausted (the counts *)
(* in dispatch_and_verify are taken on the merged rows).                   *)
CompletedMeansDelivered ==
  \A r \in Records : task[r].status = "COMPLETED" =>
    \A s \in Stores : outbox[r][s].status = "COMPLETED"

(* A record is never anonymised without a durable event for every store:   *)
(* a crash at any point leaves either both or neither (deletion.py         *)
(* delete_one commits _anonymize and ensure_outbox together).              *)
DeletedHasDurableOutbox ==
  \A r \in Records : record[r] = "DELETED" => \A s \in Stores : Exists(outbox[r][s])

(* No handler has passed the governance check of r with a pending UPDATE.  *)
NoDeleteUnderWay(r) == \A a \in Actors : sess[a].rec = r => ~sess[a].wrote

(* Once a live record is held and no delete is past its governance check,  *)
(* it stays live and no later delete passes while the hold lasts, however  *)
(* many clients and workers try (deletion.py _governance_decision).        *)
HoldIsAFence ==
  [][\A r \in Records :
       record[r] = "LIVE" /\ hold[r] /\ NoDeleteUnderWay(r) /\ hold'[r]
         => record'[r] = "LIVE" /\ NoDeleteUnderWay(r)']_vars

(* The contract of a deletion, as the tables and sessions show it: a       *)
(* record is cleared while a handler holds a pending UPDATE of it, and     *)
(* attested by a COMPLETED task or a verified stored result.               *)
Phase == [r \in Records |-> IF record[r] = "DELETED" THEN "DELETED"
                            ELSE IF NoDeleteUnderWay(r) THEN "LIVE" ELSE "CLEARED"]
Attested == {r \in Records : task[r].status = "COMPLETED" \/ task[r].result = "VERIFIED"}
Contract == INSTANCE DeletionContract WITH phase <- Phase, attested <- Attested

(* Every step of a request, a worker, a store or a crash is a step of      *)
(* DeletionContract or changes nothing it speaks of: no store is told to   *)
(* delete a record that has not passed the governance check, none passes   *)
(* it under a hold, deletion is for good, and what is attested is gone     *)
(* (deletion.py delete_one, scheduler.py run_once, jobs.py                 *)
(* dispatch_and_verify).                                                   *)
ContractKept == Contract!ContractSpec

(* A RUNNING row without a lease, which due_task_query never selects.      *)
Orphaned(r) == task[r].status = "RUNNING" /\ ~task[r].locked

(* Every task that is due or leased is finished in the end, by a retry or  *)
(* by its budget of attempts, unless a client orphans it (scheduler.py     *)
(* run_once, jobs.py due_task_query).                                      *)
DueTaskSettles ==
  \A r \in Records : Due(task[r]) ~> (task[r].status \in Settled \/ Orphaned(r))

----------------------------------------------------------------------------
(* What the documents say and the code does not do.                        *)

(* memory41/00: a worker carries on with a forget job once the request     *)
(* made it durable.                                                        *)
DurableRequestSettles ==
  \A r \in Records : task[r].status # "NONE" ~> task[r].status \in Settled

(* p2b/07: deletion is idempotent by key; a repeated request for a         *)
(* completed deletion is answered with its result.                         *)
RepeatedDeleteIsAnswered ==
  [][\A c \in Clients : sess[c].pc = "idle" /\ reply[c] # "error"
                           => reply'[c] # "error"]_vars
=============================================================================
