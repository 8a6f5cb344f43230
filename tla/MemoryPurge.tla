---------------------------- MODULE MemoryPurge ----------------------------
(***************************************************************************)
(* Forgetting a user.                                                      *)
(*                                                                         *)
(* DELETE /memory/current-user (client actors) runs                        *)
(* MemoryDeletionService.purge_current_user over all live records of one   *)
(* user; MemoryLifecycleWorker.run_once (worker actors) takes the same     *)
(* FORGET_USER task over when it is due.  The idempotency key of the task  *)
(* is a digest of the live record ids, so a task is named by that set.     *)
(*                                                                         *)
(* What MemoryForget does not show is here: the decisions about several    *)
(* records are taken one by one in one session, and recording a blocked    *)
(* one commits everything the session has done so far.  The only derived   *)
(* store is Redis, the one the API and the scheduler configure; its        *)
(* deletes are checked before they are confirmed.  MemoryPurge implements  *)
(* PurgeContract.                                                          *)
(***************************************************************************)
EXTENDS LifecycleContracts

CONSTANTS
  Records,      \* memory_id values of the user
  Candidates,   \* memory_write_candidate rows of the user
  Registry,     \* the user's working-memory registry, a resource in Redis
  Clients,      \* concurrent purge_current_user requests
  Workers,      \* lifecycle workers
  MaxAttempts,  \* max_attempts of tasks and events
  MaxCrashes,   \* bound: process stops in one behaviour
  MaxRequests,  \* bound: purge requests in one behaviour
  MaxHolds      \* bound: holds placed or released in one behaviour

ASSUME PurgeAssumption ==
  /\ MaxAttempts \in Nat \ {0}
  /\ MaxCrashes \in Nat /\ MaxRequests \in Nat /\ MaxHolds \in Nat
  /\ Registry \notin Records
  /\ Clients \cap Workers = {}

VARIABLES
  record,     \* memory_record: LIVE, or DELETED with its content anonymised
  hold,       \* governance blocks the record
  candidates, \* the candidates in memory_write_candidate
  task,       \* memory_lifecycle_task, by the set of ids in its key
  outbox,     \* memory_lifecycle_outbox, by task and resource
  copy,       \* what Redis holds of each resource
  sess,       \* memory and open transaction of each handler
  reply,      \* the last answer of each client
  used        \* how much of each bound the behaviour has used

vars == <<record, hold, candidates, task, outbox, copy, sess, reply, used>>

Actors == Clients \cup Workers
Keys == SUBSET Records
Resources == Records \cup {Registry}

NoResult == [stored |-> FALSE, held |-> FALSE, verified |-> FALSE]
Result == [stored : BOOLEAN, held : BOOLEAN, verified : BOOLEAN]
NoTask == [status |-> "NONE", attempts |-> 0, locked |-> FALSE,
           ids |-> {}, result |-> NoResult]
NoReply == [kind |-> "none", held |-> FALSE, verified |-> FALSE]
ErrorReply == [NoReply EXCEPT !.kind = "error"]

Idle == [pc       |-> "idle",
         key      |-> {},       \* the task
         running  |-> FALSE,    \* task.status was RUNNING when read
         payload  |-> {},       \* task.payload_json when read
         attempts |-> 0,        \* attempt_count to write
         todo     |-> {},       \* records whose decision is still to be taken
         wiped    |-> {},       \* anonymised in this transaction
         ids      |-> {},       \* resource_ids of dispatch_and_verify
         kept     |-> {},       \* records found held or retained
         noted    |-> FALSE,    \* RUNNING and attempt_count already committed
         picked   |-> {},       \* candidates deleted in this transaction
         seen     |-> {},       \* outbox rows found by SELECT
         new      |-> {},       \* outbox rows inserted
         tries    |-> [x \in Resources |-> 0],
         got      |-> [x \in Resources |-> "none"]]

TaskRow == [status : TaskStatus, attempts : 0..MaxAttempts, locked : BOOLEAN,
            ids : Keys, result : Result]
EventRow == [status : OutboxStatus, attempts : 0..MaxAttempts]
Session == [pc : {"idle", "load", "govern", "blocking", "flush", "dispatch", "commit"},
            key : Keys,
            running : BOOLEAN, payload : Keys,
            attempts : 0..MaxAttempts,
            todo : Keys, wiped : Keys, ids : Keys, kept : Keys,
            noted : BOOLEAN,
            picked : SUBSET Candidates,
            seen : SUBSET Resources,
            new : SUBSET Resources,
            tries : [Resources -> 0..MaxAttempts],
            got : [Resources -> {"none", "todo", "ok", "fail"}]]
Reply == [kind : {"none", "error", "fresh", "replay"}, held : BOOLEAN, verified : BOOLEAN]

TypeOK ==
  /\ record \in [Records -> {"LIVE", "DELETED"}]
  /\ hold \in [Records -> BOOLEAN]
  /\ candidates \subseteq Candidates
  /\ task \in [Keys -> TaskRow]
  /\ outbox \in [Keys -> [Resources -> EventRow]]
  /\ copy \in [Resources -> {"PRESENT", "ABSENT"}]
  /\ sess \in [Actors -> Session]
  /\ reply \in [Clients -> Reply]
  /\ used \in [crashes : 0..MaxCrashes, requests : 0..MaxRequests, holds : 0..MaxHolds]

Init ==
  /\ record = [r \in Records |-> "LIVE"]
  /\ hold \in [Records -> BOOLEAN]
  /\ candidates = Candidates
  /\ task = [k \in Keys |-> NoTask]
  /\ outbox = [k \in Keys |-> [x \in Resources |-> NoEvent]]
  /\ copy = [x \in Resources |-> "PRESENT"]
  /\ sess = [a \in Actors |-> Idle]
  /\ reply = [c \in Clients |-> NoReply]
  /\ used = [crashes |-> 0, requests |-> 0, holds |-> 0]

----------------------------------------------------------------------------
(* Row locks of open transactions, and what a COMMIT of the session adds   *)
(* to the record table.                                                    *)

InFlight(b) == sess[b].pc \in {"dispatch", "commit"}
RecordsFree(a) == \A b \in Actors \ {a} : InFlight(b) => sess[b].wiped \cap sess[a].wiped = {}

(* A client's flush writes the task row, unless it was committed on the    *)
(* way and the payload does not change.                                    *)
WritesTask(c) == ~sess[c].noted \/ sess[c].ids # sess[c].payload
TaskFree(k) == \A c \in Clients : InFlight(c) /\ WritesTask(c) => sess[c].key # k

Wipe(ids) == [r \in Records |-> IF r \in ids THEN "DELETED" ELSE record[r]]
Live == {r \in Records : record[r] = "LIVE"}

(* Variant: only what this transaction still has to write.                 *)
WantedUncommitted(a) == sess[a].wiped \cup (IF a \in Clients THEN {Registry} ELSE {})

(* A client asks for its records and for the registry, a worker for the    *)
(* records of the payload.                                                 *)
Wanted(a) == sess[a].ids \cup (IF a \in Clients THEN {Registry} ELSE {})

Close(a) == sess' = [sess EXCEPT ![a] = Idle]

----------------------------------------------------------------------------
(* purge_current_user, called by a client.                                 *)

(* The SELECT of the live records, enqueue, and the commit that makes the  *)
(* request durable.  A COMPLETED task answers from result_json, which      *)
(* raises TypeError when a worker completed it.                            *)
Request(c) ==
  LET k == Live IN
  /\ sess[c].pc = "idle"
  /\ TaskFree(k)
  /\ used.requests < MaxRequests
  /\ used' = [used EXCEPT !.requests = @ + 1]
  /\ IF task[k].status = "COMPLETED"
     THEN /\ reply' = [reply EXCEPT ![c] =
                IF task[k].result.stored
                THEN [kind |-> "replay", held |-> task[k].result.held,
                      verified |-> task[k].result.verified]
                ELSE ErrorReply]
          /\ UNCHANGED <<task, sess>>
     ELSE /\ task' = IF task[k].status = "NONE"
                     THEN [task EXCEPT ![k] = [NoTask EXCEPT !.status = "PENDING", !.ids = k]]
                     ELSE task
          /\ sess' = [sess EXCEPT ![c] = [Idle EXCEPT
                        !.pc = "govern", !.key = k, !.todo = k,
                        !.running = (task'[k].status = "RUNNING"), !.payload = task'[k].ids,
                        !.attempts = Bump(task'[k].attempts, MaxAttempts)]]
          /\ reply' = [reply EXCEPT ![c] = NoReply]
  /\ UNCHANGED <<record, hold, candidates, outbox, copy>>

(* Variant: one decision for the whole purge.                              *)
AllowedUnasked(a, r) ==
  /\ sess[a].pc = "govern" /\ r \in sess[a].todo
  /\ sess[a].wiped = {} => ~hold[r]
  /\ sess' = [sess EXCEPT ![a].todo = @ \ {r}, ![a].wiped = @ \cup {r},
                          ![a].ids = IF a \in Clients THEN @ \cup {r} ELSE @]
  /\ UNCHANGED <<record, hold, candidates, task, outbox, copy, reply, used>>

(* The decision allows the record to go: _anonymize, in the session.  The  *)
(* worker does the same.                                                   *)
Allowed(a, r) ==
  /\ sess[a].pc = "govern" /\ r \in sess[a].todo
  /\ ~hold[r]
  /\ sess' = [sess EXCEPT ![a].todo = @ \ {r}, ![a].wiped = @ \cup {r},
                          ![a].ids = IF a \in Clients THEN @ \cup {r} ELSE @]
  /\ UNCHANGED <<record, hold, candidates, task, outbox, copy, reply, used>>

(* The decision blocks the record.  record_governance_event(commit=True)   *)
(* commits the RUNNING status, without a lease, and every record           *)
(* anonymised so far; the loop goes on.                                    *)
ClientHeld(c, r) ==
  LET k == sess[c].key IN
  /\ sess[c].pc = "govern" /\ r \in sess[c].todo
  /\ hold[r]
  /\ RecordsFree(c)
  /\ IF sess[c].noted
     THEN UNCHANGED task
     ELSE /\ TaskFree(k)
          /\ task' = [task EXCEPT
               ![k].status   = IF sess[c].running THEN @ ELSE "RUNNING",
               ![k].attempts = sess[c].attempts]
  /\ record' = Wipe(sess[c].wiped)
  /\ sess' = [sess EXCEPT ![c].todo = @ \ {r}, ![c].kept = @ \cup {r}, ![c].wiped = {},
                          ![c].noted = TRUE]
  /\ UNCHANGED <<hold, candidates, outbox, copy, reply, used>>

(* Every record has been decided on: the candidates are deleted in the     *)
(* session, the working registry in Redis (a failure is swallowed), and    *)
(* ensure_outbox looks for rows that exist.                                *)
ClientReady(c) ==
  /\ sess[c].pc = "govern" /\ sess[c].todo = {}
  /\ \E after \in {"ABSENT", copy[Registry]} : copy' = [copy EXCEPT ![Registry] = after]
  /\ sess' = [sess EXCEPT ![c].pc = "flush", ![c].picked = candidates,
                          ![c].seen = {x \in Wanted(c) : Exists(outbox[sess[c].key][x])}]
  /\ UNCHANGED <<record, hold, candidates, task, outbox, reply, used>>

----------------------------------------------------------------------------
(* MemoryLifecycleWorker.run_once, FORGET_USER.                            *)

Claim(w, k) ==
  /\ sess[w].pc = "idle"
  /\ Due(task[k])
  /\ TaskFree(k)
  /\ task' = [task EXCEPT ![k].status = "RUNNING", ![k].locked = TRUE,
                          ![k].attempts = Bump(@, MaxAttempts)]
  /\ sess' = [sess EXCEPT ![w] = [Idle EXCEPT !.pc = "load", !.key = k,
                                              !.ids = task[k].ids]]
  /\ UNCHANGED <<record, hold, candidates, outbox, copy, reply, used>>

(* Variant: the outbox is filled for the records still live only.          *)
WorkerLoadLive(w) ==
  /\ sess[w].pc = "load"
  /\ sess' = [sess EXCEPT ![w].pc = "govern", ![w].todo = sess[w].ids \cap Live,
                          ![w].ids = @ \cap Live]
  /\ UNCHANGED <<record, hold, candidates, task, outbox, copy, reply, used>>

(* The SELECT of the records of the payload; deleted ones are skipped.     *)
WorkerLoad(w) ==
  /\ sess[w].pc = "load"
  /\ sess' = [sess EXCEPT ![w].pc = "govern", ![w].todo = sess[w].ids \cap Live]
  /\ UNCHANGED <<record, hold, candidates, task, outbox, copy, reply, used>>

(* A held record: the governance event commits what was anonymised before  *)
(* it, then BLOCKED is committed and the remaining records are left.       *)
WorkerHeld(w, r) ==
  /\ sess[w].pc = "govern" /\ r \in sess[w].todo
  /\ hold[r]
  /\ RecordsFree(w)
  /\ record' = Wipe(sess[w].wiped)
  /\ sess' = [sess EXCEPT ![w].pc = "blocking", ![w].wiped = {}]
  /\ UNCHANGED <<hold, candidates, task, outbox, copy, reply, used>>

WorkerBlock(w) ==
  LET k == sess[w].key IN
  /\ sess[w].pc = "blocking"
  /\ TaskFree(k)
  /\ task' = [task EXCEPT ![k].status = "BLOCKED", ![k].locked = FALSE]
  /\ Close(w)
  /\ UNCHANGED <<record, hold, candidates, outbox, copy, reply, used>>

(* db.flush() after the loop.                                              *)
WorkerReady(w) ==
  /\ sess[w].pc = "govern" /\ sess[w].todo = {}
  /\ sess' = [sess EXCEPT ![w].pc = "flush"]
  /\ UNCHANGED <<record, hold, candidates, task, outbox, copy, reply, used>>

WorkerError(w) ==
  LET k == sess[w].key IN
  /\ sess[w].pc # "idle"
  /\ TaskFree(k)
  /\ task' = [task EXCEPT ![k].status = StatusAfterError(task[k].attempts, MaxAttempts),
                          ![k].locked = FALSE]
  /\ Close(w)
  /\ UNCHANGED <<record, hold, candidates, outbox, copy, reply, used>>

----------------------------------------------------------------------------
(* ensure_outbox, ensure_store_outbox and dispatch_and_verify.             *)

Missing(a) ==
  Wanted(a) \ (IF a \in Clients THEN sess[a].seen
               ELSE {x \in Resources : Exists(outbox[sess[a].key][x])})

(* Rows of the same task that another open transaction has inserted.       *)
InsertedBy(b, k) == IF InFlight(b) /\ sess[b].key = k THEN sess[b].new ELSE {}

Flush(a, old) ==
  LET k   == sess[a].key
      new == Missing(a)
  IN
  /\ sess[a].pc = "flush"
  /\ RecordsFree(a)
  /\ a \in Clients /\ WritesTask(a) => TaskFree(k)
  /\ \A x \in new : ~Exists(outbox[k][x])
  /\ \A b \in Actors : InsertedBy(b, k) \cap new = {}
  /\ old \subseteq {x \in Resources : Open(outbox[k][x])}
  /\ sess' = [sess EXCEPT
       ![a].pc    = "dispatch",
       ![a].new   = new,
       ![a].tries = [x \in Resources |-> IF x \in old THEN outbox[k][x].attempts ELSE 0],
       ![a].got   = [x \in Resources |-> IF x \in new \cup old THEN "todo" ELSE "none"]]
  /\ UNCHANGED <<record, hold, candidates, task, outbox, copy, reply, used>>

(* The unique key of the outbox fails the request (a worker takes its      *)
(* except branch, WorkerError).                                            *)
FlushConflict(c) ==
  /\ sess[c].pc = "flush"
  /\ RecordsFree(c)
  /\ \E x \in Missing(c) : Exists(outbox[sess[c].key][x])
  /\ reply' = [reply EXCEPT ![c] = ErrorReply]
  /\ Close(c)
  /\ UNCHANGED <<record, hold, candidates, task, outbox, copy, used>>

(* The loop over the events: RedisMemoryStore.delete is confirmed for ok;  *)
(* for the others Redis does not answer, after the delete for gone.  The   *)
(* order of the deliveries is left to MemoryForget.                        *)
Deliver(a, ok, gone) ==
  LET todo == {x \in Resources : sess[a].got[x] = "todo"} IN
  /\ sess[a].pc = "dispatch"
  /\ ok \subseteq todo /\ gone \subseteq todo \ ok
  /\ copy' = [x \in Resources |-> IF x \in ok \cup gone THEN "ABSENT" ELSE copy[x]]
  /\ sess' = [sess EXCEPT
       ![a].pc  = "commit",
       ![a].got = [x \in Resources |-> IF x \in ok THEN "ok"
                                       ELSE IF x \in todo THEN "fail" ELSE "none"]]
  /\ UNCHANGED <<record, hold, candidates, task, outbox, reply, used>>

Rows(a) ==
  [x \in Resources |->
     IF sess[a].got[x] # "none"
     THEN Written(outbox[sess[a].key][x],
                  EventAfter(sess[a].tries[x], sess[a].got[x] = "ok", MaxAttempts))
     ELSE outbox[sess[a].key][x]]

Verified(a, rows) ==
  /\ \A r \in sess[a].ids : Wipe(sess[a].wiped)[r] = "DELETED"
  /\ \A x \in Resources : Exists(rows[x]) => copy[x] = "ABSENT"

(* The payload as a client's session writes it, if it changed it.          *)
Payload(a) == IF sess[a].ids = sess[a].payload THEN task[sess[a].key].ids ELSE sess[a].ids

(* The counts, verify, the result and the commit.  A client writes its     *)
(* payload and its candidates' deletion with it; a worker clears the lease.*)
Commit(a, answered) ==
  LET k        == sess[a].key
      rows     == Rows(a)
      events   == {rows[x] : x \in Resources}
      verified == answered /\ Verified(a, rows) /\ StatusAfter(events, TRUE) = "COMPLETED"
      held     == sess[a].kept # {}
  IN
  /\ sess[a].pc = "commit"
  /\ \A c \in Clients \ {a} : InFlight(c) /\ WritesTask(c) => sess[c].key # k
  /\ record' = Wipe(sess[a].wiped)
  /\ outbox' = [outbox EXCEPT ![k] = rows]
  /\ IF a \in Clients
     THEN /\ task' = [task EXCEPT ![k] =
               [task[k] EXCEPT !.status = StatusAfter(events, verified),
                               !.attempts = IF sess[a].noted THEN @ ELSE sess[a].attempts,
                               !.ids = Payload(a),
                               !.result = [stored |-> TRUE, held |-> held,
                                           verified |-> verified]]]
          /\ candidates' = candidates \ sess[a].picked
          /\ reply' = [reply EXCEPT ![a] = [kind |-> "fresh", held |-> held,
                                            verified |-> verified]]
     ELSE /\ task' = [task EXCEPT ![k].status = StatusAfter(events, verified),
                                  ![k].locked = FALSE]
          /\ UNCHANGED <<candidates, reply>>
  /\ Close(a)
  /\ UNCHANGED <<hold, copy, used>>

----------------------------------------------------------------------------
(* The environment.                                                        *)

(* The user goes on working: a new candidate, or a saved working state that *)
(* registers itself again.                                                 *)
Activity ==
  /\ \/ \E m \in Candidates \ candidates : candidates' = candidates \cup {m} /\ UNCHANGED copy
     \/ copy' = [copy EXCEPT ![Registry] = "PRESENT"] /\ UNCHANGED candidates
  /\ UNCHANGED <<record, hold, task, outbox, sess, reply, used>>

HoldChange(r) ==
  /\ used.holds < MaxHolds
  /\ used' = [used EXCEPT !.holds = @ + 1]
  /\ hold' = [hold EXCEPT ![r] = ~@]
  /\ UNCHANGED <<record, candidates, task, outbox, copy, sess, reply>>

Crash(a) ==
  /\ sess[a].pc # "idle"
  /\ used.crashes < MaxCrashes
  /\ used' = [used EXCEPT !.crashes = @ + 1]
  /\ reply' = IF a \in Clients THEN [reply EXCEPT ![a] = ErrorReply] ELSE reply
  /\ Close(a)
  /\ UNCHANGED <<record, hold, candidates, task, outbox, copy>>

Next ==
  \/ \E c \in Clients : Request(c) \/ ClientReady(c) \/ FlushConflict(c)
  \/ \E c \in Clients, r \in Records : ClientHeld(c, r)
  \/ \E w \in Workers, k \in Keys : Claim(w, k)
  \/ \E w \in Workers : WorkerLoad(w) \/ WorkerBlock(w) \/ WorkerReady(w) \/ WorkerError(w)
  \/ \E w \in Workers, r \in Records : WorkerHeld(w, r)
  \/ \E a \in Actors, r \in Records : Allowed(a, r)
  \/ \E a \in Actors, old \in SUBSET Resources : Flush(a, old)
  \/ \E a \in Actors, ok, gone \in SUBSET Resources : Deliver(a, ok, gone)
  \/ \E a \in Actors, answered \in BOOLEAN : Commit(a, answered)
  \/ \E a \in Actors : Crash(a)
  \/ \E r \in Records : HoldChange(r)
  \/ Activity

Spec == Init /\ [][Next]_vars

----------------------------------------------------------------------------
(* Properties.                                                             *)

Erased(r) == record[r] = "DELETED" /\ copy[r] = "ABSENT"

(* A FORGET_USER task that says COMPLETED has erased every record of its   *)
(* payload, whichever of its sessions was cut short after a partial commit *)
(* (jobs.py dispatch_and_verify, deletion.py payload_json).                *)
CompletedMeansErased ==
  \A k \in Keys : task[k].status = "COMPLETED" => \A r \in task[k].ids : Erased(r)

(* A fresh answer with verification_passed accounts for every record the   *)
(* user had when the request began: erased, or found held by this request; *)
(* and for the candidates (deletion.py purge_current_user).                *)
VerifiedAnswerCoversUser ==
  [][\A c \in Clients :
       sess[c].pc = "commit" /\ reply'[c].kind = "fresh" /\ reply'[c].verified
         => /\ \A r \in sess[c].key \ sess[c].kept : Erased(r)'
            /\ sess[c].picked \cap candidates' = {}
            /\ reply'[c].held <=> sess[c].kept # {}]_vars

(* Once a live record is held and no session has passed its decision on    *)
(* it, no purge deletes it while the hold lasts, although the decisions of *)
(* one purge are taken at different times and committed in pieces          *)
(* (deletion.py and scheduler.py, the loops over _governance_decision).    *)
NoDeleteUnderWay(r) == \A a \in Actors : r \notin sess[a].wiped
HoldIsAFence ==
  [][\A r \in Records :
       record[r] = "LIVE" /\ hold[r] /\ NoDeleteUnderWay(r) /\ hold'[r]
         => record'[r] = "LIVE" /\ NoDeleteUnderWay(r)']_vars

(* A record anonymised by a purge without a durable event for Redis.       *)
Unbacked(r) == record[r] = "DELETED" /\ \A k \in Keys : ~Exists(outbox[k][r])

(* Such a record is only ever left behind by a purge that met a hold: some *)
(* task over it is not COMPLETED, or is COMPLETED with a narrower payload. *)
UnbackedIsVisible ==
  \A r \in Records : Unbacked(r) =>
    \E k \in Keys : /\ r \in k /\ task[k].status # "NONE"
                    /\ task[k].status = "COMPLETED" => r \notin task[k].ids

(* The invariants of purges, whatever is cut short (deletion.py).          *)
PurgeSafe == TypeOK /\ CompletedMeansErased /\ UnbackedIsVisible

----------------------------------------------------------------------------
(* The mapping to PurgeContract.  A record is cleared while a session      *)
(* holds a pending UPDATE of it, and attested by a task that says          *)
(* COMPLETED or whose stored result says verified.  A request is due what  *)
(* its key names and it has not found held.                                *)
Phase == [r \in Records |-> IF record[r] = "DELETED" THEN "DELETED"
                            ELSE IF \E a \in Actors : r \in sess[a].wiped THEN "CLEARED" ELSE "LIVE"]
Copies == [r \in Records |-> copy[r]]
Says(row) == row.status = "COMPLETED" \/ row.result.verified
Attested == {r \in Records : \E k \in Keys : Says(task[k]) /\ r \in task[k].ids}
DueTo == [c \in Clients |-> sess[c].key \ sess[c].kept]
Told == [c \in Clients |-> IF reply[c].kind = "fresh" /\ reply[c].verified THEN "verified" ELSE "none"]
Contract == INSTANCE PurgeContract WITH
  phase <- Phase, copy <- Copies, attested <- Attested, due <- DueTo, answer <- Told

(* Every step of a purge is a step of PurgeContract or changes nothing it  *)
(* speaks of: no copy of a record goes that has not passed the governance  *)
(* check, none passes the check while it is held, what is committed in     *)
(* pieces was cleared, nothing is attested that is not erased, and a       *)
(* verified answer stands for every record that was there when its request *)
(* began (deletion.py purge_current_user, scheduler.py run_once).          *)
PurgeContractKept == Contract!ContractSpec

----------------------------------------------------------------------------
(* What the documents say and the code does not do.                        *)

(* p2b/07: PostgreSQL is anonymised and then Redis is cleaned.  At the     *)
(* latest when no handler is at work, a deleted record has its event.      *)
DeletedHasDurableOutbox ==
  (\A a \in Actors : sess[a].pc = "idle") => \A r \in Records : ~Unbacked(r)

(* p3/05: once a hold is released, the deletion is decided again.          *)
ReleasedHoldIsDecidedAgain ==
  [][\A c \in Clients :
       sess[c].pc = "idle" /\ reply'[c].kind = "replay" /\ reply'[c].held
         => \E r \in Records : hold[r]]_vars
=============================================================================
