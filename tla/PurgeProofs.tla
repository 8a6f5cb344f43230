----------------------------- MODULE PurgeProofs -----------------------------
(***************************************************************************)
(* PurgeSafe of MemoryPurge for every set of records, candidates, clients  *)
(* and workers, any attempt limit and any number of crashes, requests and  *)
(* holds.                                                                  *)
(*                                                                         *)
(* The payload of a task is rewritten by each request that finishes it, so *)
(* the ids a session works for need not be the payload it completes.  The  *)
(* proof turns on that: the two differ only when another request has been  *)
(* committed in the meantime, and then the payload is Backed, its records  *)
(* deleted and each with a row in the outbox (PayloadsMove).               *)
(* The last part proves that MemoryPurge implements PurgeContract.         *)
(***************************************************************************)
EXTENDS MemoryPurge, TLAPS

(* The records of the payload are deleted, each with an event.             *)
Backed(k) == \A r \in task[k].ids : record[r] = "DELETED" /\ Exists(outbox[k][r])

(* What a session x of actor a relies on from its first commit to its last. *)
WorkInv(a, x) ==
  /\ task[x.key].status # "NONE"
  /\ (IF a \in Clients THEN x.payload ELSE x.ids) = task[x.key].ids \/ Backed(x.key)
  /\ x.todo \subseteq x.key /\ x.ids \subseteq x.key /\ x.wiped \subseteq x.ids
  /\ a \notin Clients => x.todo \subseteq x.ids
  /\ a \in Clients => \A r \in x.ids : r \in x.wiped \/ record[r] = "DELETED"
  /\ \A s \in x.seen : Exists(outbox[x.key][s])
  /\ x.pc \in {"dispatch", "commit"} =>
       \A r \in x.ids : x.got[r] # "none" \/ Exists(outbox[x.key][r])
  /\ x.pc = "dispatch" => \A s \in Resources : x.got[s] \in {"none", "todo"}

SessionsInv == \A a \in Actors : sess[a].pc # "idle" => WorkInv(a, sess[a])

(* A task asks for records of its key; a completed one has erased them.    *)
TasksInv ==
  \A k \in Keys :
    /\ task[k].ids \subseteq k
    /\ task[k].status = "COMPLETED" =>
         Backed(k) /\ \A r \in task[k].ids : copy[r] = "ABSENT"

(* A record deleted without an event belongs to a task that exists.        *)
UnbackedInv ==
  \A r \in Records : Unbacked(r) => \E k \in Keys : r \in k /\ task[k].status # "NONE"

PurgeInv == TypeOK /\ SessionsInv /\ TasksInv /\ UnbackedInv

----------------------------------------------------------------------------
(* What the shared operators return.                                       *)

(* A saturating counter stays within its bound.                            *)
LEMMA BumpType ==
  ASSUME NEW n \in 0..MaxAttempts
  PROVE  Bump(n, MaxAttempts) \in 0..MaxAttempts
BY PurgeAssumption DEF Bump

(* An event that was tried is a row of the outbox, and it exists.          *)
LEMMA EventAfterType ==
  ASSUME NEW n \in 0..MaxAttempts, NEW ok \in BOOLEAN
  PROVE  EventAfter(n, ok, MaxAttempts) \in EventRow /\ Exists(EventAfter(n, ok, MaxAttempts))
BY BumpType DEF EventAfter, EventRow, OutboxStatus, Exists

(* So is what the flush writes of it, over whatever another handler left.  *)
LEMMA WrittenType ==
  ASSUME NEW row \in EventRow, NEW after \in EventRow, Exists(after)
  PROVE  Written(row, after) \in EventRow /\ Exists(Written(row, after))
BY DEF Written, Exists, EventRow

(* COMPLETED needs a verification that passed.                             *)
LEMMA StatusAfterType ==
  ASSUME NEW events, NEW verified \in BOOLEAN
  PROVE  /\ StatusAfter(events, verified) \in {"FAILED", "RETRY", "COMPLETED"}
         /\ StatusAfter(events, verified) = "COMPLETED" => verified
BY DEF StatusAfter

LEMMA IdleType == Idle \in Session /\ Idle.pc = "idle"
BY PurgeAssumption DEF Idle, Session, Keys

LEMMA NoTaskType == NoTask \in TaskRow
BY PurgeAssumption DEF NoTask, TaskRow, TaskStatus, Result, NoResult, Keys

LEMMA ReplyType == NoReply \in Reply /\ ErrorReply \in Reply
BY DEF NoReply, ErrorReply, Reply

(* An actor that commits writes rows of the outbox.                        *)
LEMMA RowsType ==
  ASSUME TypeOK, NEW a \in Actors
  PROVE  Rows(a) \in [Resources -> EventRow]
<1> SUFFICES ASSUME NEW s \in Resources
             PROVE  (IF sess[a].got[s] # "none"
                     THEN Written(outbox[sess[a].key][s],
                            EventAfter(sess[a].tries[s], sess[a].got[s] = "ok", MaxAttempts))
                     ELSE outbox[sess[a].key][s]) \in EventRow
  BY DEF Rows
<1>1. sess[a].tries[s] \in 0..MaxAttempts /\ sess[a].key \in Keys
  BY DEF TypeOK, Session
<1>2. outbox[sess[a].key][s] \in EventRow
  BY <1>1 DEF TypeOK
<1> QED
  BY <1>1, <1>2, EventAfterType, WrittenType

----------------------------------------------------------------------------
(* Type correctness.                                                       *)

(* Replacing one session, or one row, by another keeps the table typed.    *)
LEMMA SessionType ==
  ASSUME TypeOK, NEW a \in Actors, NEW x \in Session, sess' = [sess EXCEPT ![a] = x]
  PROVE  sess' \in [Actors -> Session]
BY DEF TypeOK

LEMMA TaskType ==
  ASSUME TypeOK, NEW k \in Keys, NEW y \in TaskRow, task' = [task EXCEPT ![k] = y]
  PROVE  task' \in [Keys -> TaskRow]
BY DEF TypeOK

LEMMA CloseType ==
  ASSUME TypeOK, NEW a \in Actors, Close(a)
  PROVE  sess' \in [Actors -> Session]
BY IdleType, SessionType DEF Close

(* What every session holds.                                               *)
LEMMA AtWork ==
  ASSUME TypeOK, NEW a \in Actors
  PROVE  sess[a] \in Session /\ sess[a].key \in Keys /\ task[sess[a].key] \in TaskRow
BY DEF TypeOK, Session

LEMMA TypeInit == Init => TypeOK
<1> SUFFICES ASSUME Init PROVE TypeOK
  OBVIOUS
<1>1. NoEvent \in EventRow
  BY PurgeAssumption DEF NoEvent, EventRow, OutboxStatus
<1>2. sess \in [Actors -> Session] /\ task \in [Keys -> TaskRow]
  BY IdleType, NoTaskType DEF Init
<1> QED
  BY <1>1, <1>2, PurgeAssumption DEF Init, TypeOK, Reply, NoReply

(* The steps that change a session and nothing else.                       *)
LEMMA SessionStepType ==
  ASSUME TypeOK, NEW a \in Actors,
         \/ \E r \in Records : Allowed(a, r)
         \/ WorkerLoad(a) \/ WorkerReady(a)
         \/ \E old \in SUBSET Resources : Flush(a, old)
  PROVE  sess' \in [Actors -> Session]
<1>0. sess[a] \in Session
  BY AtWork
<1>1. ASSUME NEW r \in Records, Allowed(a, r) PROVE sess' \in [Actors -> Session]
  <2> DEFINE x == [sess[a] EXCEPT !.todo = @ \ {r}, !.wiped = @ \cup {r},
                                  !.ids = IF a \in Clients THEN @ \cup {r} ELSE @]
  <2>1. /\ sess[a].todo \ {r} \in Keys /\ sess[a].wiped \cup {r} \in Keys
        /\ (IF a \in Clients THEN sess[a].ids \cup {r} ELSE sess[a].ids) \in Keys
    BY <1>0 DEF Session, Keys
  <2>2. x \in Session
    BY <1>0, <2>1 DEF Session
  <2>3. sess' = [sess EXCEPT ![a] = x]
    BY <1>1 DEF Allowed
  <2> QED
    BY <2>2, <2>3, SessionType
<1>2. ASSUME WorkerLoad(a) PROVE sess' \in [Actors -> Session]
  <2> DEFINE x == [sess[a] EXCEPT !.pc = "govern", !.todo = sess[a].ids \cap Live]
  <2>1. sess[a].ids \cap Live \in Keys
    BY <1>0 DEF Session, Keys
  <2>2. x \in Session
    BY <1>0, <2>1 DEF Session
  <2>3. sess' = [sess EXCEPT ![a] = x]
    BY <1>2 DEF WorkerLoad
  <2> QED
    BY <2>2, <2>3, SessionType
<1>3. ASSUME WorkerReady(a) PROVE sess' \in [Actors -> Session]
  <2> DEFINE x == [sess[a] EXCEPT !.pc = "flush"]
  <2>1. x \in Session
    BY <1>0 DEF Session
  <2>2. sess' = [sess EXCEPT ![a] = x]
    BY <1>3 DEF WorkerReady
  <2> QED
    BY <2>1, <2>2, SessionType
<1>4. ASSUME NEW old \in SUBSET Resources, Flush(a, old) PROVE sess' \in [Actors -> Session]
  <2> DEFINE k   == sess[a].key
             new == Missing(a)
             t   == [s \in Resources |-> IF s \in old THEN outbox[k][s].attempts ELSE 0]
             g   == [s \in Resources |-> IF s \in new \cup old THEN "todo" ELSE "none"]
             x   == [sess[a] EXCEPT !.pc = "dispatch", !.new = new, !.tries = t, !.got = g]
  <2>1. t \in [Resources -> 0..MaxAttempts]
    BY AtWork, PurgeAssumption DEF TypeOK, EventRow
  <2>2. g \in [Resources -> {"none", "todo", "ok", "fail"}]
    OBVIOUS
  <2>3. new \in SUBSET Resources
    BY AtWork DEF Missing, Wanted, Session, Keys, Resources
  <2>4. sess' = [sess EXCEPT ![a] = x]
    BY <1>4 DEF Flush
  <2> HIDE DEF t, g, new
  <2>5. x \in Session
    BY <1>0, <2>1, <2>2, <2>3 DEF Session
  <2> QED
    BY <2>4, <2>5, SessionType
<1> QED
  BY <1>1, <1>2, <1>3, <1>4

(* The steps of the endpoint and the claim of a worker.                    *)
LEMMA RequestType ==
  ASSUME TypeOK, NEW c \in Clients, Request(c)
  PROVE  TypeOK'
<1> DEFINE k == Live
           y == [NoTask EXCEPT !.status = "PENDING", !.ids = k]
<1>1. k \in Keys /\ c \in Actors /\ task[k] \in TaskRow
  BY DEF Live, Keys, Actors, TypeOK
<1>2. used' \in [crashes : 0..MaxCrashes, requests : 0..MaxRequests, holds : 0..MaxHolds]
  BY PurgeAssumption DEF Request, TypeOK
<1>3. CASE task[k].status = "COMPLETED"
  <2>1. task[k].result \in Result
    BY <1>1 DEF TaskRow
  <2> DEFINE z == IF task[k].result.stored
                  THEN [kind |-> "replay", held |-> task[k].result.held,
                        verified |-> task[k].result.verified]
                  ELSE ErrorReply
  <2>2. z \in Reply
    BY <2>1, ReplyType DEF Reply, Result
  <2>3. reply' = [reply EXCEPT ![c] = z]
    BY <1>3 DEF Request
  <2> HIDE DEF z
  <2>4. reply' \in [Clients -> Reply]
    BY <2>2, <2>3 DEF TypeOK
  <2> QED
    BY <1>2, <1>3, <2>4 DEF Request, TypeOK
<1>4. CASE task[k].status # "COMPLETED"
  <2>1. y \in TaskRow
    BY <1>1, NoTaskType DEF TaskRow, TaskStatus
  <2>2. task' \in [Keys -> TaskRow]
    BY <1>1, <1>4, <2>1 DEF Request, TypeOK
  <2>3. PICK z : z = task'[k]
    OBVIOUS
  <2>4. z \in TaskRow
    BY <1>1, <2>2, <2>3
  <2> DEFINE x == [Idle EXCEPT !.pc = "govern", !.key = k, !.todo = k,
                               !.running = (z.status = "RUNNING"), !.payload = z.ids,
                               !.attempts = Bump(z.attempts, MaxAttempts)]
  <2>5. Bump(z.attempts, MaxAttempts) \in 0..MaxAttempts /\ z.ids \in Keys
    BY <2>4, BumpType DEF TaskRow
  <2>6. x \in Session
    BY <1>1, <2>5, IdleType DEF Session
  <2>7. sess' = [sess EXCEPT ![c] = x]
    BY <1>4, <2>3 DEF Request
  <2>8. sess' \in [Actors -> Session]
    BY <1>1, <2>6, <2>7, SessionType
  <2>9. reply' \in [Clients -> Reply]
    BY <1>4, ReplyType DEF Request, TypeOK
  <2> QED
    BY <1>2, <2>2, <2>8, <2>9 DEF Request, TypeOK
<1> QED
  BY <1>3, <1>4

LEMMA ClientHeldType ==
  ASSUME TypeOK, NEW c \in Clients, NEW r \in Records, ClientHeld(c, r)
  PROVE  TypeOK'
<1> DEFINE k == sess[c].key
           x == [sess[c] EXCEPT !.todo = @ \ {r}, !.kept = @ \cup {r}, !.wiped = {},
                                !.noted = TRUE]
           y == [task[k] EXCEPT !.status = IF sess[c].running THEN @ ELSE "RUNNING",
                                !.attempts = sess[c].attempts]
<1>1. c \in Actors /\ sess[c] \in Session /\ k \in Keys /\ task[k] \in TaskRow
  BY AtWork DEF Actors
<1>2. sess[c].todo \ {r} \in Keys /\ sess[c].kept \cup {r} \in Keys /\ {} \in Keys
  BY <1>1 DEF Session, Keys
<1>3. x \in Session
  BY <1>1, <1>2 DEF Session
<1>4. sess' = [sess EXCEPT ![c] = x]
  BY DEF ClientHeld
<1>5. y \in TaskRow
  BY <1>1 DEF TaskRow, Session, TaskStatus
<1>6. UNCHANGED task \/ task' = [task EXCEPT ![k] = y]
  BY DEF ClientHeld
<1> HIDE DEF x, y
<1>7. sess' \in [Actors -> Session] /\ task' \in [Keys -> TaskRow]
  BY <1>1, <1>3, <1>4, <1>5, <1>6, SessionType, TaskType DEF TypeOK
<1> QED
  BY <1>7 DEF ClientHeld, TypeOK, Wipe

LEMMA ClientReadyType ==
  ASSUME TypeOK, NEW c \in Clients, ClientReady(c)
  PROVE  TypeOK'
<1> DEFINE q == {s \in Wanted(c) : Exists(outbox[sess[c].key][s])}
           x == [sess[c] EXCEPT !.pc = "flush", !.picked = candidates, !.seen = q]
<1>1. c \in Actors /\ sess[c] \in Session
  BY AtWork DEF Actors
<1>2. q \in SUBSET Resources
  BY <1>1 DEF Wanted, Session, Keys, Resources
<1>3. sess' = [sess EXCEPT ![c] = x]
  BY DEF ClientReady
<1> HIDE DEF q
<1>4. x \in Session
  BY <1>1, <1>2 DEF Session, TypeOK
<1>5. sess' \in [Actors -> Session]
  BY <1>1, <1>3, <1>4, SessionType
<1>6. Registry \in Resources
  BY DEF Resources
<1>7. copy' \in [Resources -> {"PRESENT", "ABSENT"}]
  BY <1>6 DEF ClientReady, TypeOK
<1> QED
  BY <1>5, <1>7 DEF ClientReady, TypeOK

LEMMA ClaimType ==
  ASSUME TypeOK, NEW w \in Workers, NEW k \in Keys, Claim(w, k)
  PROVE  TypeOK'
<1> DEFINE x == [Idle EXCEPT !.pc = "load", !.key = k, !.ids = task[k].ids]
           y == [task[k] EXCEPT !.status = "RUNNING", !.locked = TRUE,
                                !.attempts = Bump(@, MaxAttempts)]
<1>1. w \in Actors /\ task[k] \in TaskRow
  BY DEF Actors, TypeOK
<1>2. Bump(task[k].attempts, MaxAttempts) \in 0..MaxAttempts
  BY <1>1, BumpType DEF TaskRow
<1>3. x \in Session
  BY <1>1, IdleType DEF Session, TaskRow
<1>4. y \in TaskRow
  BY <1>1, <1>2 DEF TaskRow, TaskStatus
<1>5. sess' = [sess EXCEPT ![w] = x] /\ task' = [task EXCEPT ![k] = y]
  BY DEF Claim
<1> HIDE DEF x, y
<1>6. sess' \in [Actors -> Session] /\ task' \in [Keys -> TaskRow]
  BY <1>1, <1>3, <1>4, <1>5, SessionType, TaskType
<1> QED
  BY <1>6 DEF Claim, TypeOK

(* The steps of a worker that meets a hold or an error.                    *)
LEMMA WorkerHeldType ==
  ASSUME TypeOK, NEW w \in Workers, NEW r \in Records, WorkerHeld(w, r)
  PROVE  TypeOK'
<1> DEFINE x == [sess[w] EXCEPT !.pc = "blocking", !.wiped = {}]
<1>1. w \in Actors /\ sess[w] \in Session /\ {} \in Keys
  BY AtWork DEF Actors, Keys
<1>2. x \in Session
  BY <1>1 DEF Session
<1>3. sess' = [sess EXCEPT ![w] = x]
  BY DEF WorkerHeld
<1>4. sess' \in [Actors -> Session]
  BY <1>1, <1>2, <1>3, SessionType
<1> QED
  BY <1>4 DEF WorkerHeld, TypeOK, Wipe

LEMMA WorkerEndsType ==
  ASSUME TypeOK, NEW w \in Workers, WorkerBlock(w) \/ WorkerError(w)
  PROVE  TypeOK'
<1> DEFINE k == sess[w].key
<1>1. w \in Actors /\ k \in Keys /\ task[k] \in TaskRow
  BY AtWork DEF Actors
<1>2. PICK st \in TaskStatus : task' = [task EXCEPT ![k].status = st, ![k].locked = FALSE]
  BY DEF WorkerBlock, WorkerError, TaskStatus, StatusAfterError
<1> DEFINE y == [task[k] EXCEPT !.status = st, !.locked = FALSE]
<1>3. y \in TaskRow
  BY <1>1 DEF TaskRow
<1>4. task' = [task EXCEPT ![k] = y]
  BY <1>2
<1> HIDE DEF y
<1>5. task' \in [Keys -> TaskRow] /\ sess' \in [Actors -> Session]
  BY <1>1, <1>3, <1>4, TaskType, CloseType DEF WorkerBlock, WorkerError
<1> QED
  BY <1>5 DEF WorkerBlock, WorkerError, TypeOK

(* Delivery and commit.                                                    *)
LEMMA DeliverType ==
  ASSUME TypeOK, NEW a \in Actors, NEW ok \in SUBSET Resources, NEW gone \in SUBSET Resources,
         Deliver(a, ok, gone)
  PROVE  TypeOK'
<1> DEFINE todo == {s \in Resources : sess[a].got[s] = "todo"}
           g == [s \in Resources |-> IF s \in ok THEN "ok"
                                     ELSE IF s \in todo THEN "fail" ELSE "none"]
           x == [sess[a] EXCEPT !.pc = "commit", !.got = g]
<1>1. sess[a] \in Session
  BY AtWork
<1>2. g \in [Resources -> {"none", "todo", "ok", "fail"}]
  OBVIOUS
<1>3. sess' = [sess EXCEPT ![a] = x]
  BY DEF Deliver
<1> HIDE DEF g
<1>4. x \in Session
  BY <1>1, <1>2 DEF Session
<1>5. sess' \in [Actors -> Session]
  BY <1>3, <1>4, SessionType
<1>6. copy' \in [Resources -> {"PRESENT", "ABSENT"}]
  BY DEF Deliver, TypeOK
<1> QED
  BY <1>5, <1>6 DEF Deliver, TypeOK

(* What a commit writes: the status of the task, its payload and the rows. *)
LEMMA CommitWrites ==
  ASSUME TypeOK, NEW a \in Actors, NEW answered \in BOOLEAN, Commit(a, answered),
         NEW k, k = sess[a].key
  PROVE  \E y \in TaskRow, verified \in BOOLEAN, rows \in [Resources -> EventRow] :
           /\ task' = [task EXCEPT ![k] = y]
           /\ y.status \in {"FAILED", "RETRY", "COMPLETED"}
           /\ y.status = "COMPLETED" => verified
           /\ verified => Verified(a, rows)
           /\ y.ids = IF a \in Clients THEN Payload(a) ELSE task[k].ids
           /\ rows = Rows(a) /\ outbox' = [outbox EXCEPT ![k] = rows]
           /\ a \in Clients => reply' \in [Clients -> Reply]
<1> DEFINE rows     == Rows(a)
           events   == {rows[s] : s \in Resources}
           verified == answered /\ Verified(a, rows) /\ StatusAfter(events, TRUE) = "COMPLETED"
           held     == sess[a].kept # {}
           st       == StatusAfter(events, verified)
           y == IF a \in Clients
                THEN [task[k] EXCEPT !.status = st,
                        !.attempts = IF sess[a].noted THEN @ ELSE sess[a].attempts,
                        !.ids = Payload(a),
                        !.result = [stored |-> TRUE, held |-> held, verified |-> verified]]
                ELSE [task[k] EXCEPT !.status = st, !.locked = FALSE]
<1>1. sess[a] \in Session /\ k \in Keys /\ task[k] \in TaskRow
  BY AtWork
<1>2. rows \in [Resources -> EventRow]
  BY RowsType
<1>3. verified \in BOOLEAN /\ held \in BOOLEAN /\ (verified => Verified(a, rows))
  OBVIOUS
<1>4. task' = [task EXCEPT ![k] = y] /\ outbox' = [outbox EXCEPT ![k] = rows]
  <2>1. outbox' = [outbox EXCEPT ![k] = rows]
    BY DEF Commit
  <2>2. CASE a \in Clients
    BY <2>1, <2>2 DEF Commit
  <2>3. CASE a \notin Clients
    BY <1>1, <2>1, <2>3 DEF Commit, TypeOK
  <2> QED
    BY <2>2, <2>3
<1>5. a \in Clients => reply' = [reply EXCEPT ![a] =
                         [kind |-> "fresh", held |-> held, verified |-> verified]]
  BY DEF Commit
<1> HIDE DEF verified, held, rows
<1>6. st \in {"FAILED", "RETRY", "COMPLETED"} /\ (st = "COMPLETED" => verified)
  BY <1>3, StatusAfterType
<1>7. Payload(a) \in Keys
  BY <1>1 DEF Payload, Session, TaskRow
<1>8. [stored |-> TRUE, held |-> held, verified |-> verified] \in Result
  BY <1>3 DEF Result
<1> HIDE DEF st
<1>9. y \in TaskRow
  BY <1>1, <1>6, <1>7, <1>8 DEF TaskRow, Session, TaskStatus
<1>10. y.status = st /\ y.ids = IF a \in Clients THEN Payload(a) ELSE task[k].ids
  BY <1>1 DEF TaskRow
<1>11. a \in Clients => reply' \in [Clients -> Reply]
  BY <1>3, <1>5 DEF TypeOK, Reply
<1> HIDE DEF y
<1> QED
  BY <1>2, <1>3, <1>4, <1>6, <1>9, <1>10, <1>11 DEF rows

LEMMA CommitType ==
  ASSUME TypeOK, NEW a \in Actors, NEW answered \in BOOLEAN, Commit(a, answered)
  PROVE  TypeOK'
<1>1. PICK k : k = sess[a].key
  OBVIOUS
<1>2. k \in Keys
  BY <1>1, AtWork
<1>3. PICK y \in TaskRow, rows \in [Resources -> EventRow] :
        /\ task' = [task EXCEPT ![k] = y] /\ outbox' = [outbox EXCEPT ![k] = rows]
        /\ a \in Clients => reply' \in [Clients -> Reply]
  BY <1>1, CommitWrites
<1>4. task' \in [Keys -> TaskRow] /\ outbox' \in [Keys -> [Resources -> EventRow]]
  BY <1>2, <1>3 DEF TypeOK
<1>5. reply' \in [Clients -> Reply] /\ candidates' \subseteq Candidates
  BY <1>3 DEF Commit, TypeOK
<1>6. record' \in [Records -> {"LIVE", "DELETED"}] /\ sess' \in [Actors -> Session]
  BY CloseType DEF Commit, Wipe, TypeOK
<1> QED
  BY <1>4, <1>5, <1>6 DEF Commit, TypeOK

LEMMA TypeStep == TypeOK /\ [Next]_vars => TypeOK'
<1> SUFFICES ASSUME TypeOK, [Next]_vars PROVE TypeOK'
  OBVIOUS
<1>1. ASSUME NEW a \in Actors,
             \/ \E r \in Records : Allowed(a, r)
             \/ WorkerLoad(a) \/ WorkerReady(a)
             \/ \E old \in SUBSET Resources : Flush(a, old)
      PROVE  TypeOK'
  BY <1>1, SessionStepType DEF Allowed, WorkerLoad, WorkerReady, Flush, TypeOK
<1>2. ASSUME NEW c \in Clients, FlushConflict(c) PROVE TypeOK'
  BY <1>2, CloseType, ReplyType DEF FlushConflict, TypeOK, Actors
<1>3. ASSUME NEW a \in Actors, Crash(a) PROVE TypeOK'
  <2>1. reply' \in [Clients -> Reply]
    BY <1>3, ReplyType DEF Crash, TypeOK
  <2>2. used' \in [crashes : 0..MaxCrashes, requests : 0..MaxRequests, holds : 0..MaxHolds]
    BY <1>3, PurgeAssumption DEF Crash, TypeOK
  <2> QED
    BY <1>3, <2>1, <2>2, CloseType DEF Crash, TypeOK
<1>4. ASSUME NEW r \in Records, HoldChange(r) PROVE TypeOK'
  <2>1. used' \in [crashes : 0..MaxCrashes, requests : 0..MaxRequests, holds : 0..MaxHolds]
    BY <1>4, PurgeAssumption DEF HoldChange, TypeOK
  <2> QED
    BY <1>4, <2>1 DEF HoldChange, TypeOK
<1>5. ASSUME Activity PROVE TypeOK'
  <2>1. candidates' \subseteq Candidates
    BY <1>5 DEF Activity, TypeOK
  <2>2. copy' \in [Resources -> {"PRESENT", "ABSENT"}]
    BY <1>5 DEF Activity, TypeOK
  <2> QED
    BY <1>5, <2>1, <2>2 DEF Activity, TypeOK
<1>6. CASE UNCHANGED vars
  BY <1>6 DEF vars, TypeOK
<1>7. Workers \subseteq Actors
  BY DEF Actors
<1> QED
  BY <1>1, <1>2, <1>3, <1>4, <1>5, <1>6, <1>7, RequestType, ClientHeldType, ClientReadyType,
     ClaimType, WorkerHeldType, WorkerEndsType, DeliverType, CommitType DEF Next

----------------------------------------------------------------------------
(* What no step takes back, and when a payload may change.                 *)

PayloadsMove ==
  \A k \in Keys : task[k].status # "NONE" =>
    task'[k].status # "NONE" /\ (task'[k].ids = task[k].ids \/ Backed(k)')

Grows ==
  /\ \A r \in Records : record[r] = "DELETED" => record'[r] = "DELETED"
  /\ \A r \in Records : copy[r] = "ABSENT" => copy'[r] = "ABSENT"
  /\ PayloadsMove
  /\ \A k \in Keys, s \in Resources : Exists(outbox[k][s]) => Exists(outbox'[k][s])

(* A commit leaves rows where there were rows, and for all of its ids; it  *)
(* keeps the payload or writes the ids, whose records are deleted then.    *)
LEMMA CommitEffect ==
  ASSUME TypeOK, SessionsInv, NEW a \in Actors, NEW answered \in BOOLEAN, Commit(a, answered),
         NEW k, k = sess[a].key
  PROVE  /\ \A s \in Resources : Exists(outbox[k][s]) => Exists(outbox'[k][s])
         /\ \A r \in sess[a].ids : Exists(outbox'[k][r])
         /\ \A r \in Records : record[r] = "DELETED" => record'[r] = "DELETED"
         /\ task'[k].status \in {"FAILED", "RETRY", "COMPLETED"}
         /\ \A j \in Keys \ {k} : task'[j] = task[j] /\ outbox'[j] = outbox[j]
         /\ a \notin Clients => task'[k].ids = task[k].ids
         /\ a \in Clients => /\ \A r \in sess[a].ids : record'[r] = "DELETED"
                             /\ task'[k].ids = Payload(a)
         /\ task'[k].status = "COMPLETED" => \A r \in sess[a].ids :
              /\ record'[r] = "DELETED"
              /\ \A s \in Resources : Exists(outbox'[k][s]) => copy'[s] = "ABSENT"
<1>1. sess[a] \in Session /\ k \in Keys /\ task[k] \in TaskRow
  BY AtWork
<1>2. PICK y \in TaskRow, verified \in BOOLEAN, rows \in [Resources -> EventRow] :
        /\ task' = [task EXCEPT ![k] = y]
        /\ y.status \in {"FAILED", "RETRY", "COMPLETED"}
        /\ y.status = "COMPLETED" => verified
        /\ verified => Verified(a, rows)
        /\ y.ids = IF a \in Clients THEN Payload(a) ELSE task[k].ids
        /\ rows = Rows(a) /\ outbox' = [outbox EXCEPT ![k] = rows]
  BY CommitWrites
<1>3. task'[k] = y /\ outbox'[k] = rows /\ \A j \in Keys \ {k} :
        task'[j] = task[j] /\ outbox'[j] = outbox[j]
  BY <1>1, <1>2 DEF TypeOK
<1>4. ASSUME NEW s \in Resources, sess[a].got[s] # "none" \/ Exists(outbox[k][s])
      PROVE  Exists(rows[s])
  <2>1. rows[s] = IF sess[a].got[s] # "none"
                  THEN Written(outbox[k][s],
                         EventAfter(sess[a].tries[s], sess[a].got[s] = "ok", MaxAttempts))
                  ELSE outbox[k][s]
    BY <1>2 DEF Rows
  <2>2. sess[a].tries[s] \in 0..MaxAttempts /\ outbox[k][s] \in EventRow
    BY <1>1 DEF Session, TypeOK
  <2>3. sess[a].got[s] # "none" => Exists(rows[s])
    BY <2>1, <2>2, EventAfterType, WrittenType
  <2> QED
    BY <1>4, <2>1, <2>3
<1>5. WorkInv(a, sess[a]) /\ sess[a].pc = "commit" /\ sess[a].ids \subseteq Resources
  BY <1>1 DEF Commit, SessionsInv, Session, Keys, Resources
<1>6. \A r \in sess[a].ids : Exists(rows[r])
  BY <1>4, <1>5 DEF WorkInv
<1>7. record' = [r \in Records |-> IF r \in sess[a].wiped THEN "DELETED" ELSE record[r]]
      /\ copy' = copy
  BY DEF Commit, Wipe
<1>8. sess[a].ids \subseteq Records
  BY <1>1 DEF Session, Keys
<1>9. a \in Clients => \A r \in sess[a].ids : record'[r] = "DELETED"
  BY <1>5, <1>7, <1>8 DEF WorkInv
<1>10. y.status = "COMPLETED" =>
         /\ \A r \in sess[a].ids : record'[r] = "DELETED"
         /\ \A s \in Resources : Exists(rows[s]) => copy'[s] = "ABSENT"
  BY <1>2, <1>7, <1>8 DEF Verified, Wipe
<1> QED
  BY <1>2, <1>3, <1>4, <1>6, <1>7, <1>9, <1>10

LEMMA GrowsStep == TypeOK /\ SessionsInv /\ [Next]_vars => Grows
<1> SUFFICES ASSUME TypeOK, SessionsInv, [Next]_vars PROVE Grows
  OBVIOUS
<1>1. ASSUME NEW a \in Actors, NEW answered \in BOOLEAN, Commit(a, answered) PROVE Grows
  <2>1. PICK k \in Keys : k = sess[a].key
    BY AtWork
  <2>2. PayloadsMove
    <3> SUFFICES ASSUME task'[k].ids # task[k].ids PROVE Backed(k)'
      BY <1>1, <2>1, CommitEffect DEF PayloadsMove
    <3>1. a \in Clients /\ task'[k].ids = sess[a].ids
      BY <1>1, <2>1, CommitEffect DEF Payload
    <3> QED
      BY <1>1, <2>1, <3>1, CommitEffect DEF Backed
  <2>3. \A j \in Keys, s \in Resources : Exists(outbox[j][s]) => Exists(outbox'[j][s])
    BY <1>1, <2>1, CommitEffect
  <2>4. UNCHANGED copy
    BY <1>1 DEF Commit
  <2> QED
    BY <1>1, <2>1, <2>2, <2>3, <2>4, CommitEffect DEF Grows
<1>2. ASSUME NEW c \in Clients, Request(c) PROVE Grows
  <2>1. \A k \in Keys : task[k].status # "NONE" => task'[k] = task[k]
    BY <1>2 DEF Request, TypeOK
  <2> QED
    BY <1>2, <2>1 DEF Request, Grows, PayloadsMove
<1>3. ASSUME NEW a \in Actors, NEW r \in Records, ClientHeld(a, r) PROVE Grows
  <2> DEFINE i  == sess[a].key
             st == IF sess[a].running THEN task[i].status ELSE "RUNNING"
             y  == [task[i] EXCEPT !.status = st, !.attempts = sess[a].attempts]
  <2>2. i \in Keys /\ task[i] \in TaskRow
    BY AtWork
  <2>3. task' = task \/ task' = [task EXCEPT ![i] = y]
    BY <1>3 DEF ClientHeld
  <2>4. y.ids = task[i].ids /\ (task[i].status # "NONE" => y.status # "NONE")
    BY <2>2 DEF TaskRow
  <2> HIDE DEF y
  <2>1. \A k \in Keys : task'[k].ids = task[k].ids
                        /\ (task[k].status # "NONE" => task'[k].status # "NONE")
    BY <2>2, <2>3, <2>4 DEF TypeOK
  <2> QED
    BY <1>3, <2>1 DEF ClientHeld, Grows, PayloadsMove, Wipe
<1>4. ASSUME NEW w \in Workers, NEW k \in Keys, Claim(w, k) PROVE Grows
  <2>1. \A j \in Keys : task'[j].ids = task[j].ids
                        /\ (task[j].status # "NONE" => task'[j].status # "NONE")
    BY <1>4 DEF Claim, TypeOK, TaskRow
  <2> QED
    BY <1>4, <2>1 DEF Claim, Grows, PayloadsMove
<1>5. ASSUME NEW w \in Workers, WorkerBlock(w) \/ WorkerError(w) PROVE Grows
  <2>0. PICK st \in TaskStatus \ {"NONE"} :
          task' = [task EXCEPT ![sess[w].key].status = st, ![sess[w].key].locked = FALSE]
    BY <1>5 DEF WorkerBlock, WorkerError, TaskStatus, StatusAfterError
  <2>1. \A j \in Keys : task'[j].ids = task[j].ids
                        /\ (task[j].status # "NONE" => task'[j].status # "NONE")
    BY <2>0 DEF TypeOK, TaskRow
  <2> QED
    BY <1>5, <2>1 DEF WorkerBlock, WorkerError, Grows, PayloadsMove
<1>6. ASSUME NEW w \in Workers, NEW r \in Records, WorkerHeld(w, r) PROVE Grows
  BY <1>6 DEF WorkerHeld, Grows, PayloadsMove, Wipe
<1>7. ASSUME NEW c \in Clients, ClientReady(c) PROVE Grows
  BY <1>7, PurgeAssumption DEF ClientReady, Grows, PayloadsMove, TypeOK, Resources
<1>8. ASSUME NEW a \in Actors, NEW ok \in SUBSET Resources, NEW gone \in SUBSET Resources,
             Deliver(a, ok, gone)
      PROVE  Grows
  BY <1>8 DEF Deliver, Grows, PayloadsMove, Resources
<1>9. ASSUME UNCHANGED <<record, task, outbox, copy>> PROVE Grows
  BY <1>9 DEF Grows, PayloadsMove
<1>10. ASSUME Activity PROVE Grows
  BY <1>10, PurgeAssumption DEF Activity, Grows, PayloadsMove, TypeOK, Resources
<1>11. Clients \subseteq Actors
  BY DEF Actors
<1> QED
  BY <1>1, <1>2, <1>3, <1>4, <1>5, <1>6, <1>7, <1>8, <1>9, <1>10, <1>11
  DEF Next, vars, FlushConflict, WorkerLoad, WorkerReady, Allowed, Flush, Crash, HoldChange

(* What a session relies on lasts while others work.                       *)
LEMMA WorkLasts ==
  ASSUME TypeOK, Grows, NEW a \in Actors, NEW x \in Session, WorkInv(a, x)
  PROVE  WorkInv(a, x)'
<1>1. x.key \in Keys /\ x.ids \subseteq Records /\ x.seen \subseteq Resources
      /\ x.ids \subseteq Resources
  BY DEF Session, Keys, Resources
<1>2. task'[x.key].status # "NONE"
      /\ (task'[x.key].ids = task[x.key].ids \/ Backed(x.key)')
  BY <1>1 DEF Grows, PayloadsMove, WorkInv
<1>3. \A s \in Resources : Exists(outbox[x.key][s]) => Exists(outbox'[x.key][s])
  BY <1>1 DEF Grows
<1>4. \A r \in Records : record[r] = "DELETED" => record'[r] = "DELETED"
  BY DEF Grows
<1>5. (IF a \in Clients THEN x.payload ELSE x.ids) = task'[x.key].ids \/ Backed(x.key)'
  <2>1. CASE task'[x.key].ids = task[x.key].ids /\ Backed(x.key)
    <3>1. task[x.key].ids \subseteq Records /\ task[x.key].ids \subseteq Resources
      BY <1>1 DEF TypeOK, TaskRow, Keys, Resources
    <3>2. \A r \in task[x.key].ids :
            record[r] = "DELETED" /\ Exists(outbox[x.key][r])
      BY <2>1 DEF Backed
    <3> QED
      BY <1>3, <1>4, <2>1, <3>1, <3>2 DEF Backed
  <2> QED
    BY <1>2, <2>1 DEF WorkInv
<1> QED
  BY <1>1, <1>2, <1>3, <1>4, <1>5 DEF WorkInv

(* One session moves on, the others keep what they rely on.                *)
LEMMA SessionsFollow ==
  ASSUME TypeOK, SessionsInv, Grows, NEW a \in Actors, NEW x,
         sess' = [sess EXCEPT ![a] = x],
         x.pc # "idle" => WorkInv(a, x)'
  PROVE  SessionsInv'
<1> SUFFICES ASSUME NEW b \in Actors, sess'[b].pc # "idle" PROVE WorkInv(b, sess[b])'
  BY DEF SessionsInv
<1>1. CASE b = a
  <2>1. sess'[b] = x
    BY <1>1 DEF TypeOK
  <2> QED
    BY <1>1, <2>1 DEF WorkInv
<1>2. CASE b # a
  <2>1. PICK z : z = sess[b]
    OBVIOUS
  <2>2. sess'[b] = z /\ z \in Session /\ z.pc # "idle"
    BY <1>2, <2>1 DEF TypeOK
  <2>3. WorkInv(b, z)'
    BY <2>1, <2>2, WorkLasts DEF SessionsInv
  <2> QED
    BY <2>2, <2>3 DEF WorkInv
<1> QED
  BY <1>1, <1>2

LEMMA SessionsRest ==
  ASSUME TypeOK, SessionsInv, Grows, UNCHANGED sess
  PROVE  SessionsInv'
<1> SUFFICES ASSUME NEW b \in Actors, sess[b].pc # "idle" PROVE WorkInv(b, sess[b])'
  BY DEF SessionsInv
<1>1. PICK z : z = sess[b]
  OBVIOUS
<1>2. WorkInv(b, z)'
  BY <1>1, WorkLasts DEF SessionsInv, TypeOK
<1> QED
  BY <1>1, <1>2 DEF WorkInv

----------------------------------------------------------------------------
(* The step of every session keeps SessionsInv.                            *)

LEMMA SessionsStep == PurgeInv /\ [Next]_vars => SessionsInv'
<1> SUFFICES ASSUME PurgeInv, [Next]_vars PROVE SessionsInv'
  OBVIOUS
<1>0. TypeOK /\ SessionsInv /\ Grows
  BY GrowsStep DEF PurgeInv
<1>1. ASSUME NEW c \in Clients, Request(c) PROVE SessionsInv'
  <2> DEFINE k == Live
  <2>1. k \in Keys /\ c \in Actors /\ task[k] \in TaskRow
    BY <1>0 DEF Live, Keys, Actors, TypeOK
  <2>2. CASE task[k].status = "COMPLETED"
    BY <1>0, <1>1, <2>2, SessionsRest DEF Request
  <2>3. CASE task[k].status # "COMPLETED"
    <3>1. PICK z, j : z = task'[k] /\ j = k
      OBVIOUS
    <3>2. z.status # "NONE" /\ z.ids \subseteq j
      <4>1. CASE task[k].status = "NONE"
        <5>1. task'[k] = [NoTask EXCEPT !.status = "PENDING", !.ids = k]
          BY <1>0, <1>1, <2>1, <2>3, <4>1 DEF Request, TypeOK
        <5> QED
          BY <3>1, <5>1 DEF NoTask
      <4>2. CASE task[k].status # "NONE"
        BY <1>1, <2>1, <2>3, <3>1, <4>2 DEF Request, PurgeInv, TasksInv
      <4> QED
        BY <4>1, <4>2
    <3>3. PICK x : x = [Idle EXCEPT !.pc = "govern", !.key = j, !.todo = j,
                                    !.running = (z.status = "RUNNING"), !.payload = z.ids,
                                    !.attempts = Bump(z.attempts, MaxAttempts)]
      OBVIOUS
    <3>4. sess' = [sess EXCEPT ![c] = x]
      BY <1>1, <2>3, <3>1, <3>3 DEF Request
    <3>5. /\ x.key = j /\ x.payload = z.ids /\ x.todo = j /\ x.ids = {} /\ x.wiped = {}
          /\ x.seen = {} /\ x.pc = "govern"
      BY <3>3 DEF Idle
    <3>6. task'[j] = z
      BY <3>1
    <3>7. WorkInv(c, x)'
      BY <3>2, <3>5, <3>6 DEF WorkInv
    <3> QED
      BY <1>0, <2>1, <3>4, <3>7, SessionsFollow
  <2> QED
    BY <2>2, <2>3
<1>2. ASSUME NEW a \in Actors, Close(a) PROVE SessionsInv'
  BY <1>0, <1>2, IdleType, SessionsFollow DEF Close
<1>3. ASSUME NEW w \in Workers, NEW k \in Keys, Claim(w, k) PROVE SessionsInv'
  <2> DEFINE x == [Idle EXCEPT !.pc = "load", !.key = k, !.ids = task[k].ids]
  <2>1. w \in Actors /\ w \notin Clients
    BY PurgeAssumption DEF Actors
  <2>2. sess' = [sess EXCEPT ![w] = x]
    BY <1>3 DEF Claim
  <2>3. /\ x.key = k /\ x.ids = task[k].ids /\ x.todo = {} /\ x.wiped = {}
        /\ x.seen = {} /\ x.pc = "load"
    BY DEF Idle
  <2>4. x \in Session
    BY <1>0, IdleType DEF Session, TypeOK, TaskRow
  <2>5. task[k].status # "NONE" /\ task[k].ids \subseteq k
    BY <1>3 DEF Claim, Due, PurgeInv, TasksInv
  <2> HIDE DEF x
  <2>6. WorkInv(w, x)
    BY <2>1, <2>3, <2>5 DEF WorkInv
  <2> QED
    BY <1>0, <2>1, <2>2, <2>4, <2>6, WorkLasts, SessionsFollow
<1>4. ASSUME NEW a \in Actors, sess[a].pc # "idle", NEW x \in Session,
             sess' = [sess EXCEPT ![a] = x], WorkInv(a, x)
      PROVE  SessionsInv'
  BY <1>0, <1>4, WorkLasts, SessionsFollow
<1>5. ASSUME NEW a \in Actors, NEW r \in Records, Allowed(a, r) PROVE SessionsInv'
  <2> DEFINE x == [sess[a] EXCEPT !.todo = @ \ {r}, !.wiped = @ \cup {r},
                                  !.ids = IF a \in Clients THEN @ \cup {r} ELSE @]
  <2>1. sess' = [sess EXCEPT ![a] = x] /\ sess[a].pc = "govern" /\ r \in sess[a].todo
    BY <1>5 DEF Allowed
  <2>2. sess[a] \in Session /\ WorkInv(a, sess[a])
    BY <1>0, <2>1, AtWork DEF SessionsInv
  <2>3. /\ x.key = sess[a].key /\ x.payload = sess[a].payload /\ x.seen = sess[a].seen
        /\ x.todo = sess[a].todo \ {r} /\ x.wiped = sess[a].wiped \cup {r}
        /\ x.ids = IF a \in Clients THEN sess[a].ids \cup {r} ELSE sess[a].ids
        /\ x.pc = "govern"
    BY <2>1, <2>2 DEF Session
  <2>4. sess'[a] = x /\ sess'[a] \in Session
    BY <1>0, <1>5, <2>1, SessionStepType DEF TypeOK
  <2> HIDE DEF x
  <2>5. WorkInv(a, x)
    BY <2>1, <2>2, <2>3 DEF WorkInv
  <2> QED
    BY <1>4, <2>1, <2>4, <2>5
<1>6. ASSUME NEW c \in Clients, NEW r \in Records, ClientHeld(c, r) PROVE SessionsInv'
  <2>1. PICK y, x : y = sess[c] /\ x = [y EXCEPT !.todo = @ \ {r}, !.kept = @ \cup {r},
                                                 !.wiped = {}, !.noted = TRUE]
    OBVIOUS
  <2>2. c \in Actors /\ sess' = [sess EXCEPT ![c] = x] /\ y.pc = "govern"
    BY <1>6, <2>1 DEF ClientHeld, Actors
  <2>3. y \in Session /\ WorkInv(c, y)
    BY <1>0, <2>1, <2>2, AtWork DEF SessionsInv
  <2>4. /\ x.key = y.key /\ x.payload = y.payload /\ x.seen = y.seen
        /\ x.todo = y.todo \ {r} /\ x.wiped = {} /\ x.ids = y.ids /\ x.pc = "govern"
    BY <2>1, <2>2, <2>3 DEF Session
  <2>5. WorkInv(c, y)'
    BY <1>0, <2>2, <2>3, WorkLasts
  <2>6. \A q \in Records : q \in y.wiped => record'[q] = "DELETED"
    BY <1>6, <2>1 DEF ClientHeld, Wipe
  <2>7. y.ids \subseteq Records
    BY <2>3 DEF Session, Keys
  <2>8. WorkInv(c, x)'
    BY <2>4, <2>5, <2>6, <2>7 DEF WorkInv
  <2> QED
    BY <1>0, <2>2, <2>8, SessionsFollow
<1>7. ASSUME NEW c \in Clients, ClientReady(c) PROVE SessionsInv'
  <2>1. PICK y, x : y = sess[c] /\ x = [y EXCEPT !.pc = "flush", !.picked = candidates,
                      !.seen = {s \in Wanted(c) : Exists(outbox[sess[c].key][s])}]
    OBVIOUS
  <2>2. c \in Actors /\ sess' = [sess EXCEPT ![c] = x] /\ y.pc = "govern"
    BY <1>7, <2>1 DEF ClientReady, Actors
  <2>3. y \in Session /\ WorkInv(c, y)
    BY <1>0, <2>1, <2>2, AtWork DEF SessionsInv
  <2>4. /\ x.key = y.key /\ x.payload = y.payload /\ x.todo = y.todo /\ x.wiped = y.wiped
        /\ x.ids = y.ids /\ x.pc = "flush" /\ \A s \in x.seen : Exists(outbox[y.key][s])
    BY <2>1, <2>3 DEF Session
  <2>5. WorkInv(c, x)
    BY <2>3, <2>4 DEF WorkInv
  <2>6. x \in Session
    BY <1>0, <1>7, <2>2, ClientReadyType DEF TypeOK
  <2> QED
    BY <1>4, <2>1, <2>2, <2>5, <2>6
<1>8. ASSUME NEW w \in Workers, WorkerLoad(w) \/ WorkerReady(w) PROVE SessionsInv'
  <2>1. PICK y, x : y = sess[w] /\ x = sess'[w]
    OBVIOUS
  <2>2. /\ w \in Actors /\ w \notin Clients /\ y.pc \in {"load", "govern"}
        /\ sess' = [sess EXCEPT ![w] = x]
    BY <1>0, <1>8, <2>1, PurgeAssumption DEF WorkerLoad, WorkerReady, Actors, TypeOK
  <2>3. y \in Session /\ WorkInv(w, y)
    BY <1>0, <2>1, <2>2, AtWork DEF SessionsInv
  <2>4. /\ x.key = y.key /\ x.payload = y.payload /\ x.wiped = y.wiped /\ x.seen = y.seen
        /\ x.ids = y.ids /\ x.pc \in {"flush", "govern"}
        /\ x.todo = y.todo \/ x.todo = y.ids \cap Live
    BY <1>0, <1>8, <2>1, <2>2, <2>3 DEF WorkerLoad, WorkerReady, TypeOK, Session
  <2>5. WorkInv(w, x)
    BY <2>2, <2>3, <2>4 DEF WorkInv
  <2>6. x \in Session
    BY <1>0, <1>8, <2>1, <2>2, SessionStepType
  <2> QED
    BY <1>4, <2>1, <2>2, <2>5, <2>6
<1>9. ASSUME NEW w \in Workers, NEW r \in Records, WorkerHeld(w, r) PROVE SessionsInv'
  <2>1. PICK y, x : y = sess[w] /\ x = [y EXCEPT !.pc = "blocking", !.wiped = {}]
    OBVIOUS
  <2>2. /\ w \in Actors /\ w \notin Clients /\ y.pc = "govern"
        /\ sess' = [sess EXCEPT ![w] = x]
    BY <1>9, <2>1, PurgeAssumption DEF WorkerHeld, Actors
  <2>3. y \in Session /\ WorkInv(w, y)
    BY <1>0, <2>1, <2>2, AtWork DEF SessionsInv
  <2>4. /\ x.key = y.key /\ x.payload = y.payload /\ x.wiped = {} /\ x.seen = y.seen
        /\ x.ids = y.ids /\ x.pc = "blocking" /\ x.todo = y.todo
    BY <2>1, <2>3 DEF Session
  <2>5. WorkInv(w, x)
    BY <2>2, <2>3, <2>4 DEF WorkInv
  <2>6. x \in Session
    BY <1>0, <1>9, <2>2, WorkerHeldType DEF TypeOK
  <2> QED
    BY <1>4, <2>1, <2>2, <2>5, <2>6
<1>10. ASSUME NEW a \in Actors, NEW old \in SUBSET Resources, Flush(a, old)
       PROVE  SessionsInv'
  <2>1. PICK y, x : y = sess[a] /\ x = sess'[a]
    OBVIOUS
  <2>2. y.pc = "flush" /\ sess' = [sess EXCEPT ![a] = x]
    BY <1>0, <1>10, <2>1 DEF Flush, TypeOK
  <2>3. y \in Session /\ WorkInv(a, y)
    BY <1>0, <2>1, <2>2, AtWork DEF SessionsInv
  <2>4. /\ x.key = y.key /\ x.payload = y.payload /\ x.wiped = y.wiped /\ x.seen = y.seen
        /\ x.ids = y.ids /\ x.pc = "dispatch" /\ x.todo = y.todo
        /\ x.got = [s \in Resources |-> IF s \in Missing(a) \cup old THEN "todo" ELSE "none"]
    BY <1>0, <1>10, <2>1, <2>3 DEF Flush, TypeOK, Session
  <2>5. y.ids \subseteq Resources
    BY <2>3 DEF Session, Keys, Resources
  <2>6. \A r \in y.ids : r \in Missing(a) \/ Exists(outbox[y.key][r])
    BY <2>1, <2>3, <2>5 DEF Missing, Wanted, WorkInv
  <2>7. WorkInv(a, x)
    BY <2>3, <2>4, <2>5, <2>6 DEF WorkInv
  <2>8. x \in Session
    BY <1>0, <1>10, <2>1, SessionStepType
  <2> QED
    BY <1>4, <2>1, <2>2, <2>7, <2>8
<1>11. ASSUME NEW a \in Actors, NEW ok \in SUBSET Resources, NEW gone \in SUBSET Resources,
              Deliver(a, ok, gone)
       PROVE  SessionsInv'
  <2>1. PICK y, x : y = sess[a] /\ x = sess'[a]
    OBVIOUS
  <2>2. y.pc = "dispatch" /\ sess' = [sess EXCEPT ![a] = x]
    BY <1>0, <1>11, <2>1 DEF Deliver, TypeOK
  <2>3. y \in Session /\ WorkInv(a, y)
    BY <1>0, <2>1, <2>2, AtWork DEF SessionsInv
  <2>4. /\ x.key = y.key /\ x.payload = y.payload /\ x.wiped = y.wiped /\ x.seen = y.seen
        /\ x.ids = y.ids /\ x.pc = "commit" /\ x.todo = y.todo
        /\ x.got = [s \in Resources |-> IF s \in ok THEN "ok"
                      ELSE IF s \in {q \in Resources : y.got[q] = "todo"} THEN "fail" ELSE "none"]
    BY <1>0, <1>11, <2>1, <2>3 DEF Deliver, TypeOK, Session
  <2>5. y.ids \subseteq Resources
    BY <2>3 DEF Session, Keys, Resources
  <2>6. \A r \in y.ids : y.got[r] = "todo" => x.got[r] # "none"
    BY <2>4, <2>5
  <2>7. WorkInv(a, x)
    BY <2>2, <2>3, <2>4, <2>5, <2>6 DEF WorkInv
  <2>8. x \in Session
    BY <1>0, <1>11, <2>1, DeliverType DEF TypeOK
  <2> QED
    BY <1>4, <2>1, <2>2, <2>7, <2>8
<1>12. ASSUME UNCHANGED sess PROVE SessionsInv'
  BY <1>0, <1>12, SessionsRest
<1>13. Clients \subseteq Actors /\ Workers \subseteq Actors
  BY DEF Actors
<1> QED
  BY <1>1, <1>2, <1>3, <1>5, <1>6, <1>7, <1>8, <1>9, <1>10, <1>11, <1>12, <1>13
  DEF Next, vars, FlushConflict, WorkerBlock, WorkerError, Commit, Crash, HoldChange, Activity

----------------------------------------------------------------------------
(* Tasks that say COMPLETED.                                               *)

(* Unless a task is completed by this step, what it says stays true.       *)
LEMMA TaskLasts ==
  ASSUME TypeOK, TasksInv, Grows, NEW k \in Keys,
         task'[k].ids = task[k].ids,
         task'[k].status = "COMPLETED" => task[k].status = "COMPLETED"
  PROVE  /\ task'[k].ids \subseteq k
         /\ task'[k].status = "COMPLETED" =>
              Backed(k)' /\ \A r \in task'[k].ids : copy'[r] = "ABSENT"
<1>1. task[k].ids \subseteq k /\ task[k].ids \subseteq Records /\ task[k].ids \subseteq Resources
  BY DEF TasksInv, TypeOK, TaskRow, Keys, Resources
<1> QED
  BY <1>1 DEF TasksInv, Grows, Backed

LEMMA TasksStep == PurgeInv /\ [Next]_vars => TasksInv'
<1> SUFFICES ASSUME PurgeInv, [Next]_vars, NEW k \in Keys
             PROVE  /\ task'[k].ids \subseteq k
                    /\ task'[k].status = "COMPLETED" =>
                         Backed(k)' /\ \A r \in task'[k].ids : copy'[r] = "ABSENT"
  BY DEF TasksInv
<1> DEFINE Goal == /\ task'[k].ids \subseteq k
                   /\ task'[k].status = "COMPLETED" =>
                        Backed(k)' /\ \A r \in task'[k].ids : copy'[r] = "ABSENT"
<1>0. TypeOK /\ SessionsInv /\ TasksInv /\ Grows
  BY GrowsStep DEF PurgeInv
<1>1. ASSUME task'[k].ids = task[k].ids,
             task'[k].status = "COMPLETED" => task[k].status = "COMPLETED"
      PROVE  Goal
  BY <1>0, <1>1, TaskLasts
<1>2. ASSUME NEW a \in Actors, NEW answered \in BOOLEAN, Commit(a, answered) PROVE Goal
  <2>1. PICK i \in Keys : i = sess[a].key
    BY <1>0, AtWork
  <2>2. sess[a] \in Session /\ WorkInv(a, sess[a])
    BY <1>0, <1>2, AtWork DEF Commit, SessionsInv
  <2>3. CASE k # i
    <3>1. task'[k] = task[k]
      BY <1>0, <1>2, <2>1, <2>3, CommitEffect
    <3> QED
      BY <1>1, <3>1
  <2>4. CASE k = i
    <3>1. \/ task'[k].ids = sess[a].ids
          \/ task'[k].ids = task[k].ids /\ Backed(k)
      BY <1>0, <1>2, <2>1, <2>2, <2>4, CommitEffect DEF WorkInv, Payload
    <3>2. CASE task'[k].ids = sess[a].ids
      <4>1. \A r \in sess[a].ids : Exists(outbox'[k][r])
        BY <1>0, <1>2, <2>1, <2>4, CommitEffect
      <4>2. task'[k].status = "COMPLETED" => \A r \in sess[a].ids :
              record'[r] = "DELETED"
              /\ \A s \in Resources : Exists(outbox'[k][s]) => copy'[s] = "ABSENT"
        BY <1>0, <1>2, <2>1, <2>4, CommitEffect
      <4>3. sess[a].ids \subseteq k /\ sess[a].ids \subseteq Resources
        BY <2>1, <2>2, <2>4 DEF WorkInv, Session, Keys, Resources
      <4> QED
        BY <3>2, <4>1, <4>2, <4>3 DEF Backed
    <3>3. CASE task'[k].ids = task[k].ids /\ Backed(k)
      <4>1. /\ task[k].ids \subseteq k /\ task[k].ids \subseteq Records
            /\ task[k].ids \subseteq Resources
        BY <1>0 DEF TasksInv, TypeOK, TaskRow, Keys, Resources
      <4>2. Backed(k)'
        BY <1>0, <3>3, <4>1 DEF Backed, Grows
      <4>3. task'[k].status = "COMPLETED" => \A r \in sess[a].ids :
              \A s \in Resources : Exists(outbox'[k][s]) => copy'[s] = "ABSENT"
        BY <1>0, <1>2, <2>1, <2>4, CommitEffect
      <4>4. ASSUME task'[k].status = "COMPLETED", NEW r \in task'[k].ids
            PROVE  copy'[r] = "ABSENT"
        <5>1. Exists(outbox'[k][r]) /\ r \in Resources
          BY <3>3, <4>1, <4>2, <4>4 DEF Backed
        <5>2. PICK y \in TaskRow, verified \in BOOLEAN, rows \in [Resources -> EventRow] :
                /\ task' = [task EXCEPT ![k] = y]
                /\ y.status = "COMPLETED" => verified
                /\ verified => Verified(a, rows)
                /\ outbox' = [outbox EXCEPT ![k] = rows]
          BY <1>0, <1>2, <2>1, <2>4, CommitWrites
        <5>3. Verified(a, rows) /\ outbox'[k] = rows
          BY <1>0, <4>4, <5>2 DEF TypeOK
        <5> QED
          BY <1>2, <5>1, <5>3 DEF Verified, Commit
      <4> QED
        BY <3>3, <4>1, <4>2, <4>4
    <3> QED
      BY <3>1, <3>2, <3>3
  <2> QED
    BY <2>3, <2>4
<1>3. ASSUME NEW c \in Clients, Request(c) PROVE Goal
  <2> DEFINE j == Live
  <2>1. j \in Keys
    BY DEF Live, Keys
  <2>2. CASE k = j /\ task[j].status = "NONE"
    <3>1. task'[k] = [NoTask EXCEPT !.status = "PENDING", !.ids = k]
      BY <1>0, <1>3, <2>2 DEF Request, TypeOK
    <3>2. task'[k].ids = k /\ task'[k].status = "PENDING"
      BY <3>1 DEF NoTask
    <3> QED
      BY <3>2
  <2>3. CASE ~(k = j /\ task[j].status = "NONE")
    <3>1. task'[k] = task[k]
      BY <1>0, <1>3, <2>3 DEF Request, TypeOK
    <3> QED
      BY <1>1, <3>1
  <2> QED
    BY <2>2, <2>3
<1>4. ASSUME NEW c \in Clients, NEW r \in Records, ClientHeld(c, r) PROVE Goal
  <2> DEFINE i  == sess[c].key
             y  == [task[i] EXCEPT !.status = IF sess[c].running THEN @ ELSE "RUNNING",
                                   !.attempts = sess[c].attempts]
  <2>1. i \in Keys /\ task[i] \in TaskRow
    BY <1>0, AtWork DEF Actors
  <2>2. task' = task \/ task' = [task EXCEPT ![i] = y]
    BY <1>4 DEF ClientHeld
  <2>3. y.ids = task[i].ids /\ (y.status = "COMPLETED" => task[i].status = "COMPLETED")
    BY <2>1 DEF TaskRow
  <2> HIDE DEF y
  <2>4. task'[k].ids = task[k].ids
        /\ (task'[k].status = "COMPLETED" => task[k].status = "COMPLETED")
    BY <1>0, <2>1, <2>2, <2>3 DEF TypeOK
  <2> QED
    BY <1>1, <2>4
<1>5. ASSUME NEW w \in Workers, NEW i \in Keys, Claim(w, i) PROVE Goal
  <2>1. task'[k].ids = task[k].ids
        /\ (task'[k].status = "COMPLETED" => task[k].status = "COMPLETED")
    BY <1>0, <1>5 DEF Claim, TypeOK, TaskRow
  <2> QED
    BY <1>1, <2>1
<1>6. ASSUME NEW w \in Workers, WorkerBlock(w) \/ WorkerError(w) PROVE Goal
  <2>1. PICK st \in TaskStatus \ {"COMPLETED"} :
          task' = [task EXCEPT ![sess[w].key].status = st, ![sess[w].key].locked = FALSE]
    BY <1>6 DEF WorkerBlock, WorkerError, TaskStatus, StatusAfterError
  <2>2. task'[k].ids = task[k].ids
        /\ (task'[k].status = "COMPLETED" => task[k].status = "COMPLETED")
    BY <1>0, <2>1 DEF TypeOK, TaskRow
  <2> QED
    BY <1>1, <2>2
<1>7. ASSUME UNCHANGED task PROVE Goal
  BY <1>1, <1>7
<1> QED
  BY <1>2, <1>3, <1>4, <1>5, <1>6, <1>7
  DEF Next, vars, FlushConflict, WorkerLoad, WorkerReady, WorkerHeld, Allowed, Flush, Crash,
      HoldChange, Activity, ClientReady, Deliver

----------------------------------------------------------------------------
(* Records deleted on the way.                                             *)

LEMMA UnbackedStep == PurgeInv /\ [Next]_vars => UnbackedInv'
<1> SUFFICES ASSUME PurgeInv, [Next]_vars, NEW r \in Records, Unbacked(r)'
             PROVE  \E k \in Keys : r \in k /\ task'[k].status # "NONE"
  BY DEF UnbackedInv
<1>0. TypeOK /\ SessionsInv /\ UnbackedInv /\ Grows
  BY GrowsStep DEF PurgeInv
<1>1. CASE record[r] = "DELETED"
  <2>1. Unbacked(r)
    BY <1>0, <1>1 DEF Unbacked, Grows, Resources
  <2> QED
    BY <1>0, <2>1 DEF UnbackedInv, Grows, PayloadsMove
<1>2. CASE record[r] # "DELETED"
  <2>1. record'[r] = "DELETED"
    BY DEF Unbacked
  <2>2. PICK a \in Actors : sess[a].pc # "idle" /\ r \in sess[a].wiped
    <3>1. \/ \E c \in Clients, q \in Records : ClientHeld(c, q)
          \/ \E w \in Workers, q \in Records : WorkerHeld(w, q)
          \/ \E a \in Actors, answered \in BOOLEAN : Commit(a, answered)
      BY <1>2, <2>1
      DEF Next, vars, Request, ClientReady, FlushConflict, Claim, WorkerLoad, WorkerBlock,
          WorkerReady, WorkerError, Allowed, Flush, Deliver, Crash, HoldChange, Activity
    <3>2. PICK a \in Actors : sess[a].pc # "idle" /\ record' = Wipe(sess[a].wiped)
      BY <3>1 DEF ClientHeld, WorkerHeld, Commit, Actors
    <3> QED
      BY <1>2, <2>1, <3>2 DEF Wipe
  <2>3. sess[a].key \in Keys /\ WorkInv(a, sess[a])
    BY <1>0, <2>2, AtWork DEF SessionsInv
  <2> QED
    BY <1>0, <2>2, <2>3 DEF WorkInv, Grows, PayloadsMove
<1> QED
  BY <1>1, <1>2

----------------------------------------------------------------------------
LEMMA PurgeInit == Init => PurgeInv
<1> SUFFICES ASSUME Init PROVE PurgeInv
  OBVIOUS
<1>1. \A a \in Actors : sess[a].pc = "idle"
  BY IdleType DEF Init
<1>2. \A k \in Keys : task[k].ids = {} /\ task[k].status = "NONE"
  BY DEF Init, NoTask
<1>3. \A r \in Records : record[r] = "LIVE"
  BY DEF Init
<1> QED
  BY <1>1, <1>2, <1>3, TypeInit
  DEF PurgeInv, SessionsInv, TasksInv, UnbackedInv, Unbacked

LEMMA PurgeStep == PurgeInv /\ [Next]_vars => PurgeInv'
BY TypeStep, SessionsStep, TasksStep, UnbackedStep DEF PurgeInv

(***************************************************************************)
(* Whatever is cut short, a FORGET_USER task that says COMPLETED has       *)
(* erased the records of its payload, and a record anonymised without an   *)
(* event for Redis belongs to a task that does not claim it (PurgeSafe:    *)
(* memory/deletion.py, jobs.py, scheduler.py).                             *)
(***************************************************************************)
THEOREM PurgeIsSafe == Spec => []PurgeSafe
<1>1. PurgeInv => PurgeSafe
  <2> SUFFICES ASSUME PurgeInv PROVE PurgeSafe
    OBVIOUS
  <2>1. CompletedMeansErased
    BY DEF PurgeInv, TasksInv, Backed, CompletedMeansErased, Erased
  <2>2. UnbackedIsVisible
    <3> SUFFICES ASSUME NEW r \in Records, Unbacked(r)
                 PROVE  \E k \in Keys : /\ r \in k /\ task[k].status # "NONE"
                                        /\ task[k].status = "COMPLETED" => r \notin task[k].ids
      BY DEF UnbackedIsVisible
    <3>1. PICK k \in Keys : r \in k /\ task[k].status # "NONE"
      BY DEF PurgeInv, UnbackedInv
    <3>2. task[k].status = "COMPLETED" => r \notin task[k].ids
      BY DEF PurgeInv, TasksInv, Backed, Unbacked
    <3> QED
      BY <3>1, <3>2
  <2> QED
    BY <2>1, <2>2 DEF PurgeInv, PurgeSafe
<1> QED
  BY <1>1, PurgeInit, PurgeStep, PTL DEF Spec

(* The worker and the endpoint anonymise a record only after a decision    *)
(* that allowed it, which a hold refuses: while a record is held and no    *)
(* session has passed its decision, no purge gets at it (deletion.py and   *)
(* scheduler.py, the loops over _governance_decision).                     *)
THEOREM HoldFences == Spec => HoldIsAFence
<1> DEFINE Fence == \A r \in Records :
                      record[r] = "LIVE" /\ hold[r] /\ NoDeleteUnderWay(r) /\ hold'[r]
                        => record'[r] = "LIVE" /\ NoDeleteUnderWay(r)'
<1>1. TypeOK /\ [Next]_vars => Fence
  <2> SUFFICES ASSUME TypeOK, [Next]_vars, NEW r \in Records, record[r] = "LIVE", hold[r],
                      NoDeleteUnderWay(r)
               PROVE  record'[r] = "LIVE" /\ NoDeleteUnderWay(r)'
    OBVIOUS
  <2> DEFINE Goal == record'[r] = "LIVE" /\ \A b \in Actors : r \notin sess'[b].wiped
  <2>0. Idle.wiped = {} /\ \A a \in Actors : sess[a] \in Session
    BY DEF Idle, TypeOK
  <2>1. ASSUME NEW a \in Actors, NEW x, r \notin x.wiped,
               record' = Wipe(sess[a].wiped) \/ record' = record,
               sess' = [sess EXCEPT ![a] = x]
        PROVE  Goal
    BY <2>1 DEF Wipe, NoDeleteUnderWay, TypeOK
  <2>2. ASSUME NEW a \in Actors, NEW q \in Records, Allowed(a, q) PROVE Goal
    <3> DEFINE x == [sess[a] EXCEPT !.todo = @ \ {q}, !.wiped = @ \cup {q},
                                    !.ids = IF a \in Clients THEN @ \cup {q} ELSE @]
    <3>1. x.wiped = sess[a].wiped \cup {q} /\ q # r
      BY <2>0, <2>2 DEF Session, Allowed
    <3>2. sess' = [sess EXCEPT ![a] = x] /\ record' = record
      BY <2>2 DEF Allowed
    <3> HIDE DEF x
    <3> QED
      BY <2>1, <3>1, <3>2 DEF NoDeleteUnderWay
  <2>3. ASSUME NEW a \in Actors, Close(a),
               record' = Wipe(sess[a].wiped) \/ record' = record
        PROVE  Goal
    BY <2>0, <2>1, <2>3 DEF Close
  <2>4. ASSUME NEW c \in Clients, Request(c) PROVE Goal
    <3>1. CASE task[Live].status = "COMPLETED"
      BY <2>4, <3>1 DEF Request, NoDeleteUnderWay
    <3>2. CASE task[Live].status # "COMPLETED"
      <4> DEFINE x == [Idle EXCEPT !.pc = "govern", !.key = Live, !.todo = Live,
                         !.running = (task'[Live].status = "RUNNING"),
                         !.payload = task'[Live].ids,
                         !.attempts = Bump(task'[Live].attempts, MaxAttempts)]
      <4>1. sess' = [sess EXCEPT ![c] = x] /\ record' = record
        BY <2>4, <3>2 DEF Request
      <4>2. x.wiped = {} /\ c \in Actors
        BY DEF Idle, Actors
      <4> HIDE DEF x
      <4> QED
        BY <2>1, <4>1, <4>2
    <3> QED
      BY <3>1, <3>2
  <2>5. ASSUME NEW w \in Workers, NEW k \in Keys, Claim(w, k) PROVE Goal
    <3>1. /\ sess'[w].wiped = {}
          /\ \A b \in Actors \ {w} : sess'[b] = sess[b]
          /\ record' = record
      BY <2>5 DEF Claim, Idle, TypeOK, Actors
    <3> QED
      BY <3>1 DEF NoDeleteUnderWay
  <2>6. ASSUME NEW c \in Clients, NEW q \in Records, ClientHeld(c, q) PROVE Goal
    <3> DEFINE x == [sess[c] EXCEPT !.todo = @ \ {q}, !.kept = @ \cup {q}, !.wiped = {},
                                    !.noted = TRUE]
    <3>1. sess' = [sess EXCEPT ![c] = x] /\ c \in Actors /\ r \notin sess[c].wiped
          /\ (record' = Wipe(sess[c].wiped) \/ record' = record)
      BY <2>6 DEF ClientHeld, Actors, NoDeleteUnderWay
    <3>2. x.wiped = {}
      BY <2>0, <3>1 DEF Session
    <3> HIDE DEF x
    <3> QED
      BY <2>1, <3>1, <3>2
  <2>7. ASSUME NEW c \in Clients, ClientReady(c) PROVE Goal
    <3> DEFINE x == [sess[c] EXCEPT !.pc = "flush", !.picked = candidates,
                      !.seen = {s \in Wanted(c) : Exists(outbox[sess[c].key][s])}]
    <3>1. sess' = [sess EXCEPT ![c] = x] /\ c \in Actors /\ r \notin sess[c].wiped
          /\ (record' = Wipe(sess[c].wiped) \/ record' = record)
      BY <2>7 DEF ClientReady, Actors, NoDeleteUnderWay
    <3>2. x.wiped = sess[c].wiped
      BY <2>0, <3>1 DEF Session
    <3> HIDE DEF x
    <3> QED
      BY <2>1, <3>1, <3>2
  <2>8. ASSUME NEW w \in Workers, WorkerLoad(w) PROVE Goal
    <3> DEFINE x == [sess[w] EXCEPT !.pc = "govern", !.todo = sess[w].ids \cap Live]
    <3>1. sess' = [sess EXCEPT ![w] = x] /\ w \in Actors /\ r \notin sess[w].wiped
          /\ (record' = Wipe(sess[w].wiped) \/ record' = record)
      BY <2>8 DEF WorkerLoad, Actors, NoDeleteUnderWay
    <3>2. x.wiped = sess[w].wiped
      BY <2>0, <3>1 DEF Session
    <3> HIDE DEF x
    <3> QED
      BY <2>1, <3>1, <3>2
  <2>9. ASSUME NEW w \in Workers, WorkerReady(w) PROVE Goal
    <3> DEFINE x == [sess[w] EXCEPT !.pc = "flush"]
    <3>1. sess' = [sess EXCEPT ![w] = x] /\ w \in Actors /\ r \notin sess[w].wiped
          /\ (record' = Wipe(sess[w].wiped) \/ record' = record)
      BY <2>9 DEF WorkerReady, Actors, NoDeleteUnderWay
    <3>2. x.wiped = sess[w].wiped
      BY <2>0, <3>1 DEF Session
    <3> HIDE DEF x
    <3> QED
      BY <2>1, <3>1, <3>2
  <2>10. ASSUME NEW w \in Workers, NEW q \in Records, WorkerHeld(w, q) PROVE Goal
    <3> DEFINE x == [sess[w] EXCEPT !.pc = "blocking", !.wiped = {}]
    <3>1. sess' = [sess EXCEPT ![w] = x] /\ w \in Actors /\ r \notin sess[w].wiped
          /\ (record' = Wipe(sess[w].wiped) \/ record' = record)
      BY <2>10 DEF WorkerHeld, Actors, NoDeleteUnderWay
    <3>2. x.wiped = {}
      BY <2>0, <3>1 DEF Session
    <3> HIDE DEF x
    <3> QED
      BY <2>1, <3>1, <3>2
  <2>11. ASSUME NEW a \in Actors, NEW old \in SUBSET Resources, Flush(a, old) PROVE Goal
    <3> DEFINE x == [sess[a] EXCEPT !.pc = "dispatch", !.new = Missing(a),
             !.tries = [s \in Resources |->
                          IF s \in old THEN outbox[sess[a].key][s].attempts ELSE 0],
             !.got = [s \in Resources |-> IF s \in Missing(a) \cup old
                                           THEN "todo" ELSE "none"]]
    <3>1. sess' = [sess EXCEPT ![a] = x] /\ a \in Actors /\ r \notin sess[a].wiped
          /\ (record' = Wipe(sess[a].wiped) \/ record' = record)
      BY <2>11 DEF Flush, Actors, NoDeleteUnderWay
    <3>2. x.wiped = sess[a].wiped
      BY <2>0, <3>1 DEF Session
    <3> HIDE DEF x
    <3> QED
      BY <2>1, <3>1, <3>2
  <2>12. ASSUME NEW a \in Actors, NEW ok \in SUBSET Resources, NEW gone \in SUBSET Resources,
                Deliver(a, ok, gone)
         PROVE Goal
    <3> DEFINE x == [sess[a] EXCEPT !.pc = "commit",
             !.got = [s \in Resources |-> IF s \in ok THEN "ok"
                        ELSE IF s \in {t \in Resources : sess[a].got[t] = "todo"}
                             THEN "fail" ELSE "none"]]
    <3>1. sess' = [sess EXCEPT ![a] = x] /\ a \in Actors /\ r \notin sess[a].wiped
          /\ (record' = Wipe(sess[a].wiped) \/ record' = record)
      BY <2>12 DEF Deliver, Actors, NoDeleteUnderWay
    <3>2. x.wiped = sess[a].wiped
      BY <2>0, <3>1 DEF Session
    <3> HIDE DEF x
    <3> QED
      BY <2>1, <3>1, <3>2
  <2>13. ASSUME UNCHANGED <<record, sess>> PROVE Goal
    BY <2>13 DEF NoDeleteUnderWay
  <2>14. Clients \subseteq Actors /\ Workers \subseteq Actors
    BY DEF Actors
  <2>15. Goal
    BY <2>2, <2>3, <2>4, <2>5, <2>6, <2>7, <2>8, <2>9, <2>10, <2>11, <2>12, <2>13, <2>14
    DEF Next, vars, FlushConflict, WorkerBlock, WorkerError, Commit, Crash, HoldChange, Activity
  <2> QED
    BY <2>15 DEF NoDeleteUnderWay
<1>2. TypeOK /\ [Next]_vars => [Fence]_vars
  BY <1>1
<1>3. Spec => []TypeOK
  BY TypeInit, TypeStep, PTL DEF Spec
<1>4. Spec => [][Fence]_vars
  BY <1>2, <1>3, PTL DEF Spec
<1> QED
  BY <1>4 DEF HoldIsAFence

----------------------------------------------------------------------------
(* What an answer accounts for.                                            *)

(* Every record of a request is erased by it, kept by it or still to be    *)
(* decided on, and its answer is not given before it ends.                 *)
CoverInv(x) ==
  /\ x.key \subseteq x.ids \cup x.kept \cup x.todo
  /\ x.pc \in {"flush", "dispatch", "commit"} => x.todo = {}

ClientsInv ==
  \A c \in Clients : sess[c].pc # "idle" => CoverInv(sess[c]) /\ reply[c].kind # "fresh"

LEMMA ClientsStep == TypeOK /\ ClientsInv /\ [Next]_vars => ClientsInv'
<1> SUFFICES ASSUME TypeOK, ClientsInv, [Next]_vars PROVE ClientsInv'
  OBVIOUS
<1>0. /\ \A a \in Actors : sess[a] \in Session
      /\ Clients \subseteq Actors /\ Workers \subseteq Actors
      /\ \A w \in Workers : w \notin Clients
  BY PurgeAssumption DEF TypeOK, Actors
<1>1. ASSUME NEW a \in Actors, NEW x, sess' = [sess EXCEPT ![a] = x],
             a \in Clients => x.pc = "idle" \/ (CoverInv(x) /\ reply'[a].kind # "fresh"),
             \A c \in Clients \ {a} : reply'[c] = reply[c]
      PROVE  ClientsInv'
  <2> SUFFICES ASSUME NEW c \in Clients, sess'[c].pc # "idle"
               PROVE  CoverInv(sess'[c]) /\ reply'[c].kind # "fresh"
    BY DEF ClientsInv, CoverInv
  <2>1. CASE c = a
    BY <1>0, <1>1, <2>1 DEF TypeOK
  <2>2. CASE c # a
    BY <1>0, <1>1, <2>2 DEF TypeOK, ClientsInv
  <2> QED
    BY <2>1, <2>2
<1>2. ASSUME NEW c \in Clients, Request(c) PROVE ClientsInv'
  <2>1. CASE task[Live].status = "COMPLETED"
    <3>1. sess' = sess /\ \A d \in Clients \ {c} : reply'[d] = reply[d]
      BY <1>2, <2>1 DEF Request, TypeOK
    <3>2. sess[c].pc = "idle"
      BY <1>2 DEF Request
    <3> QED
      BY <3>1, <3>2 DEF ClientsInv, CoverInv
  <2>2. CASE task[Live].status # "COMPLETED"
    <3> DEFINE x == [Idle EXCEPT !.pc = "govern", !.key = Live, !.todo = Live,
                       !.running = (task'[Live].status = "RUNNING"),
                       !.payload = task'[Live].ids,
                       !.attempts = Bump(task'[Live].attempts, MaxAttempts)]
    <3>1. sess' = [sess EXCEPT ![c] = x] /\ reply' = [reply EXCEPT ![c] = NoReply]
      BY <1>2, <2>2 DEF Request
    <3>2. x.key = Live /\ x.todo = Live /\ x.pc = "govern"
      BY DEF Idle
    <3>3. NoReply.kind # "fresh"
      BY DEF NoReply
    <3>4. reply'[c].kind # "fresh" /\ \A d \in Clients \ {c} : reply'[d] = reply[d]
      BY <3>1, <3>3 DEF TypeOK
    <3> HIDE DEF x
    <3>5. CoverInv(x)
      BY <3>2 DEF CoverInv
    <3> QED
      BY <1>0, <1>1, <3>1, <3>4, <3>5
  <2> QED
    BY <2>1, <2>2
<1>3. ASSUME NEW a \in Actors, Close(a), \A c \in Clients \ {a} : reply'[c] = reply[c]
      PROVE  ClientsInv'
  <2> SUFFICES ASSUME NEW c \in Clients, sess'[c].pc # "idle"
               PROVE  CoverInv(sess'[c]) /\ reply'[c].kind # "fresh"
    BY DEF ClientsInv, CoverInv
  <2>1. c # a
    BY <1>0, <1>3, IdleType DEF Close, TypeOK
  <2>2. sess'[c] = sess[c] /\ reply'[c] = reply[c]
    BY <1>0, <1>3, <2>1 DEF Close, TypeOK
  <2> QED
    BY <2>2 DEF ClientsInv
<1>4. ASSUME NEW w \in Workers, NEW x, sess' = [sess EXCEPT ![w] = x], reply' = reply
      PROVE  ClientsInv'
  BY <1>0, <1>1, <1>4
<1>5. ASSUME NEW c \in Clients, NEW x, sess' = [sess EXCEPT ![c] = x], reply' = reply,
             CoverInv(x), sess[c].pc # "idle"
      PROVE  ClientsInv'
  BY <1>0, <1>1, <1>5 DEF ClientsInv
<1>6. ASSUME NEW a \in Actors, NEW r \in Records, Allowed(a, r) PROVE ClientsInv'
  <2> DEFINE x == [sess[a] EXCEPT !.todo = @ \ {r}, !.wiped = @ \cup {r},
                                  !.ids = IF a \in Clients THEN @ \cup {r} ELSE @]
  <2>1. sess' = [sess EXCEPT ![a] = x] /\ sess[a].pc = "govern" /\ reply' = reply
    BY <1>6 DEF Allowed
  <2>2. /\ x.key = sess[a].key /\ x.todo = sess[a].todo \ {r} /\ x.kept = sess[a].kept
        /\ x.ids = IF a \in Clients THEN sess[a].ids \cup {r} ELSE sess[a].ids
        /\ x.pc = "govern"
    BY <1>0, <2>1 DEF Session
  <2> HIDE DEF x
  <2>3. a \in Clients => CoverInv(x)
    BY <2>1, <2>2 DEF ClientsInv, CoverInv
  <2> QED
    BY <1>4, <1>5, <2>1, <2>3 DEF Actors
<1>7. ASSUME NEW c \in Clients, NEW r \in Records, ClientHeld(c, r) PROVE ClientsInv'
  <2> DEFINE x == [sess[c] EXCEPT !.todo = @ \ {r}, !.kept = @ \cup {r}, !.wiped = {},
                                  !.noted = TRUE]
  <2>1. sess' = [sess EXCEPT ![c] = x] /\ sess[c].pc = "govern" /\ reply' = reply
    BY <1>7 DEF ClientHeld
  <2>2. /\ x.key = sess[c].key /\ x.todo = sess[c].todo \ {r}
        /\ x.kept = sess[c].kept \cup {r} /\ x.ids = sess[c].ids /\ x.pc = "govern"
    BY <1>0, <2>1 DEF Session
  <2> HIDE DEF x
  <2>3. CoverInv(x)
    BY <2>1, <2>2 DEF ClientsInv, CoverInv
  <2> QED
    BY <1>5, <2>1, <2>3
<1>8. ASSUME NEW c \in Clients, ClientReady(c) PROVE ClientsInv'
  <2> DEFINE x == [sess[c] EXCEPT !.pc = "flush", !.picked = candidates,
                      !.seen = {s \in Wanted(c) : Exists(outbox[sess[c].key][s])}]
  <2>1. /\ sess' = [sess EXCEPT ![c] = x] /\ sess[c].pc = "govern" /\ sess[c].todo = {}
        /\ reply' = reply
    BY <1>8 DEF ClientReady
  <2>2. /\ x.key = sess[c].key /\ x.todo = sess[c].todo /\ x.kept = sess[c].kept
        /\ x.ids = sess[c].ids
    BY <1>0 DEF Session
  <2> HIDE DEF x
  <2>3. CoverInv(x)
    BY <2>1, <2>2 DEF ClientsInv, CoverInv
  <2> QED
    BY <1>5, <2>1, <2>3
<1>9. ASSUME NEW a \in Actors, NEW old \in SUBSET Resources, Flush(a, old) PROVE ClientsInv'
  <2> DEFINE x == [sess[a] EXCEPT !.pc = "dispatch", !.new = Missing(a),
             !.tries = [s \in Resources |->
                          IF s \in old THEN outbox[sess[a].key][s].attempts ELSE 0],
             !.got = [s \in Resources |-> IF s \in Missing(a) \cup old
                                           THEN "todo" ELSE "none"]]
  <2>1. sess' = [sess EXCEPT ![a] = x] /\ sess[a].pc = "flush" /\ reply' = reply
    BY <1>9 DEF Flush
  <2>2. /\ x.key = sess[a].key /\ x.todo = sess[a].todo /\ x.kept = sess[a].kept
        /\ x.ids = sess[a].ids
    BY <1>0 DEF Session
  <2> HIDE DEF x
  <2>3. a \in Clients => CoverInv(x)
    BY <2>1, <2>2 DEF ClientsInv, CoverInv
  <2> QED
    BY <1>4, <1>5, <2>1, <2>3 DEF Actors
<1>10. ASSUME NEW a \in Actors, NEW ok \in SUBSET Resources, NEW gone \in SUBSET Resources,
              Deliver(a, ok, gone)
       PROVE  ClientsInv'
  <2> DEFINE x == [sess[a] EXCEPT !.pc = "commit",
             !.got = [s \in Resources |-> IF s \in ok THEN "ok"
                        ELSE IF s \in {t \in Resources : sess[a].got[t] = "todo"}
                             THEN "fail" ELSE "none"]]
  <2>1. sess' = [sess EXCEPT ![a] = x] /\ sess[a].pc = "dispatch" /\ reply' = reply
    BY <1>10 DEF Deliver
  <2>2. /\ x.key = sess[a].key /\ x.todo = sess[a].todo /\ x.kept = sess[a].kept
        /\ x.ids = sess[a].ids
    BY <1>0 DEF Session
  <2> HIDE DEF x
  <2>3. a \in Clients => CoverInv(x)
    BY <2>1, <2>2 DEF ClientsInv, CoverInv
  <2> QED
    BY <1>4, <1>5, <2>1, <2>3 DEF Actors
<1>11. ASSUME NEW c \in Clients, FlushConflict(c) PROVE ClientsInv'
  BY <1>0, <1>3, <1>11 DEF FlushConflict, TypeOK
<1>12. ASSUME NEW a \in Actors, NEW answered \in BOOLEAN, Commit(a, answered) \/ Crash(a)
       PROVE  ClientsInv'
  <2>1. \A c \in Clients \ {a} : reply'[c] = reply[c]
    BY <1>12 DEF Commit, Crash, TypeOK
  <2> QED
    BY <1>3, <1>12, <2>1 DEF Commit, Crash
<1>13. ASSUME NEW w \in Workers,
              \/ \E k \in Keys : Claim(w, k)
              \/ \E r \in Records : WorkerHeld(w, r)
              \/ WorkerLoad(w) \/ WorkerReady(w) \/ WorkerBlock(w) \/ WorkerError(w)
       PROVE  ClientsInv'
  <2>1. PICK x : sess' = [sess EXCEPT ![w] = x]
    BY <1>13 DEF Claim, WorkerLoad, WorkerReady, WorkerHeld, WorkerBlock, WorkerError, Close
  <2>2. reply' = reply
    BY <1>13 DEF Claim, WorkerLoad, WorkerReady, WorkerHeld, WorkerBlock, WorkerError
  <2> QED
    BY <1>4, <2>1, <2>2
<1>14. ASSUME UNCHANGED <<sess, reply>> PROVE ClientsInv'
  BY <1>14 DEF ClientsInv, CoverInv
<1> QED
  BY <1>0, <1>2, <1>6, <1>7, <1>8, <1>9, <1>10, <1>11, <1>12, <1>13, <1>14
  DEF Next, vars, HoldChange, Activity

(* What a commit of a request tells is true of the records it was asked    *)
(* for.                                                                    *)
LEMMA AnswerErased ==
  ASSUME PurgeInv, ClientsInv, NEW c \in Clients, NEW answered \in BOOLEAN, Commit(c, answered)
  PROVE  \E z : /\ reply' = [reply EXCEPT ![c] = z] /\ (z.held <=> sess[c].kept # {})
                /\ z.verified => \A r \in sess[c].key \ sess[c].kept :
                     record'[r] = "DELETED" /\ copy'[r] = "ABSENT"
<1>0. TypeOK /\ SessionsInv /\ c \in Actors BY DEF PurgeInv, Actors
<1>1. PICK k \in Keys : k = sess[c].key BY <1>0, AtWork
<1> DEFINE rows     == Rows(c)
           verified == answered /\ Verified(c, rows)
                       /\ StatusAfter({rows[s] : s \in Resources}, TRUE) = "COMPLETED"
           z == [kind |-> "fresh", held |-> sess[c].kept # {}, verified |-> verified]
<1>2. reply' = [reply EXCEPT ![c] = z] BY DEF Commit
<1>3. ASSUME verified, NEW r \in sess[c].key \ sess[c].kept
      PROVE  record'[r] = "DELETED" /\ copy'[r] = "ABSENT"
  <2>1. CoverInv(sess[c]) BY DEF ClientsInv, Commit
  <2>2. r \in sess[c].ids BY <2>1 DEF CoverInv, Commit
  <2>3. r \in Records /\ r \in Resources
    BY <1>0, <2>2 DEF TypeOK, Session, Keys, Resources
  <2>4. outbox'[k] = rows BY <1>0, <1>1 DEF Commit, TypeOK
  <2>5. Exists(rows[r]) BY <1>0, <1>1, <2>2, <2>4, CommitEffect
  <2> QED BY <1>3, <2>2, <2>3, <2>5 DEF Verified, Commit
<1> HIDE DEF verified
<1>4. (z.verified => verified) /\ (z.held <=> sess[c].kept # {}) OBVIOUS
<1> HIDE DEF z
<1>5. z.verified => \A r \in sess[c].key \ sess[c].kept : record'[r] = "DELETED" /\ copy'[r] = "ABSENT"
  BY <1>3, <1>4
<1> QED BY <1>2, <1>4, <1>5

(* A verified answer accounts for all that the user had when the request   *)
(* began (deletion.py purge_current_user).                                 *)
THEOREM AnswersCover == Spec => VerifiedAnswerCoversUser
<1> DEFINE Covers ==
      \A c \in Clients :
        sess[c].pc = "commit" /\ reply'[c].kind = "fresh" /\ reply'[c].verified
          => /\ \A r \in sess[c].key \ sess[c].kept : Erased(r)'
             /\ sess[c].picked \cap candidates' = {}
             /\ reply'[c].held <=> sess[c].kept # {}
<1>1. PurgeInv /\ ClientsInv /\ [Next]_vars => Covers
  <2> SUFFICES ASSUME PurgeInv, ClientsInv, [Next]_vars, NEW c \in Clients,
                      sess[c].pc = "commit", reply'[c].kind = "fresh", reply'[c].verified
               PROVE  /\ \A r \in sess[c].key \ sess[c].kept : Erased(r)'
                      /\ sess[c].picked \cap candidates' = {}
                      /\ reply'[c].held <=> sess[c].kept # {}
    OBVIOUS
  <2>0. TypeOK /\ SessionsInv /\ c \in Actors /\ reply[c].kind # "fresh" /\ CoverInv(sess[c])
    BY DEF PurgeInv, Actors, ClientsInv
  <2>1. PICK answered \in BOOLEAN : Commit(c, answered)
    <3>1. reply'[c] # reply[c]
      BY <2>0
    <3>2. \/ \E d \in Clients : Request(d) \/ FlushConflict(d)
          \/ \E a \in Actors : Crash(a)
          \/ \E a \in Actors, answered \in BOOLEAN : Commit(a, answered)
      BY <3>1
      DEF Next, vars, ClientReady, ClientHeld, Claim, WorkerLoad, WorkerBlock, WorkerReady,
          WorkerError, WorkerHeld, Allowed, Flush, Deliver, HoldChange, Activity
    <3>3. ASSUME NEW d \in Clients, Request(d) PROVE FALSE
      <4>1. c # d
        BY <3>3 DEF Request
      <4> QED
        BY <2>0, <3>1, <3>3, <4>1 DEF Request, TypeOK
    <3>4. ErrorReply.kind # "fresh"
      BY DEF ErrorReply, NoReply
    <3>5. ASSUME NEW d \in Clients, FlushConflict(d) PROVE FALSE
      BY <2>0, <3>1, <3>4, <3>5 DEF FlushConflict, TypeOK
    <3>6. ASSUME NEW a \in Actors, Crash(a) PROVE FALSE
      BY <2>0, <3>1, <3>4, <3>6 DEF Crash, TypeOK
    <3>7. ASSUME NEW a \in Actors, NEW answered \in BOOLEAN, Commit(a, answered)
          PROVE  a = c
      BY <2>0, <3>1, <3>7 DEF Commit, TypeOK
    <3> QED
      BY <3>2, <3>3, <3>5, <3>6, <3>7
  <2>2. PICK z : /\ reply' = [reply EXCEPT ![c] = z] /\ (z.held <=> sess[c].kept # {})
                 /\ z.verified => \A r \in sess[c].key \ sess[c].kept :
                      record'[r] = "DELETED" /\ copy'[r] = "ABSENT"
    BY <2>1, AnswerErased
  <2>3. reply'[c] = z
    BY <2>0, <2>2 DEF TypeOK
  <2>10. sess[c].picked \cap candidates' = {}
    BY <2>1 DEF Commit
  <2> QED
    BY <2>2, <2>3, <2>10 DEF Erased
<1>2. Init => PurgeInv /\ ClientsInv
  <2> SUFFICES ASSUME Init PROVE PurgeInv /\ ClientsInv
    OBVIOUS
  <2>1. \A a \in Actors : sess[a].pc = "idle"
    BY IdleType DEF Init
  <2> QED
    BY <2>1, PurgeInit DEF ClientsInv, Actors
<1>3. PurgeInv /\ ClientsInv /\ [Next]_vars => PurgeInv' /\ ClientsInv'
  BY PurgeStep, ClientsStep DEF PurgeInv
<1>4. PurgeInv /\ ClientsInv /\ [Next]_vars => [Covers]_vars
  BY <1>1
<1> HIDE DEF Covers
<1>5. Spec => [][Covers]_vars
  BY <1>2, <1>3, <1>4, PTL DEF Spec
<1> QED
  BY <1>5 DEF Covers, VerifiedAnswerCoversUser

----------------------------------------------------------------------------
(* The refinement of PurgeContract.                                        *)

(* A session works on records that it has cleared itself or that are       *)
(* deleted already; events are written for such records only.              *)
Mine(x, r) == r \in x.wiped \/ record[r] = "DELETED"

ClearedWork(x) ==
  /\ x.pc = "idle" => x.wiped = {}
  /\ x.pc = "govern" => \A r \in x.ids : r \in x.todo \/ Mine(x, r)
  /\ x.pc \in {"flush", "dispatch", "commit"} => \A r \in x.ids : Mine(x, r)
  /\ x.pc \in {"dispatch", "commit"} => \A r \in Records : x.got[r] # "none" => Mine(x, r)

ClearedInv == \A a \in Actors : ClearedWork(sess[a])

EventsInv == \A k \in Keys, r \in Records : Exists(outbox[k][r]) => record[r] = "DELETED"

(* A task that does not exist says nothing.                                *)
RowsInv == \A k \in Keys : task[k].status = "NONE" => ~task[k].result.verified

ContractInv == PurgeInv /\ ClientsInv /\ ClearedInv /\ EventsInv /\ RowsInv

----------------------------------------------------------------------------
(* What each action makes of the session of its actor.                     *)
Others(a) == \A b \in Actors \ {a} : sess'[b] = sess[b]

LEMMA MovesSession ==
  ASSUME TypeOK, NEW a \in Actors, NEW x, sess' = [sess EXCEPT ![a] = x]
  PROVE  Others(a) /\ sess'[a] = x
BY DEF TypeOK, Others

LEMMA CloseMoves ==
  ASSUME TypeOK, NEW a \in Actors, Close(a)
  PROVE  /\ Others(a) /\ sess'[a].pc = "idle" /\ sess'[a].wiped = {} /\ sess'[a].key = {}
         /\ sess'[a].ids = {}
<1>1. Idle.pc = "idle" /\ Idle.wiped = {} /\ Idle.key = {} /\ Idle.ids = {} BY DEF Idle
<1>2. sess' = [sess EXCEPT ![a] = Idle] BY DEF Close
<1> QED BY <1>1, <1>2, MovesSession

LEMMA RequestMoves ==
  ASSUME TypeOK, NEW c \in Clients, Request(c), task[Live].status # "COMPLETED"
  PROVE  /\ Others(c) /\ sess[c].pc = "idle" /\ sess'[c].pc = "govern" /\ sess'[c].key = Live
         /\ sess'[c].wiped = {} /\ sess'[c].kept = {} /\ sess'[c].ids = {}
         /\ reply' = [reply EXCEPT ![c] = NoReply]
<1> DEFINE x == [Idle EXCEPT !.pc = "govern", !.key = Live, !.todo = Live,
                   !.running = (task'[Live].status = "RUNNING"), !.payload = task'[Live].ids,
                   !.attempts = Bump(task'[Live].attempts, MaxAttempts)]
<1>1. sess' = [sess EXCEPT ![c] = x] /\ sess[c].pc = "idle" /\ reply' = [reply EXCEPT ![c] = NoReply]
  BY DEF Request
<1>2. x.pc = "govern" /\ x.key = Live /\ x.wiped = {} /\ x.kept = {} /\ x.ids = {} BY DEF Idle
<1>3. c \in Actors BY DEF Actors
<1> HIDE DEF x
<1> QED BY <1>1, <1>2, <1>3, MovesSession

LEMMA AllowedMoves ==
  ASSUME TypeOK, NEW a \in Actors, NEW r \in Records, Allowed(a, r)
  PROVE  /\ Others(a) /\ sess[a].pc = "govern" /\ sess'[a].pc = "govern"
         /\ sess'[a].key = sess[a].key /\ sess'[a].kept = sess[a].kept
         /\ sess'[a].wiped = sess[a].wiped \cup {r} /\ sess'[a].todo = sess[a].todo \ {r}
         /\ sess'[a].ids \subseteq sess[a].ids \cup {r}
<1> DEFINE x == [sess[a] EXCEPT !.todo = @ \ {r}, !.wiped = @ \cup {r},
                                !.ids = IF a \in Clients THEN @ \cup {r} ELSE @]
<1>1. sess' = [sess EXCEPT ![a] = x] /\ sess[a].pc = "govern" /\ sess[a] \in Session
  BY AtWork DEF Allowed
<1>2. /\ x.pc = "govern" /\ x.key = sess[a].key /\ x.kept = sess[a].kept
      /\ x.wiped = sess[a].wiped \cup {r} /\ x.todo = sess[a].todo \ {r}
      /\ x.ids \subseteq sess[a].ids \cup {r}
  BY <1>1 DEF Session
<1> HIDE DEF x
<1> QED BY <1>1, <1>2, MovesSession

LEMMA ClientHeldMoves ==
  ASSUME TypeOK, NEW c \in Clients, NEW r \in Records, ClientHeld(c, r)
  PROVE  /\ Others(c) /\ sess[c].pc = "govern" /\ sess'[c].pc = "govern"
         /\ sess'[c].key = sess[c].key /\ sess'[c].kept = sess[c].kept \cup {r}
         /\ sess'[c].wiped = {} /\ sess'[c].ids = sess[c].ids
<1> DEFINE x == [sess[c] EXCEPT !.todo = @ \ {r}, !.kept = @ \cup {r}, !.wiped = {}, !.noted = TRUE]
<1>0. c \in Actors BY DEF Actors
<1>1. sess' = [sess EXCEPT ![c] = x] /\ sess[c].pc = "govern" /\ sess[c] \in Session
  BY <1>0, AtWork DEF ClientHeld
<1>2. /\ x.pc = "govern" /\ x.key = sess[c].key /\ x.kept = sess[c].kept \cup {r}
      /\ x.wiped = {} /\ x.ids = sess[c].ids
  BY <1>1 DEF Session
<1> HIDE DEF x
<1> QED BY <1>0, <1>1, <1>2, MovesSession

LEMMA ClientReadyMoves ==
  ASSUME TypeOK, NEW c \in Clients, ClientReady(c)
  PROVE  /\ Others(c) /\ sess[c].pc = "govern" /\ sess[c].todo = {} /\ sess'[c].pc = "flush"
         /\ sess'[c].key = sess[c].key /\ sess'[c].kept = sess[c].kept
         /\ sess'[c].wiped = sess[c].wiped /\ sess'[c].ids = sess[c].ids
<1> DEFINE x == [sess[c] EXCEPT !.pc = "flush", !.picked = candidates,
                   !.seen = {s \in Wanted(c) : Exists(outbox[sess[c].key][s])}]
<1>0. c \in Actors BY DEF Actors
<1>1. sess' = [sess EXCEPT ![c] = x] /\ sess[c].pc = "govern" /\ sess[c].todo = {} /\ sess[c] \in Session
  BY <1>0, AtWork DEF ClientReady
<1>2. /\ x.pc = "flush" /\ x.key = sess[c].key /\ x.kept = sess[c].kept
      /\ x.wiped = sess[c].wiped /\ x.ids = sess[c].ids
  BY <1>1 DEF Session
<1> HIDE DEF x
<1> QED BY <1>0, <1>1, <1>2, MovesSession

LEMMA ClaimMoves ==
  ASSUME TypeOK, NEW w \in Workers, NEW k \in Keys, Claim(w, k)
  PROVE  /\ Others(w) /\ sess[w].pc = "idle" /\ sess'[w].pc = "load" /\ sess'[w].wiped = {}
<1> DEFINE x == [Idle EXCEPT !.pc = "load", !.key = k, !.ids = task[k].ids]
<1>1. sess' = [sess EXCEPT ![w] = x] /\ sess[w].pc = "idle" BY DEF Claim
<1>2. x.pc = "load" /\ x.wiped = {} BY DEF Idle
<1>3. w \in Actors BY DEF Actors
<1> HIDE DEF x
<1> QED BY <1>1, <1>2, <1>3, MovesSession

LEMMA WorkerLoadMoves ==
  ASSUME TypeOK, NEW w \in Workers, WorkerLoad(w)
  PROVE  /\ Others(w) /\ sess'[w].pc = "govern" /\ sess'[w].wiped = sess[w].wiped
         /\ sess'[w].ids = sess[w].ids /\ sess'[w].todo = sess[w].ids \cap Live
<1> DEFINE x == [sess[w] EXCEPT !.pc = "govern", !.todo = sess[w].ids \cap Live]
<1>0. w \in Actors BY DEF Actors
<1>1. sess' = [sess EXCEPT ![w] = x] /\ sess[w] \in Session BY <1>0, AtWork DEF WorkerLoad
<1>2. /\ x.pc = "govern" /\ x.wiped = sess[w].wiped /\ x.ids = sess[w].ids
      /\ x.todo = sess[w].ids \cap Live
  BY <1>1 DEF Session
<1> HIDE DEF x
<1> QED BY <1>0, <1>1, <1>2, MovesSession

LEMMA WorkerHeldMoves ==
  ASSUME TypeOK, NEW w \in Workers, NEW r \in Records, WorkerHeld(w, r)
  PROVE  /\ Others(w) /\ sess'[w].pc = "blocking" /\ sess'[w].wiped = {}
<1> DEFINE x == [sess[w] EXCEPT !.pc = "blocking", !.wiped = {}]
<1>0. w \in Actors BY DEF Actors
<1>1. sess' = [sess EXCEPT ![w] = x] /\ sess[w] \in Session BY <1>0, AtWork DEF WorkerHeld
<1>2. x.pc = "blocking" /\ x.wiped = {} BY <1>1 DEF Session
<1> HIDE DEF x
<1> QED BY <1>0, <1>1, <1>2, MovesSession

LEMMA WorkerReadyMoves ==
  ASSUME TypeOK, NEW w \in Workers, WorkerReady(w)
  PROVE  /\ Others(w) /\ sess[w].pc = "govern" /\ sess[w].todo = {} /\ sess'[w].pc = "flush"
         /\ sess'[w].wiped = sess[w].wiped /\ sess'[w].ids = sess[w].ids
<1> DEFINE x == [sess[w] EXCEPT !.pc = "flush"]
<1>0. w \in Actors BY DEF Actors
<1>1. sess' = [sess EXCEPT ![w] = x] /\ sess[w].pc = "govern" /\ sess[w].todo = {} /\ sess[w] \in Session
  BY <1>0, AtWork DEF WorkerReady
<1>2. x.pc = "flush" /\ x.wiped = sess[w].wiped /\ x.ids = sess[w].ids BY <1>1 DEF Session
<1> HIDE DEF x
<1> QED BY <1>0, <1>1, <1>2, MovesSession

LEMMA FlushMoves ==
  ASSUME TypeOK, NEW a \in Actors, NEW old \in SUBSET Resources, Flush(a, old)
  PROVE  /\ Others(a) /\ sess[a].pc = "flush" /\ sess'[a].pc = "dispatch"
         /\ sess'[a].key = sess[a].key /\ sess'[a].kept = sess[a].kept
         /\ sess'[a].wiped = sess[a].wiped /\ sess'[a].ids = sess[a].ids
         /\ \A r \in Records : sess'[a].got[r] # "none" =>
              r \in sess[a].ids \/ Exists(outbox[sess[a].key][r])
<1> DEFINE got == [s \in Resources |-> IF s \in Missing(a) \cup old THEN "todo" ELSE "none"]
           x   == [sess[a] EXCEPT !.pc = "dispatch", !.new = Missing(a),
                     !.tries = [s \in Resources |->
                                  IF s \in old THEN outbox[sess[a].key][s].attempts ELSE 0],
                     !.got = got]
<1>1. sess' = [sess EXCEPT ![a] = x] /\ sess[a].pc = "flush" /\ sess[a] \in Session
  BY AtWork DEF Flush
<1>2. /\ x.pc = "dispatch" /\ x.key = sess[a].key /\ x.kept = sess[a].kept
      /\ x.wiped = sess[a].wiped /\ x.ids = sess[a].ids /\ x.got = got
  BY <1>1 DEF Session
<1>3. ASSUME NEW r \in Records, got[r] # "none"
      PROVE  r \in sess[a].ids \/ Exists(outbox[sess[a].key][r])
  <2>1. r \in Resources /\ r # Registry BY PurgeAssumption DEF Resources
  <2>2. r \in Missing(a) \/ r \in old BY <1>3, <2>1
  <2>3. r \in Missing(a) => r \in sess[a].ids BY <2>1 DEF Missing, Wanted
  <2>4. r \in old => Exists(outbox[sess[a].key][r]) BY DEF Flush, Open, Exists
  <2> QED BY <2>2, <2>3, <2>4
<1> HIDE DEF x, got
<1> QED BY <1>1, <1>2, <1>3, MovesSession

LEMMA DeliverMoves ==
  ASSUME TypeOK, NEW a \in Actors, NEW ok \in SUBSET Resources, NEW gone \in SUBSET Resources,
         Deliver(a, ok, gone)
  PROVE  /\ Others(a) /\ sess[a].pc = "dispatch" /\ sess'[a].pc = "commit"
         /\ sess'[a].key = sess[a].key /\ sess'[a].kept = sess[a].kept
         /\ sess'[a].wiped = sess[a].wiped /\ sess'[a].ids = sess[a].ids
         /\ \A r \in Records : sess'[a].got[r] # "none" => sess[a].got[r] # "none"
         /\ \A r \in ok \cup gone : sess[a].got[r] # "none"
<1> DEFINE todo == {s \in Resources : sess[a].got[s] = "todo"}
           got == [s \in Resources |-> IF s \in ok THEN "ok"
                                       ELSE IF s \in todo THEN "fail" ELSE "none"]
           x   == [sess[a] EXCEPT !.pc = "commit", !.got = got]
<1>1. sess' = [sess EXCEPT ![a] = x] /\ sess[a].pc = "dispatch" /\ sess[a] \in Session
      /\ ok \subseteq todo /\ gone \subseteq todo
  BY AtWork DEF Deliver
<1>2. /\ x.pc = "commit" /\ x.key = sess[a].key /\ x.kept = sess[a].kept
      /\ x.wiped = sess[a].wiped /\ x.ids = sess[a].ids /\ x.got = got
  BY <1>1 DEF Session
<1>3. \A r \in Records : got[r] # "none" => sess[a].got[r] # "none" BY <1>1 DEF Resources
<1>4. \A r \in ok \cup gone : sess[a].got[r] # "none" BY <1>1
<1> HIDE DEF x, got
<1> QED BY <1>1, <1>2, <1>3, <1>4, MovesSession

----------------------------------------------------------------------------
(* ContractInv is kept.                                                    *)

(* The work of others stays cleared.                                       *)
LEMMA WorkStays ==
  ASSUME TypeOK, Grows, NEW a \in Actors, ClearedInv, Others(a), ClearedWork(sess[a])'
  PROVE  ClearedInv'
<1> SUFFICES ASSUME NEW b \in Actors PROVE ClearedWork(sess[b])' BY DEF ClearedInv
<1>1. CASE b = a BY <1>1
<1>2. CASE b # a
  <2>1. sess'[b] = sess[b] /\ sess[b].ids \subseteq Records
    BY <1>2 DEF Others, TypeOK, Session, Keys
  <2>2. \A r \in Records : Mine(sess[b], r) => Mine(sess[b], r)' BY <2>1 DEF Mine, Grows
  <2> QED BY <2>1, <2>2 DEF ClearedInv, ClearedWork
<1> QED BY <1>1, <1>2

LEMMA ClearedStep == PurgeInv /\ ClearedInv /\ EventsInv /\ [Next]_vars => ClearedInv'
<1> SUFFICES ASSUME PurgeInv, ClearedInv, EventsInv, [Next]_vars PROVE ClearedInv' OBVIOUS
<1>0. /\ TypeOK /\ SessionsInv /\ Grows
      /\ Clients \subseteq Actors /\ Workers \subseteq Actors
  BY GrowsStep DEF PurgeInv, Actors
<1>1. ASSUME NEW a \in Actors PROVE ClearedWork(sess[a]) /\ sess[a].ids \subseteq Records /\ sess[a].key \in Keys
  BY <1>0, AtWork DEF ClearedInv, Session, Keys
<1>2. ASSUME NEW a \in Actors, Others(a), sess'[a].pc \in {"idle", "load", "blocking"},
             sess'[a].wiped = {}
      PROVE  ClearedInv'
  BY <1>0, <1>2, WorkStays DEF ClearedWork
<1>3. ASSUME UNCHANGED sess PROVE ClearedInv'
  <2> SUFFICES ASSUME NEW b \in Actors PROVE ClearedWork(sess[b])' BY DEF ClearedInv
  <2>1. \A r \in Records : Mine(sess[b], r) => Mine(sess[b], r)' BY <1>0, <1>3 DEF Mine, Grows
  <2> QED BY <1>1, <1>3, <2>1 DEF ClearedWork
<1>4. ASSUME NEW c \in Clients, Request(c) PROVE ClearedInv'
  <2>1. CASE task[Live].status = "COMPLETED" BY <1>3, <1>4, <2>1 DEF Request
  <2>2. CASE task[Live].status # "COMPLETED"
    <3>1. Others(c) /\ sess'[c].pc = "govern" /\ sess'[c].ids = {} BY <1>0, <1>4, <2>2, RequestMoves
    <3> QED BY <1>0, <3>1, WorkStays DEF ClearedWork
  <2> QED BY <2>1, <2>2
<1>5. ASSUME NEW a \in Actors, NEW r \in Records, Allowed(a, r) PROVE ClearedInv'
  <2>1. /\ Others(a) /\ sess[a].pc = "govern" /\ sess'[a].pc = "govern"
        /\ sess'[a].wiped = sess[a].wiped \cup {r} /\ sess'[a].todo = sess[a].todo \ {r}
        /\ sess'[a].ids \subseteq sess[a].ids \cup {r}
    BY <1>0, <1>5, AllowedMoves
  <2>2. record' = record BY <1>5 DEF Allowed
  <2>3. ClearedWork(sess[a])' BY <1>1, <2>1, <2>2 DEF ClearedWork, Mine
  <2> QED BY <1>0, <2>1, <2>3, WorkStays
<1>6. ASSUME NEW c \in Clients, NEW r \in Records, ClientHeld(c, r) PROVE ClearedInv'
  <2>1. /\ Others(c) /\ sess[c].pc = "govern" /\ sess'[c].pc = "govern" /\ sess'[c].ids = sess[c].ids
    BY <1>0, <1>6, ClientHeldMoves
  <2>2. record' = Wipe(sess[c].wiped) BY <1>6 DEF ClientHeld
  <2>3. \A q \in sess[c].ids : q \in sess[c].wiped \/ record[q] = "DELETED"
    BY <1>0, <2>1 DEF SessionsInv, WorkInv
  <2>4. \A q \in sess[c].ids : record'[q] = "DELETED" BY <1>0, <1>1, <2>2, <2>3 DEF Wipe
  <2>5. ClearedWork(sess[c])' BY <2>1, <2>4 DEF ClearedWork, Mine
  <2> QED BY <1>0, <2>1, <2>5, WorkStays
<1>7. ASSUME NEW a \in Actors, Others(a), sess[a].pc = "govern", sess[a].todo = {},
             sess'[a].pc = "flush", sess'[a].wiped = sess[a].wiped, sess'[a].ids = sess[a].ids,
             record' = record
      PROVE  ClearedInv'
  <2>1. ClearedWork(sess[a])' BY <1>1, <1>7 DEF ClearedWork, Mine
  <2> QED BY <1>0, <1>7, <2>1, WorkStays
<1>8. ASSUME NEW c \in Clients, ClientReady(c) PROVE ClearedInv'
  BY <1>0, <1>7, <1>8, ClientReadyMoves DEF ClientReady
<1>9. ASSUME NEW w \in Workers, WorkerReady(w) PROVE ClearedInv'
  BY <1>0, <1>7, <1>9, WorkerReadyMoves DEF WorkerReady
<1>10. ASSUME NEW w \in Workers, WorkerLoad(w) PROVE ClearedInv'
  <2>1. /\ Others(w) /\ sess'[w].pc = "govern" /\ sess'[w].ids = sess[w].ids
        /\ sess'[w].todo = sess[w].ids \cap Live /\ record' = record
    BY <1>0, <1>10, WorkerLoadMoves DEF WorkerLoad
  <2>2. \A r \in Records : r \in Live \/ record[r] = "DELETED" BY <1>0 DEF Live, TypeOK
  <2>3. ClearedWork(sess[w])' BY <1>0, <1>1, <2>1, <2>2 DEF ClearedWork, Mine
  <2> QED BY <1>0, <2>1, <2>3, WorkStays
<1>11. ASSUME NEW w \in Workers, (\E k \in Keys : Claim(w, k)) \/ (\E r \in Records : WorkerHeld(w, r))
       PROVE  ClearedInv'
  BY <1>0, <1>2, <1>11, ClaimMoves, WorkerHeldMoves
<1>12. ASSUME NEW a \in Actors, Close(a) PROVE ClearedInv'
  BY <1>0, <1>2, <1>12, CloseMoves
<1>13. ASSUME NEW a \in Actors, NEW old \in SUBSET Resources, Flush(a, old) PROVE ClearedInv'
  <2>1. /\ Others(a) /\ sess[a].pc = "flush" /\ sess'[a].pc = "dispatch"
        /\ sess'[a].wiped = sess[a].wiped /\ sess'[a].ids = sess[a].ids
        /\ \A r \in Records : sess'[a].got[r] # "none" =>
             r \in sess[a].ids \/ Exists(outbox[sess[a].key][r])
    BY <1>0, <1>13, FlushMoves
  <2>2. record' = record BY <1>13 DEF Flush
  <2>3. \A r \in Records : Exists(outbox[sess[a].key][r]) => record[r] = "DELETED"
    BY <1>1 DEF EventsInv
  <2>4. ClearedWork(sess[a])' BY <1>1, <2>1, <2>2, <2>3 DEF ClearedWork, Mine
  <2> QED BY <1>0, <2>1, <2>4, WorkStays
<1>14. ASSUME NEW a \in Actors, NEW ok \in SUBSET Resources, NEW gone \in SUBSET Resources,
              Deliver(a, ok, gone)
       PROVE  ClearedInv'
  <2>1. /\ Others(a) /\ sess[a].pc = "dispatch" /\ sess'[a].pc = "commit"
        /\ sess'[a].wiped = sess[a].wiped /\ sess'[a].ids = sess[a].ids
        /\ \A r \in Records : sess'[a].got[r] # "none" => sess[a].got[r] # "none"
    BY <1>0, <1>14, DeliverMoves
  <2>2. record' = record BY <1>14 DEF Deliver
  <2>3. ClearedWork(sess[a])' BY <1>1, <2>1, <2>2 DEF ClearedWork, Mine
  <2> QED BY <1>0, <2>1, <2>3, WorkStays
<1> QED
  BY <1>0, <1>3, <1>4, <1>5, <1>6, <1>8, <1>9, <1>10, <1>11, <1>12, <1>13, <1>14
  DEF Next, vars, FlushConflict, WorkerBlock, WorkerError, Commit, Crash, HoldChange, Activity

(* A commit writes events for what its session worked on.                  *)
LEMMA EventsStep == PurgeInv /\ ClearedInv /\ EventsInv /\ [Next]_vars => EventsInv'
<1> SUFFICES ASSUME PurgeInv, ClearedInv, EventsInv, [Next]_vars PROVE EventsInv' OBVIOUS
<1>0. TypeOK /\ SessionsInv /\ Grows BY GrowsStep DEF PurgeInv
<1>1. CASE UNCHANGED outbox BY <1>0, <1>1 DEF EventsInv, Grows
<1>2. ASSUME NEW a \in Actors, NEW answered \in BOOLEAN, Commit(a, answered) PROVE EventsInv'
  <2> SUFFICES ASSUME NEW j \in Keys, NEW r \in Records, Exists(outbox'[j][r])
               PROVE  record'[r] = "DELETED"
    BY DEF EventsInv
  <2>1. PICK k \in Keys : k = sess[a].key BY <1>0, AtWork
  <2>2. outbox' = [outbox EXCEPT ![k] = Rows(a)] /\ sess[a].pc = "commit"
        /\ record' = Wipe(sess[a].wiped)
    BY <1>2, <2>1 DEF Commit
  <2>3. CASE j # k \/ sess[a].got[r] = "none"
    <3>1. r \in Resources BY DEF Resources
    <3>2. outbox'[j][r] = outbox[j][r] BY <1>0, <2>1, <2>2, <2>3, <3>1 DEF Rows, TypeOK
    <3> QED BY <1>0, <3>2 DEF EventsInv, Grows
  <2>4. CASE sess[a].got[r] # "none"
    <3>1. Mine(sess[a], r) BY <2>2, <2>4 DEF ClearedInv, ClearedWork
    <3> QED BY <2>2, <3>1 DEF Mine, Wipe
  <2> QED BY <2>3, <2>4
<1> QED
  BY <1>1, <1>2
  DEF Next, vars, Request, ClientReady, FlushConflict, ClientHeld, Claim, WorkerLoad, WorkerBlock,
      WorkerReady, WorkerError, WorkerHeld, Allowed, Flush, Deliver, Crash, HoldChange, Activity

----------------------------------------------------------------------------
(* What is attested.                                                       *)

(* A request makes a task at most, pending.                                *)
LEMMA RequestMakes ==
  ASSUME TypeOK, NEW c \in Clients, Request(c)
  PROVE  \/ UNCHANGED task
         \/ /\ task[Live].status = "NONE" /\ Live \in Keys
            /\ task'[Live].status = "PENDING" /\ ~task'[Live].result.verified
            /\ \A k \in Keys \ {Live} : task'[k] = task[k]
<1> DEFINE y == [NoTask EXCEPT !.status = "PENDING", !.ids = Live]
<1>1. UNCHANGED task \/ (task[Live].status = "NONE" /\ task' = [task EXCEPT ![Live] = y])
  BY DEF Request
<1>2. y.status = "PENDING" /\ ~y.result.verified BY DEF NoTask, NoResult
<1>3. Live \in Keys BY DEF Live, Keys
<1> HIDE DEF y
<1> QED BY <1>1, <1>2, <1>3 DEF TypeOK

(* Before the commit of its attempt a worker only takes the status back.   *)
LEMMA WorkerTakesBack ==
  ASSUME TypeOK, NEW w \in Workers,
         (\E k \in Keys : Claim(w, k)) \/ WorkerBlock(w) \/ WorkerError(w)
  PROVE  \A k \in Keys : /\ task'[k].ids = task[k].ids /\ task'[k].result = task[k].result
                         /\ task'[k].status # task[k].status => task'[k].status # "COMPLETED"
<1>1. ASSUME NEW k \in Keys, NEW y, task' = [task EXCEPT ![k] = y],
             y.ids = task[k].ids, y.result = task[k].result, y.status # "COMPLETED"
      PROVE  \A j \in Keys : /\ task'[j].ids = task[j].ids /\ task'[j].result = task[j].result
                             /\ task'[j].status # task[j].status => task'[j].status # "COMPLETED"
  BY <1>1 DEF TypeOK
<1>2. ASSUME NEW k \in Keys, Claim(w, k)
      PROVE  \A j \in Keys : /\ task'[j].ids = task[j].ids /\ task'[j].result = task[j].result
                             /\ task'[j].status # task[j].status => task'[j].status # "COMPLETED"
  <2> DEFINE y == [task[k] EXCEPT !.status = "RUNNING", !.locked = TRUE,
                                  !.attempts = Bump(@, MaxAttempts)]
  <2>1. task' = [task EXCEPT ![k] = y] BY <1>2 DEF Claim
  <2>2. y.ids = task[k].ids /\ y.result = task[k].result /\ y.status = "RUNNING"
    BY DEF TypeOK, TaskRow
  <2> HIDE DEF y
  <2> QED BY <1>1, <2>1, <2>2
<1>3. ASSUME WorkerBlock(w) \/ WorkerError(w)
      PROVE  \A j \in Keys : /\ task'[j].ids = task[j].ids /\ task'[j].result = task[j].result
                             /\ task'[j].status # task[j].status => task'[j].status # "COMPLETED"
  <2>1. PICK k \in Keys : k = sess[w].key /\ task[k] \in TaskRow BY AtWork DEF Actors
  <2>2. PICK st \in {"BLOCKED", "FAILED", "RETRY"} :
          task' = [task EXCEPT ![k].status = st, ![k].locked = FALSE]
    BY <1>3, <2>1 DEF WorkerBlock, WorkerError, StatusAfterError
  <2> DEFINE y == [task[k] EXCEPT !.status = st, !.locked = FALSE]
  <2>3. task' = [task EXCEPT ![k] = y] BY <2>2
  <2>4. y.ids = task[k].ids /\ y.result = task[k].result /\ y.status = st
    BY <2>1 DEF TaskRow
  <2> HIDE DEF y
  <2> QED BY <1>1, <2>3, <2>4
<1> QED BY <1>2, <1>3

LEMMA RowsStep == PurgeInv /\ RowsInv /\ [Next]_vars => RowsInv'
<1> SUFFICES ASSUME PurgeInv, RowsInv, [Next]_vars, NEW k \in Keys, task'[k].status = "NONE"
             PROVE  ~task'[k].result.verified
  BY DEF RowsInv
<1>0. TypeOK /\ Grows BY GrowsStep DEF PurgeInv
<1>1. task[k].status = "NONE" /\ task[k] \in TaskRow BY <1>0 DEF Grows, PayloadsMove, TypeOK
<1>2. CASE task'[k] = task[k] BY <1>1, <1>2 DEF RowsInv
<1>3. CASE task'[k].result = task[k].result BY <1>1, <1>3 DEF RowsInv
<1>4. ASSUME NEW c \in Clients, Request(c) PROVE task'[k] = task[k]
  BY <1>0, <1>1, <1>4, RequestMakes
<1>5. ASSUME NEW c \in Clients, NEW r \in Records, ClientHeld(c, r) PROVE task'[k].result = task[k].result
  BY <1>0, <1>1, <1>5 DEF ClientHeld, TypeOK, TaskRow
<1>6. ASSUME NEW w \in Workers, (\E j \in Keys : Claim(w, j)) \/ WorkerBlock(w) \/ WorkerError(w)
      PROVE  task'[k].result = task[k].result
  BY <1>0, <1>6, WorkerTakesBack
<1>7. ASSUME NEW a \in Actors, NEW answered \in BOOLEAN, Commit(a, answered)
      PROVE  task'[k] = task[k]
  <2>1. PICK j \in Keys : j = sess[a].key BY <1>0, AtWork
  <2>2. task'[j].status # "NONE" /\ \A i \in Keys \ {j} : task'[i] = task[i]
    BY <1>0, <1>7, <2>1, CommitEffect DEF PurgeInv
  <2> QED BY <2>2
<1> QED
  BY <1>2, <1>3, <1>4, <1>5, <1>6, <1>7
  DEF Next, vars, ClientReady, FlushConflict, WorkerLoad, WorkerReady, WorkerHeld, Allowed, Flush,
      Deliver, Crash, HoldChange, Activity

LEMMA AttestedSame ==
  ASSUME \A k \in Keys : (Says(task'[k]) <=> Says(task[k]))
                         /\ (Says(task[k]) => task'[k].ids = task[k].ids)
  PROVE  Attested' = Attested
BY DEF Attested

LEMMA AttestedShrinks ==
  ASSUME \A k \in Keys : Says(task'[k]) => Says(task[k]) /\ task'[k].ids = task[k].ids
  PROVE  Attested' \subseteq Attested
BY DEF Attested

(* What a request makes says nothing yet.                                  *)
LEMMA RequestAttests ==
  ASSUME TypeOK, RowsInv, NEW c \in Clients, Request(c)
  PROVE  Attested' = Attested
<1>1. CASE UNCHANGED task BY <1>1 DEF Attested
<1>2. CASE task' # task
  BY <1>2, RequestMakes, AttestedSame DEF RowsInv, Says
<1> QED BY <1>1, <1>2

(* Before the commit of an attempt the status is only taken back.          *)
LEMMA AttemptRetracts ==
  ASSUME TypeOK,
         \/ \E c \in Clients, r \in Records : ClientHeld(c, r)
         \/ \E w \in Workers : (\E k \in Keys : Claim(w, k)) \/ WorkerBlock(w) \/ WorkerError(w)
  PROVE  Attested' \subseteq Attested
<1>1. CASE UNCHANGED task BY <1>1 DEF Attested
<1>2. ASSUME NEW c \in Clients, NEW r \in Records, ClientHeld(c, r), ~sess[c].noted
      PROVE  Attested' \subseteq Attested
  <2>1. PICK j \in Keys : j = sess[c].key BY AtWork DEF Actors
  <2>2. task' = [task EXCEPT ![j].status = IF sess[c].running THEN @ ELSE "RUNNING",
                             ![j].attempts = sess[c].attempts]
    BY <1>2, <2>1 DEF ClientHeld
  <2>3. \A k \in Keys \ {j} : task'[k] = task[k] BY <2>1, <2>2 DEF TypeOK
  <2>4. /\ task'[j].ids = task[j].ids /\ task'[j].result = task[j].result
        /\ task'[j].status \in {task[j].status, "RUNNING"}
    BY <2>1, <2>2 DEF TypeOK, TaskRow
  <2> QED BY <2>3, <2>4, AttestedShrinks DEF Says
<1>3. ASSUME NEW w \in Workers, (\E k \in Keys : Claim(w, k)) \/ WorkerBlock(w) \/ WorkerError(w)
      PROVE  Attested' \subseteq Attested
  BY <1>3, WorkerTakesBack, AttestedShrinks DEF Says
<1> QED BY <1>1, <1>2, <1>3 DEF ClientHeld

(* A commit attests what is erased by then.                                *)
LEMMA CommitAttests ==
  ASSUME PurgeInv, PurgeInv', NEW a \in Actors, NEW answered \in BOOLEAN, Commit(a, answered)
  PROVE  \A r \in Attested' : r \in Attested \/ (record'[r] = "DELETED" /\ copy'[r] = "ABSENT")
<1> SUFFICES ASSUME NEW r \in Records, NEW j \in Keys, Says(task'[j]), r \in task'[j].ids
             PROVE  r \in Attested \/ (record'[r] = "DELETED" /\ copy'[r] = "ABSENT")
  BY DEF Attested
<1>0. TypeOK BY DEF PurgeInv
<1>1. PICK k \in Keys : k = sess[a].key BY <1>0, AtWork
<1>2. CASE task'[j].status = "COMPLETED" BY <1>2 DEF PurgeInv, TasksInv, Backed
<1>3. CASE task'[j].status # "COMPLETED" /\ (j # k \/ a \notin Clients)
  <2>0. CASE j # k BY <1>0, <1>1, <2>0, CommitEffect DEF PurgeInv, Says, Attested
  <2> DEFINE rows == Rows(a)
             events == {rows[x] : x \in Resources}
             verified == answered /\ Verified(a, rows) /\ StatusAfter(events, TRUE) = "COMPLETED"
             st == StatusAfter(events, verified)
             y == [task[k] EXCEPT !.status = st, !.locked = FALSE]
  <2>1. CASE j = k
    <3>1. task' = [task EXCEPT ![k] = y] BY <1>1, <1>3, <2>1 DEF Commit
    <3> HIDE DEF st
    <3>2. y.ids = task[k].ids /\ y.result = task[k].result BY <1>0 DEF TypeOK, TaskRow
    <3> HIDE DEF y
    <3>3. task'[k] = y BY <1>0, <3>1 DEF TypeOK
    <3> QED BY <1>3, <2>1, <3>2, <3>3 DEF Says, Attested
  <2> QED BY <2>0, <2>1
<1>4. CASE task'[j].status # "COMPLETED" /\ j = k /\ a \in Clients
  <2> DEFINE rows == Rows(a)
             events == {rows[x] : x \in Resources}
             verified == answered /\ Verified(a, rows) /\ StatusAfter(events, TRUE) = "COMPLETED"
  <2> DEFINE y == [task[k] EXCEPT !.status = StatusAfter(events, verified),
                                  !.attempts = IF sess[a].noted THEN @ ELSE sess[a].attempts,
                                  !.ids = Payload(a),
                                  !.result = [stored |-> TRUE, held |-> sess[a].kept # {},
                                              verified |-> verified]]
  <2>1. task' = [task EXCEPT ![k] = y] BY <1>1, <1>4 DEF Commit
  <2>2. verified \in BOOLEAN OBVIOUS
  <2> HIDE DEF events, verified
  <2>3. y.status = StatusAfter(events, verified) /\ y.result.verified = verified
    BY <1>0 DEF TypeOK, TaskRow
  <2> HIDE DEF y
  <2>4. task'[k] = y BY <1>0, <2>1 DEF TypeOK
  <2>5. verified = TRUE BY <1>4, <2>2, <2>3, <2>4 DEF Says
  <2>6. StatusAfter(events, TRUE) = "COMPLETED" BY <2>5 DEF verified
  <2> QED BY <1>4, <2>3, <2>4, <2>5, <2>6
<1> QED BY <1>2, <1>3, <1>4


----------------------------------------------------------------------------
(* What the steps do to the phases, the requests and their answers.        *)

LEMMA PhaseSame ==
  ASSUME record' = record, \A a \in Actors : sess'[a].wiped = sess[a].wiped
  PROVE  Phase' = Phase
BY DEF Phase

LEMMA PhaseAtRest ==
  ASSUME record' = record, NEW a \in Actors, Others(a), sess'[a].wiped = sess[a].wiped
  PROVE  Phase' = Phase
<1>1. \A b \in Actors : sess'[b].wiped = sess[b].wiped BY DEF Others
<1> QED BY <1>1, PhaseSame

(* The records a session has a pending UPDATE of that are not deleted yet. *)
Pending(a) == {r \in Records : r \in sess[a].wiped /\ record[r] # "DELETED"}

LEMMA PhaseDeleted ==
  ASSUME TypeOK, NEW a \in Actors, Others(a), sess'[a].wiped = {}, record' = Wipe(sess[a].wiped)
  PROVE  Pending(a) \subseteq Contract!Cleared /\ Contract!Become(Pending(a), "DELETED")
<1>1. Pending(a) \subseteq Contract!Cleared BY DEF Pending, Contract!Cleared, Phase
<1>2. ASSUME NEW r \in Records
      PROVE  Phase'[r] = IF r \in Pending(a) THEN "DELETED" ELSE Phase[r]
  <2>1. record'[r] = IF r \in sess[a].wiped THEN "DELETED" ELSE record[r] BY DEF Wipe
  <2>2. CASE record'[r] = "DELETED" BY <2>1, <2>2 DEF Pending, Phase
  <2>3. CASE record'[r] # "DELETED"
    <3>1. r \notin sess[a].wiped /\ record[r] # "DELETED" BY <2>1, <2>3
    <3>2. (\E b \in Actors : r \in sess'[b].wiped) <=> (\E b \in Actors : r \in sess[b].wiped)
      BY <3>1 DEF Others
    <3> QED BY <2>3, <3>1, <3>2 DEF Pending, Phase
  <2> QED BY <2>2, <2>3
<1>3. Phase' = [r \in Records |-> Phase'[r]] BY DEF Phase
<1> QED BY <1>1, <1>2, <1>3 DEF Contract!Become

LEMMA PhaseLapsed ==
  ASSUME TypeOK, NEW a \in Actors, Others(a), sess'[a].wiped = {}, record' = record
  PROVE  \E S \in SUBSET Records : S \subseteq Contract!Cleared /\ Contract!Become(S, "LIVE")
<1> DEFINE S == {r \in Records : Phase[r] = "CLEARED" /\ \A b \in Actors : r \notin sess'[b].wiped}
<1>1. S \subseteq Contract!Cleared BY DEF Contract!Cleared
<1>2. ASSUME NEW r \in Records
      PROVE  Phase'[r] = IF r \in S THEN "LIVE" ELSE Phase[r]
  <2>1. (\E b \in Actors : r \in sess'[b].wiped) => (\E b \in Actors : r \in sess[b].wiped)
    BY DEF Others
  <2> QED BY <2>1 DEF Phase
<1>3. Phase' = [r \in Records |-> Phase'[r]] BY DEF Phase
<1> HIDE DEF S
<1>4. Contract!Become(S, "LIVE") BY <1>2, <1>3 DEF Contract!Become
<1>5. S \in SUBSET Records BY DEF S
<1> QED BY <1>1, <1>4, <1>5

LEMMA PhaseCleared ==
  ASSUME TypeOK, NEW a \in Actors, NEW r \in Records, Others(a), record' = record,
         sess'[a].wiped = sess[a].wiped \cup {r}
  PROVE  IF Phase[r] = "LIVE" THEN Contract!Become({r}, "CLEARED") ELSE Phase' = Phase
<1>1. ASSUME NEW q \in Records
      PROVE  Phase'[q] = IF q = r /\ Phase[r] = "LIVE" THEN "CLEARED" ELSE Phase[q]
  <2>1. CASE q = r BY <2>1 DEF Phase
  <2>2. CASE q # r
    <3>1. (\E b \in Actors : q \in sess'[b].wiped) <=> (\E b \in Actors : q \in sess[b].wiped)
      BY <2>2 DEF Others
    <3> QED BY <2>2, <3>1 DEF Phase
  <2> QED BY <2>1, <2>2
<1>2. Phase' = [q \in Records |-> Phase'[q]] /\ Phase = [q \in Records |-> Phase[q]] BY DEF Phase
<1> QED BY <1>1, <1>2 DEF Contract!Become

LEMMA SameCopies ==
  ASSUME \A r \in Records : copy'[r] = copy[r]
  PROVE  Copies' = Copies
BY DEF Copies

LEMMA SameDue ==
  ASSUME NEW a \in Actors, Others(a),
         a \in Clients => sess'[a].key \ sess'[a].kept = sess[a].key \ sess[a].kept
  PROVE  DueTo' = DueTo
<1>1. \A c \in Clients : sess'[c].key \ sess'[c].kept = sess[c].key \ sess[c].kept
  BY DEF Others, Actors
<1> QED BY <1>1 DEF DueTo

LEMMA DueNow ==
  ASSUME NEW c \in Clients, Others(c), NEW D, sess'[c].key \ sess'[c].kept = D
  PROVE  DueTo' = [DueTo EXCEPT ![c] = D]
<1>1. \A b \in Clients : sess'[b].key \ sess'[b].kept =
                           IF b = c THEN D ELSE sess[b].key \ sess[b].kept
  BY DEF Others, Actors
<1> QED BY <1>1 DEF DueTo

LEMMA ToldNow ==
  ASSUME TypeOK, NEW c \in Clients, NEW z, reply' = [reply EXCEPT ![c] = z]
  PROVE  Told' = [Told EXCEPT ![c] = IF z.kind = "fresh" /\ z.verified THEN "verified" ELSE "none"]
<1>1. \A b \in Clients : reply'[b] = IF b = c THEN z ELSE reply[b] BY DEF TypeOK
<1>2. Told' = [b \in Clients |-> IF reply'[b].kind = "fresh" /\ reply'[b].verified
                                 THEN "verified" ELSE "none"]
  BY DEF Told
<1> QED BY <1>1, <1>2 DEF Told

LEMMA CommitErases ==
  ASSUME PurgeInv, PurgeInv', NEW a \in Actors, NEW answered \in BOOLEAN, Commit(a, answered)
  PROVE  Contract!Attests
<1>1. \A r \in Records : record'[r] = "DELETED" /\ copy'[r] = "ABSENT"
                        => Phase'[r] = "DELETED" /\ Copies'[r] = "ABSENT"
  BY DEF Phase, Copies
<1>2. Attested' \subseteq Records BY DEF Attested
<1> QED BY <1>1, <1>2, CommitAttests DEF Contract!Attests

----------------------------------------------------------------------------
(* Every step is a step of PurgeContract.                                  *)

(* The steps of the requests.                                              *)
LEMMA ClientsKeepContract ==
  ASSUME ContractInv, ContractInv', NEW c \in Clients,
         \/ Request(c) \/ ClientReady(c) \/ FlushConflict(c) \/ Crash(c)
         \/ \E r \in Records : ClientHeld(c, r)
         \/ \E answered \in BOOLEAN : Commit(c, answered)
  PROVE  [Contract!ContractNext]_(Contract!contractVars)
<1> DEFINE Goal == Contract!ContractNext \/ UNCHANGED <<Phase, hold, Copies, Attested, DueTo, Told>>
<1> SUFFICES Goal BY DEF Contract!contractVars
<1>0. TypeOK /\ PurgeInv /\ c \in Actors BY DEF ContractInv, PurgeInv, Actors
<1>1. ASSUME Request(c) PROVE Goal
  <2>1. Attested' = Attested BY <1>0, <1>1, RequestAttests DEF ContractInv
  <2>2. UNCHANGED <<hold, record, Copies>> BY <1>1 DEF Request, Copies
  <2>3. CASE task[Live].status = "COMPLETED"
    <3>1. PICK z : reply' = [reply EXCEPT ![c] = z] /\ z.kind # "fresh"
      <4>1. ErrorReply.kind # "fresh" BY DEF ErrorReply, NoReply
      <4> QED BY <1>1, <2>3, <4>1 DEF Request
    <3>2. Told' = [Told EXCEPT ![c] = "none"] BY <1>0, <3>1, ToldNow
    <3>3. sess' = sess BY <1>1, <2>3 DEF Request
    <3>4. Phase' = Phase /\ DueTo' = DueTo BY <2>2, <3>3, PhaseSame DEF DueTo
    <3> QED BY <2>1, <2>2, <3>2, <3>4 DEF Contract!ContractNext, Contract!Refer
  <2>4. CASE task[Live].status # "COMPLETED"
    <3>1. /\ Others(c) /\ sess[c].pc = "idle" /\ sess'[c].key = Live
          /\ sess'[c].wiped = {} /\ sess'[c].kept = {}
          /\ reply' = [reply EXCEPT ![c] = NoReply]
      BY <1>0, <1>1, <2>4, RequestMoves
    <3>2. sess[c].wiped = {} BY <1>0, <3>1 DEF ContractInv, ClearedInv, ClearedWork
    <3>3. Phase' = Phase BY <1>0, <2>2, <3>1, <3>2, PhaseAtRest
    <3>4. DueTo' = [DueTo EXCEPT ![c] = Live]
      <4>1. PICK D : D = Live OBVIOUS
      <4>2. sess'[c].key \ sess'[c].kept = D BY <3>1, <4>1
      <4> QED BY <3>1, <4>1, <4>2, DueNow
    <3>5. Live = {r \in Records : Phase[r] # "DELETED"} BY <1>0 DEF Live, Phase, TypeOK
    <3>6. NoReply.kind # "fresh" BY DEF NoReply
    <3>7. Told' = [Told EXCEPT ![c] = "none"] BY <1>0, <3>1, <3>6, ToldNow
    <3> QED BY <2>1, <2>2, <3>3, <3>4, <3>5, <3>7 DEF Contract!ContractNext, Contract!Ask
  <2> QED BY <2>3, <2>4
<1>2. ASSUME NEW r \in Records, ClientHeld(c, r) PROVE Goal
  <2>1. /\ Others(c) /\ sess'[c].key = sess[c].key /\ sess'[c].kept = sess[c].kept \cup {r}
        /\ sess'[c].wiped = {}
    BY <1>0, <1>2, ClientHeldMoves
  <2>2. record' = Wipe(sess[c].wiped) /\ hold[r] /\ UNCHANGED <<hold, Copies, Told>>
    BY <1>2 DEF ClientHeld, Copies, Told
  <2>3. Pending(c) \subseteq Contract!Cleared /\ Contract!Become(Pending(c), "DELETED")
    BY <1>0, <2>1, <2>2, PhaseDeleted
  <2>4. sess'[c].key \ sess'[c].kept = DueTo[c] \ {r} BY <2>1 DEF DueTo
  <2>5. DueTo' = [DueTo EXCEPT ![c] = @ \ {r}] BY <2>1, <2>4, DueNow
  <2>6. Contract!Retracts BY <1>0, <1>2, AttemptRetracts DEF Contract!Retracts
  <2>7. Contract!Keep(c, r, Pending(c)) BY <2>2, <2>3, <2>5, <2>6 DEF Contract!Keep
  <2>8. Pending(c) \in SUBSET Records BY DEF Pending
  <2> QED BY <2>7, <2>8 DEF Contract!ContractNext
<1>3. ASSUME ClientReady(c) PROVE Goal
  <2>1. /\ Others(c) /\ sess'[c].key = sess[c].key /\ sess'[c].kept = sess[c].kept
        /\ sess'[c].wiped = sess[c].wiped
    BY <1>0, <1>3, ClientReadyMoves
  <2>2. UNCHANGED <<record, hold, task, reply>> BY <1>3 DEF ClientReady
  <2>3. \A r \in Records : copy'[r] = copy[r]
    BY <1>0, <1>3, PurgeAssumption DEF ClientReady, TypeOK, Resources
  <2>4. UNCHANGED <<Attested, Told>> BY <2>2 DEF Attested, Told
  <2> QED BY <1>0, <2>1, <2>2, <2>3, <2>4, PhaseAtRest, SameCopies, SameDue
<1>4. ASSUME FlushConflict(c) \/ Crash(c) PROVE Goal
  <2>1. Others(c) /\ sess'[c].wiped = {} /\ sess'[c].key = {}
    BY <1>0, <1>4, CloseMoves DEF FlushConflict, Crash
  <2>2. /\ UNCHANGED <<record, hold, Copies, Attested>>
        /\ reply' = [reply EXCEPT ![c] = ErrorReply]
    BY <1>4 DEF FlushConflict, Crash, Copies, Attested
  <2>3. PICK S \in SUBSET Records : S \subseteq Contract!Cleared /\ Contract!Become(S, "LIVE")
    BY <1>0, <2>1, <2>2, PhaseLapsed
  <2>4. DueTo' = [DueTo EXCEPT ![c] = {}] BY <2>1, DueNow
  <2>5. ErrorReply.kind # "fresh" BY DEF ErrorReply, NoReply
  <2>6. Told' = [Told EXCEPT ![c] = "none"] BY <1>0, <2>2, <2>5, ToldNow
  <2>7. Contract!Fail(c, S) BY <2>2, <2>3, <2>4, <2>6 DEF Contract!Fail
  <2> QED BY <2>7 DEF Contract!ContractNext
<1>5. ASSUME NEW answered \in BOOLEAN, Commit(c, answered) PROVE Goal
  <2>1. Others(c) /\ sess'[c].wiped = {} /\ sess'[c].key = {}
    BY <1>0, <1>5, CloseMoves DEF Commit
  <2>2. record' = Wipe(sess[c].wiped) /\ UNCHANGED <<hold, copy, Copies>>
    BY <1>5 DEF Commit, Copies
  <2>3. Pending(c) \subseteq Contract!Cleared /\ Contract!Become(Pending(c), "DELETED")
    BY <1>0, <2>1, <2>2, PhaseDeleted
  <2>4. DueTo' = [DueTo EXCEPT ![c] = {}] BY <2>1, DueNow
  <2>5. Contract!Attests BY <1>0, <1>5, CommitErases DEF ContractInv
  <2>6. PICK z : /\ reply' = [reply EXCEPT ![c] = z]
                 /\ z.verified => \A r \in sess[c].key \ sess[c].kept :
                      record'[r] = "DELETED" /\ copy'[r] = "ABSENT"
    BY <1>0, <1>5, AnswerErased DEF ContractInv
  <2>7. Told' = [Told EXCEPT ![c] = IF z.kind = "fresh" /\ z.verified THEN "verified" ELSE "none"]
    BY <1>0, <2>6, ToldNow
  <2>8. z.verified => \A r \in DueTo[c] : Phase'[r] = "DELETED" /\ Copies[r] = "ABSENT"
    <3>1. DueTo[c] \subseteq Records /\ DueTo[c] = sess[c].key \ sess[c].kept
      BY <1>0 DEF DueTo, TypeOK, Session, Keys
    <3> QED BY <2>2, <2>6, <3>1 DEF Phase, Copies
  <2>9. Contract!Answer(c, Pending(c))
    BY <2>2, <2>3, <2>4, <2>5, <2>7, <2>8 DEF Contract!Answer
  <2>10. Pending(c) \in SUBSET Records BY DEF Pending
  <2> QED BY <2>9, <2>10 DEF Contract!ContractNext
<1> QED BY <1>1, <1>2, <1>3, <1>4, <1>5

(* The steps of the workers.                                               *)
LEMMA WorkersKeepContract ==
  ASSUME ContractInv, ContractInv', NEW w \in Workers,
         \/ WorkerLoad(w) \/ WorkerReady(w) \/ WorkerBlock(w) \/ WorkerError(w) \/ Crash(w)
         \/ \E k \in Keys : Claim(w, k)
         \/ \E r \in Records : WorkerHeld(w, r)
         \/ \E answered \in BOOLEAN : Commit(w, answered)
  PROVE  [Contract!ContractNext]_(Contract!contractVars)
<1> DEFINE Goal == Contract!ContractNext \/ UNCHANGED <<Phase, hold, Copies, Attested, DueTo, Told>>
<1> SUFFICES Goal BY DEF Contract!contractVars
<1>0. TypeOK /\ PurgeInv /\ w \in Actors /\ w \notin Clients
  BY PurgeAssumption DEF ContractInv, PurgeInv, Actors
<1>1. Others(w) => DueTo' = DueTo BY <1>0, SameDue
<1>2. UNCHANGED <<hold, Copies, Told>>
  BY <1>0 DEF WorkerLoad, WorkerReady, WorkerBlock, WorkerError, Crash, Claim, WorkerHeld, Commit,
              Copies, Told
<1>3. ASSUME WorkerLoad(w) \/ WorkerReady(w) PROVE Goal
  <2>1. Others(w) /\ sess'[w].wiped = sess[w].wiped /\ UNCHANGED <<record, Attested>>
    BY <1>0, <1>3, WorkerLoadMoves, WorkerReadyMoves DEF WorkerLoad, WorkerReady, Attested
  <2> QED BY <1>0, <1>1, <1>2, <2>1, PhaseAtRest
<1>4. ASSUME \/ WorkerBlock(w) \/ WorkerError(w) \/ Crash(w) \/ \E k \in Keys : Claim(w, k)
      PROVE  Goal
  <2>1. Others(w) /\ sess'[w].wiped = {} /\ record' = record
    BY <1>0, <1>4, CloseMoves, ClaimMoves DEF WorkerBlock, WorkerError, Crash, Claim
  <2>2. PICK S \in SUBSET Records : S \subseteq Contract!Cleared /\ Contract!Become(S, "LIVE")
    BY <1>0, <2>1, PhaseLapsed
  <2>3. Crash(w) => UNCHANGED Attested BY DEF Crash, Attested
  <2>4. Contract!Retracts BY <1>0, <1>4, <2>3, AttemptRetracts DEF Contract!Retracts
  <2>5. Contract!Lapse(S) BY <1>1, <1>2, <2>1, <2>2, <2>4 DEF Contract!Lapse
  <2> QED BY <2>5 DEF Contract!ContractNext
<1>5. ASSUME (\E r \in Records : WorkerHeld(w, r)) \/ (\E answered \in BOOLEAN : Commit(w, answered))
      PROVE  Goal
  <2>1. Others(w) /\ sess'[w].wiped = {}
    BY <1>0, <1>5, CloseMoves, WorkerHeldMoves DEF Commit
  <2>2. record' = Wipe(sess[w].wiped) BY <1>5 DEF WorkerHeld, Commit
  <2>3. Pending(w) \subseteq Contract!Cleared /\ Contract!Become(Pending(w), "DELETED")
    BY <1>0, <2>1, <2>2, PhaseDeleted
  <2>4. (\E r \in Records : WorkerHeld(w, r)) => Contract!Attests
    BY DEF WorkerHeld, Attested, Contract!Attests
  <2>5. Contract!Attests BY <1>0, <1>5, <2>4, CommitErases DEF ContractInv
  <2>6. Contract!Finish(Pending(w)) BY <1>1, <1>2, <2>1, <2>3, <2>5 DEF Contract!Finish
  <2>7. Pending(w) \in SUBSET Records BY DEF Pending
  <2> QED BY <2>6, <2>7 DEF Contract!ContractNext
<1> QED BY <1>3, <1>4, <1>5

(* The steps that both take, and those of the environment.                 *)
LEMMA SharedKeepContract ==
  ASSUME ContractInv, ContractInv', NEW a \in Actors,
         \/ \E r \in Records : Allowed(a, r)
         \/ \E old \in SUBSET Resources : Flush(a, old)
         \/ \E ok, gone \in SUBSET Resources : Deliver(a, ok, gone)
  PROVE  [Contract!ContractNext]_(Contract!contractVars)
<1> DEFINE Goal == Contract!ContractNext \/ UNCHANGED <<Phase, hold, Copies, Attested, DueTo, Told>>
<1> SUFFICES Goal BY DEF Contract!contractVars
<1>0. TypeOK BY DEF ContractInv, PurgeInv
<1>1. UNCHANGED <<record, hold, Attested, Told>>
  BY DEF Allowed, Flush, Deliver, Attested, Told
<1>2. ASSUME NEW r \in Records, Allowed(a, r) PROVE Goal
  <2>1. /\ Others(a) /\ sess'[a].key = sess[a].key /\ sess'[a].kept = sess[a].kept
        /\ sess'[a].wiped = sess[a].wiped \cup {r}
    BY <1>0, <1>2, AllowedMoves
  <2>2. ~hold[r] /\ Copies' = Copies BY <1>2 DEF Allowed, Copies
  <2>3. DueTo' = DueTo BY <2>1, SameDue
  <2>4. IF Phase[r] = "LIVE" THEN Contract!Become({r}, "CLEARED") ELSE Phase' = Phase
    BY <1>0, <1>1, <2>1, PhaseCleared
  <2>5. Phase[r] = "LIVE" => Contract!Clear(r) BY <1>1, <2>2, <2>3, <2>4 DEF Contract!Clear
  <2> QED BY <1>1, <2>2, <2>3, <2>4, <2>5 DEF Contract!ContractNext
<1>3. ASSUME NEW old \in SUBSET Resources, Flush(a, old) PROVE Goal
  <2>1. /\ Others(a) /\ sess'[a].key = sess[a].key /\ sess'[a].kept = sess[a].kept
        /\ sess'[a].wiped = sess[a].wiped
    BY <1>0, <1>3, FlushMoves
  <2>2. Copies' = Copies BY <1>3 DEF Flush, Copies
  <2> QED BY <1>1, <2>1, <2>2, PhaseAtRest, SameDue
<1>4. ASSUME NEW ok \in SUBSET Resources, NEW gone \in SUBSET Resources, Deliver(a, ok, gone)
      PROVE  Goal
  <2> DEFINE S == (ok \cup gone) \cap Records
  <2>1. /\ Others(a) /\ sess[a].pc = "dispatch"
        /\ sess'[a].key = sess[a].key /\ sess'[a].kept = sess[a].kept
        /\ sess'[a].wiped = sess[a].wiped
        /\ \A r \in ok \cup gone : sess[a].got[r] # "none"
    BY <1>0, <1>4, DeliverMoves
  <2>2. Phase' = Phase /\ DueTo' = DueTo BY <1>1, <2>1, PhaseAtRest, SameDue
  <2>3. \A r \in S : Mine(sess[a], r) BY <2>1 DEF ContractInv, ClearedInv, ClearedWork
  <2>4. \A r \in S : Phase[r] # "LIVE" BY <2>3 DEF Mine, Phase
  <2>5. Copies' = [r \in Records |-> IF r \in S THEN "ABSENT" ELSE Copies[r]]
    BY <1>4 DEF Deliver, Copies, Resources
  <2>6. Contract!Tell(S) BY <1>1, <2>2, <2>4, <2>5 DEF Contract!Tell
  <2> QED BY <2>6 DEF Contract!ContractNext
<1> QED BY <1>2, <1>3, <1>4

LEMMA WorldKeepsContract ==
  ASSUME TypeOK, (\E r \in Records : HoldChange(r)) \/ Activity
  PROVE  [Contract!ContractNext]_(Contract!contractVars)
<1>1. UNCHANGED <<Phase, Attested, DueTo, Told>>
  BY DEF HoldChange, Activity, Phase, Attested, DueTo, Told
<1>2. ASSUME NEW r \in Records, HoldChange(r) PROVE Contract!ContractNext
  BY <1>1, <1>2 DEF HoldChange, Copies, Contract!ContractNext, Contract!HoldOrRelease
<1>3. ASSUME Activity PROVE UNCHANGED Contract!contractVars
  <2>1. \A r \in Records : copy'[r] = copy[r]
    BY <1>3, PurgeAssumption DEF Activity, TypeOK, Resources
  <2> QED BY <1>1, <1>3, <2>1, SameCopies DEF Activity, Contract!contractVars
<1> QED BY <1>2, <1>3

----------------------------------------------------------------------------
LEMMA ContractInvStarts == Init => ContractInv /\ Contract!ContractInit
<1> SUFFICES ASSUME Init PROVE ContractInv /\ Contract!ContractInit OBVIOUS
<1>1. \A a \in Actors : sess[a].pc = "idle" /\ sess[a].wiped = {} /\ sess[a].key = {}
  BY DEF Init, Idle
<1>2. ClientsInv /\ ClearedInv BY <1>1 DEF ClientsInv, ClearedInv, ClearedWork, Actors
<1>3. EventsInv BY DEF Init, EventsInv, NoEvent, Exists, Resources
<1>4. RowsInv BY DEF Init, RowsInv, NoTask, NoResult
<1>5. Phase = [r \in Records |-> "LIVE"] BY <1>1 DEF Init, Phase
<1>6. Attested = {} BY DEF Init, Attested, Says, NoTask, NoResult
<1>7. DueTo = [c \in Clients |-> {}] BY <1>1 DEF DueTo, Actors
<1>8. Told = [c \in Clients |-> "none"] BY DEF Init, Told, NoReply
<1>9. Copies = [r \in Records |-> "PRESENT"] BY DEF Init, Copies, Resources
<1> QED
  BY <1>2, <1>3, <1>4, <1>5, <1>6, <1>7, <1>8, <1>9, PurgeInit
  DEF ContractInv, Init, Contract!ContractInit

LEMMA ContractInvStep == ContractInv /\ [Next]_vars => ContractInv'
BY PurgeStep, ClientsStep, ClearedStep, EventsStep, RowsStep DEF ContractInv, PurgeInv

(* A purge keeps PurgeContract at every step (deletion.py                  *)
(* purge_current_user, scheduler.py run_once).                             *)
THEOREM PurgeRefinesContract == Spec => PurgeContractKept
<1>1. Init => ContractInv /\ Contract!ContractInit BY ContractInvStarts
<1>2. ContractInv /\ [Next]_vars => ContractInv' BY ContractInvStep
<1>3. ContractInv /\ ContractInv' /\ [Next]_vars => [Contract!ContractNext]_(Contract!contractVars)
  <2> SUFFICES ASSUME ContractInv, ContractInv', [Next]_vars
               PROVE  [Contract!ContractNext]_(Contract!contractVars)
    OBVIOUS
  <2>1. TypeOK BY DEF ContractInv, PurgeInv
  <2>2. CASE UNCHANGED vars
    BY <2>2 DEF vars, Phase, Copies, Attested, DueTo, Told, Contract!contractVars
  <2>3. CASE Next
    BY <2>1, <2>3, ClientsKeepContract, WorkersKeepContract, SharedKeepContract, WorldKeepsContract
    DEF Next, Actors
  <2> QED BY <2>2, <2>3
<1> QED BY <1>1, <1>2, <1>3, PTL DEF Spec, PurgeContractKept, Contract!ContractSpec
==============================================================================
