---------------------------- MODULE ForgetProofs ----------------------------
(***************************************************************************)
(* Proofs about MemoryForget for any number of records, stores, clients    *)
(* and workers, any attempt limit and any number of crashes, and that it   *)
(* implements DeletionContract.                                            *)
(***************************************************************************)
EXTENDS MemoryForget, TLAPS

----------------------------------------------------------------------------
(* What the shared operators return.                                       *)

(* A saturating counter stays within its bound.                            *)
LEMMA BumpType ==
  ASSUME NEW n \in 0..MaxAttempts
  PROVE  Bump(n, MaxAttempts) \in 0..MaxAttempts
BY ForgetAssumption DEF Bump

(* An event that was tried is a row of the outbox, and it exists.          *)
LEMMA EventAfterType ==
  ASSUME NEW n \in 0..MaxAttempts, NEW ok \in BOOLEAN
  PROVE  /\ EventAfter(n, ok, MaxAttempts) \in EventRow
         /\ EventAfter(n, ok, MaxAttempts).status # "NONE"
BY BumpType DEF EventAfter, EventRow, OutboxStatus

(* So is what the flush writes of it, over whatever another handler left.  *)
LEMMA WrittenType ==
  ASSUME NEW row \in EventRow, NEW after \in EventRow, after.status # "NONE"
  PROVE  Written(row, after) \in EventRow /\ Written(row, after).status # "NONE"
BY DEF Written, Exists, EventRow

(* An idle session is a session.                                           *)
LEMMA IdleType == Idle \in Session
BY ForgetAssumption DEF Idle, Session, TaskStatus

(* The row of a task that does not exist is a task row.                    *)
LEMMA NoTaskType == NoTask \in TaskRow
BY ForgetAssumption DEF NoTask, TaskRow, TaskStatus

(* The status of a dispatch is a task status, and COMPLETED only when the  *)
(* verification passed and no event is failed or open.                     *)
LEMMA StatusAfterSpec ==
  ASSUME NEW events, NEW verified \in BOOLEAN
  PROVE  /\ StatusAfter(events, verified) \in {"FAILED", "RETRY", "COMPLETED"}
         /\ StatusAfter(events, verified) = "COMPLETED" =>
              verified /\ \A e \in events : e.status # "FAILED" /\ ~Open(e)
BY DEF StatusAfter

(* The rows an actor writes are outbox rows.                               *)
LEMMA RowsType ==
  ASSUME TypeOK, NEW a \in Actors, NEW r \in Records
  PROVE  Rows(a, r) \in [Stores -> EventRow]
<1> SUFFICES ASSUME NEW s \in Stores
             PROVE  (IF sess[a].got[s] # "none"
                     THEN Written(outbox[r][s], EventAfter(sess[a].tries[s],
                                                  sess[a].got[s] = "ok", MaxAttempts))
                     ELSE outbox[r][s]) \in EventRow
    BY DEF Rows
<1>1. sess[a].tries[s] \in 0..MaxAttempts BY DEF TypeOK, Session
<1>2. outbox[r][s] \in EventRow BY DEF TypeOK, EventRow
<1> QED BY <1>1, <1>2, EventAfterType, WrittenType

----------------------------------------------------------------------------
(* Type correctness.                                                       *)

LEMMA TypeInit == Init => TypeOK
<1> SUFFICES ASSUME Init PROVE TypeOK OBVIOUS
<1>1. sess \in [Actors -> Session] BY IdleType DEF Init
<1>2. \A a \in Actors : sess[a].pc = "idle" BY DEF Init, Idle
<1>3. NoEvent \in EventRow BY ForgetAssumption DEF NoEvent, EventRow, OutboxStatus
<1> QED BY <1>1, <1>2, <1>3, NoTaskType, ForgetAssumption DEF Init, TypeOK, CopyState

(* A handler at work knows its record.                                     *)
LEMMA AtWork ==
  ASSUME TypeOK, NEW a \in Actors, sess[a].pc # "idle"
  PROVE  sess[a] \in Session /\ sess[a].rec \in Records /\ task[sess[a].rec] \in TaskRow
BY DEF TypeOK

(* Replacing one session by another one keeps the sessions typed.          *)
LEMMA SessionType ==
  ASSUME TypeOK, NEW a \in Actors, NEW x \in Session, x.pc # "idle" => x.rec \in Records,
         sess' = [sess EXCEPT ![a] = x]
  PROVE  /\ sess' \in [Actors -> Session]
         /\ \A b \in Actors : sess'[b].pc # "idle" => sess'[b].rec \in Records
BY DEF TypeOK

LEMMA CloseType ==
  ASSUME TypeOK, NEW a \in Actors, Close(a)
  PROVE  /\ sess' \in [Actors -> Session]
         /\ \A b \in Actors : sess'[b].pc # "idle" => sess'[b].rec \in Records
<1>1. Idle.pc = "idle" BY DEF Idle
<1> QED BY <1>1, IdleType, SessionType DEF Close

(* Replacing one task row by another one keeps the table typed.            *)
LEMMA TaskType ==
  ASSUME TypeOK, NEW r \in Records, NEW x \in TaskRow, task' = [task EXCEPT ![r] = x]
  PROVE  task' \in [Records -> TaskRow]
BY DEF TypeOK

LEMMA TypeStep == TypeOK /\ [Next]_vars => TypeOK'
<1> SUFFICES ASSUME TypeOK, [Next]_vars PROVE TypeOK' OBVIOUS
<1>1. ASSUME NEW c \in Clients, NEW r \in Records, Request(c, r) PROVE TypeOK'
    <2>1. task' \in [Records -> TaskRow]
        <3>1. [NoTask EXCEPT !.status = "PENDING"] \in TaskRow
            BY NoTaskType DEF TaskRow, TaskStatus
        <3>2. \/ task' = task
              \/ task' = [task EXCEPT ![r] = [NoTask EXCEPT !.status = "PENDING"]]
            BY <1>1 DEF Request
        <3> QED BY <3>1, <3>2, TaskType DEF TypeOK
    <2>2. CASE task[r].status = "COMPLETED"
        BY <1>1, <2>1, <2>2 DEF Request, TypeOK
    <2>3. CASE task[r].status # "COMPLETED"
        <3>1. task'[r].status \in TaskStatus /\ task'[r].attempts \in 0..MaxAttempts
            BY <2>1 DEF TaskRow
        <3>2. Bump(task'[r].attempts, MaxAttempts) \in 0..MaxAttempts BY <3>1, BumpType
        <3>3. [Idle EXCEPT !.pc = "govern", !.rec = r, !.loaded = task'[r].status,
                           !.attempts = Bump(task'[r].attempts, MaxAttempts)] \in Session
            BY <3>1, <3>2, IdleType DEF Session
        <3>4. c \in Actors BY DEF Actors
        <3> DEFINE x == [Idle EXCEPT !.pc = "govern", !.rec = r, !.loaded = task'[r].status,
                                     !.attempts = Bump(task'[r].attempts, MaxAttempts)]
        <3>5. x.rec = r /\ sess' = [sess EXCEPT ![c] = x] BY <1>1, <2>3 DEF Request, Idle
        <3> HIDE DEF x
        <3>6. x.pc # "idle" => x.rec \in Records BY <3>5
        <3>7. x \in Session BY <3>3 DEF x
        <3>8. /\ sess' \in [Actors -> Session]
              /\ \A b \in Actors : sess'[b].pc # "idle" => sess'[b].rec \in Records
            BY <3>4, <3>5, <3>6, <3>7, SessionType
        <3> QED BY <1>1, <2>1, <2>3, <3>8 DEF Request, TypeOK
    <2> QED BY <2>2, <2>3
<1>2. ASSUME NEW c \in Clients, ClientHeld(c) PROVE TypeOK'
    <2> DEFINE r == sess[c].rec
               x == [sess[c] EXCEPT !.pc = "blocking"]
               y == [task[r] EXCEPT !.status = IF sess[c].loaded = "RUNNING" THEN @ ELSE "RUNNING",
                                    !.attempts = sess[c].attempts]
    <2>1. c \in Actors /\ sess[c].pc # "idle" BY <1>2 DEF ClientHeld, Actors
    <2>2. sess[c] \in Session /\ r \in Records /\ task[r] \in TaskRow BY <2>1, AtWork
    <2>3. x \in Session /\ x.rec \in Records BY <2>2 DEF Session
    <2>4. y \in TaskRow BY <2>2 DEF TaskRow, TaskStatus, Session
    <2>5. sess' = [sess EXCEPT ![c] = x] /\ task' = [task EXCEPT ![r] = y]
        BY <1>2 DEF ClientHeld
    <2> HIDE DEF x, y
    <2>6. /\ sess' \in [Actors -> Session]
          /\ \A b \in Actors : sess'[b].pc # "idle" => sess'[b].rec \in Records
        BY <2>1, <2>3, <2>5, SessionType
    <2>7. task' \in [Records -> TaskRow] BY <2>2, <2>4, <2>5, TaskType
    <2> QED BY <1>2, <2>6, <2>7 DEF ClientHeld, TypeOK
<1>3. ASSUME NEW c \in Clients, ClientBlock(c) PROVE TypeOK'
    <2> DEFINE r == sess[c].rec
               y == [task[r] EXCEPT !.status = "BLOCKED"]
    <2>1. c \in Actors /\ sess[c].pc # "idle" BY <1>3 DEF ClientBlock, Actors
    <2>2. r \in Records /\ task[r] \in TaskRow BY <2>1, AtWork
    <2>3. y \in TaskRow BY <2>2 DEF TaskRow, TaskStatus
    <2>4. task' = [task EXCEPT ![r] = y] BY <1>3 DEF ClientBlock
    <2> HIDE DEF y
    <2>5. task' \in [Records -> TaskRow] BY <2>2, <2>3, <2>4, TaskType
    <2> QED BY <1>3, <2>1, <2>5, CloseType DEF ClientBlock, TypeOK
<1>4. ASSUME NEW c \in Clients, ClientAllowed(c) PROVE TypeOK'
    <2> DEFINE r == sess[c].rec
               x == [sess[c] EXCEPT !.pc = "flush", !.wrote = TRUE,
                                    !.seen = {s \in Stores : Exists(outbox[r][s])}]
    <2>1. c \in Actors /\ sess[c].pc # "idle" BY <1>4 DEF ClientAllowed, Actors
    <2>2. sess[c] \in Session /\ r \in Records BY <2>1, AtWork
    <2>3. x \in Session /\ x.rec \in Records BY <2>2 DEF Session
    <2>4. sess' = [sess EXCEPT ![c] = x] BY <1>4 DEF ClientAllowed
    <2> HIDE DEF x
    <2>5. /\ sess' \in [Actors -> Session]
          /\ \A b \in Actors : sess'[b].pc # "idle" => sess'[b].rec \in Records
        BY <2>1, <2>3, <2>4, SessionType
    <2> QED BY <1>4, <2>5 DEF ClientAllowed, TypeOK
<1>5. ASSUME NEW c \in Clients, FlushConflict(c) PROVE TypeOK'
    BY <1>5, CloseType DEF FlushConflict, TypeOK, Actors
<1>6. ASSUME NEW w \in Workers, NEW r \in Records, Claim(w, r) PROVE TypeOK'
    <2> DEFINE x == [Idle EXCEPT !.pc = "govern", !.rec = r, !.loaded = "RUNNING"]
               y == [task[r] EXCEPT !.status = "RUNNING", !.locked = TRUE,
                                    !.attempts = Bump(@, MaxAttempts)]
    <2>1. task[r] \in TaskRow BY DEF TypeOK
    <2>2. Bump(task[r].attempts, MaxAttempts) \in 0..MaxAttempts
        BY <2>1, BumpType DEF TaskRow
    <2>3. y \in TaskRow BY <2>1, <2>2 DEF TaskRow, TaskStatus
    <2>4. task' = [task EXCEPT ![r] = y] BY <1>6 DEF Claim
    <2>5. task' \in [Records -> TaskRow] BY <2>3, <2>4, TaskType
    <2>6. x \in Session BY IdleType DEF Session, TaskStatus
    <2>7. x.rec = r BY DEF Idle
    <2>8. w \in Actors /\ sess' = [sess EXCEPT ![w] = x] BY <1>6 DEF Claim, Actors
    <2> HIDE DEF x, y
    <2>9. x.pc # "idle" => x.rec \in Records BY <2>7
    <2>10. /\ sess' \in [Actors -> Session]
           /\ \A b \in Actors : sess'[b].pc # "idle" => sess'[b].rec \in Records
        BY <2>6, <2>8, <2>9, SessionType
    <2> QED BY <1>6, <2>5, <2>10 DEF Claim, TypeOK
<1>7. ASSUME NEW w \in Workers, WorkerBlock(w) PROVE TypeOK'
    <2> DEFINE r == sess[w].rec
               y == [task[r] EXCEPT !.status = "BLOCKED", !.locked = FALSE]
    <2>1. w \in Actors /\ sess[w].pc # "idle" BY <1>7 DEF WorkerBlock, Actors
    <2>2. r \in Records /\ task[r] \in TaskRow BY <2>1, AtWork
    <2>3. y \in TaskRow BY <2>2 DEF TaskRow, TaskStatus
    <2>4. task' = [task EXCEPT ![r] = y] BY <1>7 DEF WorkerBlock
    <2> HIDE DEF y
    <2>5. task' \in [Records -> TaskRow] BY <2>2, <2>3, <2>4, TaskType
    <2> QED BY <1>7, <2>1, <2>5, CloseType DEF WorkerBlock, TypeOK
<1>8. ASSUME NEW w \in Workers, WorkerAllowed(w) PROVE TypeOK'
    <2> DEFINE r == sess[w].rec
               x == [sess[w] EXCEPT !.pc = "flush", !.wrote = (record[r] = "LIVE")]
    <2>1. w \in Actors /\ sess[w].pc # "idle" BY <1>8 DEF WorkerAllowed, Actors
    <2>2. sess[w] \in Session /\ r \in Records BY <2>1, AtWork
    <2>3. x \in Session /\ x.rec \in Records BY <2>2 DEF Session
    <2>4. sess' = [sess EXCEPT ![w] = x] BY <1>8 DEF WorkerAllowed
    <2> HIDE DEF x
    <2>5. /\ sess' \in [Actors -> Session]
          /\ \A b \in Actors : sess'[b].pc # "idle" => sess'[b].rec \in Records
        BY <2>1, <2>3, <2>4, SessionType
    <2> QED BY <1>8, <2>5 DEF WorkerAllowed, TypeOK
<1>9. ASSUME NEW w \in Workers, WorkerError(w) PROVE TypeOK'
    <2> DEFINE r == sess[w].rec
               y == [task[r] EXCEPT !.status = StatusAfterError(task[r].attempts, MaxAttempts),
                                    !.locked = FALSE]
    <2>1. w \in Actors /\ sess[w].pc # "idle" BY <1>9 DEF WorkerError, Actors
    <2>2. r \in Records /\ task[r] \in TaskRow BY <2>1, AtWork
    <2>3. y \in TaskRow BY <2>2 DEF TaskRow, TaskStatus, StatusAfterError
    <2>4. task' = [task EXCEPT ![r] = y] BY <1>9 DEF WorkerError
    <2> HIDE DEF y
    <2>5. task' \in [Records -> TaskRow] BY <2>2, <2>3, <2>4, TaskType
    <2> QED BY <1>9, <2>1, <2>5, CloseType DEF WorkerError, TypeOK
<1>10. ASSUME NEW a \in Actors, NEW old \in SUBSET Stores, Flush(a, old) PROVE TypeOK'
    <2> DEFINE r   == sess[a].rec
               new == Stores \ Found(a)
               t   == [s \in Stores |-> IF s \in old THEN outbox[r][s].attempts ELSE 0]
               g   == [s \in Stores |-> IF s \in new \cup old THEN "todo" ELSE "none"]
               x   == [sess[a] EXCEPT !.pc = "dispatch", !.new = new, !.tries = t, !.got = g]
    <2>1. sess[a].pc # "idle" BY <1>10 DEF Flush
    <2>2. sess[a] \in Session /\ r \in Records BY <2>1, AtWork
    <2>3. \A s \in Stores : outbox[r][s].attempts \in 0..MaxAttempts
        BY <2>2 DEF TypeOK, EventRow
    <2>4. t \in [Stores -> 0..MaxAttempts] BY <2>3, ForgetAssumption
    <2>5. g \in [Stores -> {"none", "todo", "ok", "fail"}] OBVIOUS
    <2>6. new \in SUBSET Stores OBVIOUS
    <2>7. sess' = [sess EXCEPT ![a] = x] BY <1>10 DEF Flush
    <2> HIDE DEF t, g, new
    <2>8. x \in Session /\ x.rec \in Records BY <2>2, <2>4, <2>5, <2>6 DEF Session
    <2> HIDE DEF x
    <2>9. /\ sess' \in [Actors -> Session]
          /\ \A b \in Actors : sess'[b].pc # "idle" => sess'[b].rec \in Records
        BY <2>7, <2>8, SessionType
    <2> QED BY <1>10, <2>9 DEF Flush, TypeOK
<1>11. ASSUME NEW a \in Actors, NEW s \in Stores, DeliverOK(a, s) PROVE TypeOK'
    <2> DEFINE r == sess[a].rec
               x == [sess[a] EXCEPT !.got[s] = "ok"]
    <2>1. sess[a].pc # "idle" BY <1>11 DEF DeliverOK
    <2>2. sess[a] \in Session /\ r \in Records BY <2>1, AtWork
    <2>3. x \in Session /\ x.rec \in Records BY <2>2 DEF Session
    <2>4. sess' = [sess EXCEPT ![a] = x] BY <1>11 DEF DeliverOK
    <2> HIDE DEF x
    <2>5. /\ sess' \in [Actors -> Session]
          /\ \A b \in Actors : sess'[b].pc # "idle" => sess'[b].rec \in Records
        BY <2>3, <2>4, SessionType
    <2>6. copy' \in [Records -> [Stores -> CopyState]]
        BY <1>11, <2>2 DEF DeliverOK, TypeOK, CopyState
    <2> QED BY <1>11, <2>5, <2>6 DEF DeliverOK, TypeOK
<1>12. ASSUME NEW a \in Actors, NEW s \in Stores, DeliverFail(a, s) PROVE TypeOK'
    <2> DEFINE r == sess[a].rec
               x == [sess[a] EXCEPT !.got[s] = "fail"]
    <2>1. sess[a].pc # "idle" BY <1>12 DEF DeliverFail
    <2>2. sess[a] \in Session /\ r \in Records BY <2>1, AtWork
    <2>3. x \in Session /\ x.rec \in Records BY <2>2 DEF Session
    <2>4. sess' = [sess EXCEPT ![a] = x] BY <1>12 DEF DeliverFail
    <2> HIDE DEF x
    <2>5. /\ sess' \in [Actors -> Session]
          /\ \A b \in Actors : sess'[b].pc # "idle" => sess'[b].rec \in Records
        BY <2>3, <2>4, SessionType
    <2>6. copy' \in [Records -> [Stores -> CopyState]]
        BY <1>12, <2>2 DEF DeliverFail, TypeOK, CopyState
    <2> QED BY <1>12, <2>5, <2>6 DEF DeliverFail, TypeOK
<1>13. ASSUME NEW a \in Actors, NEW answered \in BOOLEAN, Commit(a, answered) PROVE TypeOK'
    <2> DEFINE r == sess[a].rec
               events == {Rows(a, r)[s] : s \in Stores}
               verified == answered /\ Verified(a, r, Rows(a, r))
                           /\ StatusAfter(events, TRUE) = "COMPLETED"
               status == StatusAfter(events, verified)
               result == IF verified THEN "VERIFIED" ELSE "UNVERIFIED"
               y == IF a \in Clients
                    THEN [task[r] EXCEPT !.status = status, !.attempts = sess[a].attempts,
                                         !.result = result]
                    ELSE [task[r] EXCEPT !.status = status, !.locked = FALSE]
    <2>1. sess[a] \in Session /\ r \in Records /\ task[r] \in TaskRow
        BY <1>13, AtWork DEF Commit
    <2>2. Rows(a, r) \in [Stores -> EventRow] BY <2>1, RowsType
    <2>3. status \in TaskStatus BY StatusAfterSpec DEF TaskStatus
    <2>4. result \in {"NONE", "UNVERIFIED", "VERIFIED"} OBVIOUS
    <2>5. task' = [task EXCEPT ![r] = y] BY <1>13 DEF Commit
    <2>6. reply' \in [Clients -> {"none", "held", "error", "unverified", "verified"}]
        BY <1>13 DEF Commit, TypeOK
    <2> HIDE DEF status, result
    <2>7. y \in TaskRow BY <2>1, <2>3, <2>4 DEF TaskRow, Session
    <2> HIDE DEF y, verified, events
    <2>8. task' \in [Records -> TaskRow] BY <2>1, <2>5, <2>7, TaskType
    <2> QED BY <1>13, <2>1, <2>2, <2>8, <2>6, CloseType DEF Commit, TypeOK
<1>14. ASSUME NEW a \in Actors, Crash(a) PROVE TypeOK'
    BY <1>14, CloseType, ForgetAssumption DEF Crash, TypeOK
<1>15. ASSUME NEW r \in Records, NEW s \in Stores, StoreSettles(r, s) PROVE TypeOK'
    BY <1>15 DEF StoreSettles, TypeOK, CopyState
<1>16. ASSUME NEW r \in Records, HoldChange(r) PROVE TypeOK'
    BY <1>16 DEF HoldChange, TypeOK
<1>17. CASE UNCHANGED vars BY <1>17 DEF vars, TypeOK
<1> QED BY <1>1, <1>2, <1>3, <1>4, <1>5, <1>6, <1>7, <1>8, <1>9, <1>10, <1>11, <1>12,
           <1>13, <1>14, <1>15, <1>16, <1>17 DEF Next, ClientStep, WorkerStep, DeleteStep

(* The tables and the sessions always hold values the code can write.      *)
THEOREM TypeCorrect == Spec => []TypeOK
BY TypeInit, TypeStep, PTL DEF Spec

----------------------------------------------------------------------------
(* The deletion promise.                                                   *)

(* A dispatch covers every store: the rows that existed when it started    *)
(* are still there, and the others are among those it inserts.             *)
DispatchCoversStores ==
  \A a \in Actors : sess[a].pc = "dispatch" =>
    \A s \in Stores : sess[a].got[s] # "none" \/ Exists(outbox[sess[a].rec][s])

(* The rows a client found are still there: outbox rows are never removed. *)
FoundRowsStay ==
  \A a \in Actors : sess[a].pc # "idle" =>
    \A s \in sess[a].seen : Exists(outbox[sess[a].rec][s])

(* Verification looks at the stores of the task's events only, so that     *)
(* COMPLETED speaks of every store because a dispatch covers every store.  *)
ForgetInv ==
  /\ TypeOK
  /\ DispatchCoversStores
  /\ FoundRowsStay
  /\ CompletedMeansErased
  /\ CompletedMeansDelivered
  /\ DeletedHasDurableOutbox

LEMMA ForgetInit == Init => ForgetInv
BY TypeInit DEF Init, ForgetInv, DispatchCoversStores, FoundRowsStay,
                CompletedMeansErased, CompletedMeansDelivered, DeletedHasDurableOutbox,
                Idle, NoTask

(* Deletion is for good: no step brings content or a copy back.            *)
LEMMA ErasedStays ==
  ASSUME TypeOK, [Next]_vars, NEW r \in Records
  PROVE  /\ record[r] = "DELETED" => record'[r] = "DELETED"
         /\ \A s \in Stores : copy[r][s] = "ABSENT" => copy'[r][s] = "ABSENT"
<1>1. ASSUME NEW a \in Actors, NEW s \in Stores, DeliverOK(a, s) \/ DeliverFail(a, s)
      PROVE  /\ UNCHANGED record
             /\ \A t \in Stores : copy[r][t] = "ABSENT" => copy'[r][t] = "ABSENT"
    <2>1. sess[a].rec \in Records BY <1>1, AtWork DEF DeliverOK, DeliverFail
    <2>2. PICK after \in CopyState :
            /\ copy' = [copy EXCEPT ![sess[a].rec][s] = after]
            /\ copy[sess[a].rec][s] = "ABSENT" => after = "ABSENT"
        <3>1. CASE DeliverOK(a, s)
            <4>1. PICK x \in {"DOOMED", "ABSENT"} :
                    copy' = [copy EXCEPT ![sess[a].rec][s] = IF @ = "ABSENT" THEN @ ELSE x]
                BY <3>1 DEF DeliverOK
            <4> QED BY <4>1 DEF CopyState
        <3>2. CASE DeliverFail(a, s)
            <4>1. copy[sess[a].rec][s] \in CopyState BY <2>1 DEF TypeOK
            <4> QED BY <3>2, <4>1 DEF DeliverFail, CopyState
        <3> QED BY <1>1, <3>1, <3>2
    <2> QED BY <1>1, <2>1, <2>2 DEF DeliverOK, DeliverFail, TypeOK
<1>2. ASSUME NEW q \in Records, NEW s \in Stores, StoreSettles(q, s)
      PROVE  /\ UNCHANGED record
             /\ \A t \in Stores : copy[r][t] = "ABSENT" => copy'[r][t] = "ABSENT"
    BY <1>2 DEF StoreSettles, TypeOK
<1>3. ASSUME NEW a \in Actors, NEW answered \in BOOLEAN, Commit(a, answered)
      PROVE  UNCHANGED copy /\ (record[r] = "DELETED" => record'[r] = "DELETED")
    BY <1>3 DEF Commit, TypeOK
<1> QED BY <1>1, <1>2, <1>3
        DEF Next, vars, ClientStep, WorkerStep, DeleteStep, Request, ClientHeld, ClientBlock,
            ClientAllowed, FlushConflict, Claim, WorkerBlock, WorkerAllowed, WorkerError,
            Flush, Crash, HoldChange

(* What a commit leaves behind for its own record.                         *)
LEMMA CommitEffect ==
  ASSUME ForgetInv, NEW a \in Actors, NEW answered \in BOOLEAN, Commit(a, answered),
         NEW r \in Records, sess[a].rec = r
  PROVE  /\ \A s \in Stores : Exists(outbox'[r][s])
         /\ task'[r].status = "COMPLETED" =>
              Erased(r)' /\ \A s \in Stores : outbox'[r][s].status = "COMPLETED"
         /\ a \in Clients /\ task'[r].result = "VERIFIED" => Erased(r)'
<1> DEFINE rows == Rows(a, r)
           events == {rows[s] : s \in Stores}
           verified == answered /\ Verified(a, r, rows)
                       /\ StatusAfter(events, TRUE) = "COMPLETED"
<1>1. sess[a] \in Session BY DEF ForgetInv, TypeOK
<1>2. rows \in [Stores -> EventRow] BY <1>1, RowsType DEF ForgetInv
<1>3. \A s \in Stores : Exists(rows[s])
    <2> SUFFICES ASSUME NEW s \in Stores PROVE Exists(rows[s]) OBVIOUS
    <2>1. CASE sess[a].got[s] # "none"
        <3>1. sess[a].tries[s] \in 0..MaxAttempts BY <1>1 DEF Session
        <3>2. rows[s] = Written(outbox[r][s], EventAfter(sess[a].tries[s],
                                                  sess[a].got[s] = "ok", MaxAttempts))
            BY <2>1 DEF Rows
        <3>3. outbox[r][s] \in EventRow BY DEF ForgetInv, TypeOK, EventRow
        <3>4. rows[s].status # "NONE" BY <3>1, <3>2, <3>3, EventAfterType, WrittenType
        <3> QED BY <3>4 DEF Exists
    <2>2. CASE sess[a].got[s] = "none"
        BY <2>2 DEF Rows, Commit, ForgetInv, DispatchCoversStores
    <2> QED BY <2>1, <2>2
<1>4. outbox'[r] = rows BY <1>1 DEF Commit, ForgetInv, TypeOK
<1>5. verified => Erased(r)'
    <2> SUFFICES ASSUME verified PROVE Erased(r)' OBVIOUS
    <2>1. \A s \in Stores : copy[r][s] = "ABSENT" BY <1>3 DEF Verified
    <2>2. record'[r] = "DELETED" BY <1>1 DEF Verified, Commit, ForgetInv, TypeOK
    <2>3. copy' = copy BY DEF Commit
    <2> QED BY <2>1, <2>2, <2>3 DEF Erased
<1>6. /\ task'[r].status = StatusAfter(events, verified)
      /\ a \in Clients => task'[r].result = IF verified THEN "VERIFIED" ELSE "UNVERIFIED"
    <2> DEFINE status == StatusAfter(events, verified)
               result == IF verified THEN "VERIFIED" ELSE "UNVERIFIED"
               y == IF a \in Clients
                    THEN [task[r] EXCEPT !.status = status, !.attempts = sess[a].attempts,
                                         !.result = result]
                    ELSE [task[r] EXCEPT !.status = status, !.locked = FALSE]
    <2>1. task' = [task EXCEPT ![r] = y] BY DEF Commit
    <2> HIDE DEF status, result
    <2>2. task[r] \in TaskRow BY <1>1 DEF ForgetInv, TypeOK
    <2>3. y.status = status /\ (a \in Clients => y.result = result) BY <2>2 DEF TaskRow
    <2> HIDE DEF y
    <2>4. task'[r] = y BY <1>1, <2>1 DEF ForgetInv, TypeOK
    <2> QED BY <2>3, <2>4 DEF status, result
<1>7. verified \in BOOLEAN OBVIOUS
<1>8. StatusAfter(events, verified) = "COMPLETED" =>
        verified /\ \A s \in Stores : rows[s].status = "COMPLETED"
    <2> HIDE DEF verified, rows
    <2>1. ASSUME StatusAfter(events, verified) = "COMPLETED"
          PROVE  verified /\ \A e \in events : e.status # "FAILED" /\ ~Open(e)
        BY <1>7, <2>1, StatusAfterSpec
    <2>2. ASSUME StatusAfter(events, verified) = "COMPLETED", NEW s \in Stores
          PROVE  rows[s].status = "COMPLETED"
        <3>1. rows[s] \in events OBVIOUS
        <3>2. rows[s].status \notin {"FAILED", "PENDING", "RETRY"}
            BY <2>1, <2>2, <3>1 DEF Open
        <3>3. rows[s].status # "NONE" BY <1>3 DEF Exists
        <3> QED BY <1>2, <3>2, <3>3 DEF EventRow, OutboxStatus
    <2> QED BY <2>1, <2>2
<1> HIDE DEF verified, events, rows
<1> QED BY <1>3, <1>4, <1>5, <1>6, <1>8

LEMMA ForgetStep == ForgetInv /\ [Next]_vars => ForgetInv'
<1> SUFFICES ASSUME ForgetInv, [Next]_vars PROVE ForgetInv' OBVIOUS
<1> USE DEF ForgetInv
<1>1. TypeOK' BY TypeStep
<1>2. \A r \in Records, s \in Stores : copy'[r][s] = "ABSENT" \/ copy[r][s] # "ABSENT"
    BY ErasedStays
<1>3. \A r \in Records : record[r] = "DELETED" => record'[r] = "DELETED" BY ErasedStays
<1>4. \A r \in Records : Erased(r) => Erased(r)' BY <1>2, <1>3 DEF Erased
<1> DEFINE NoNews == /\ UNCHANGED <<record, outbox>>
                     /\ \A r \in Records :
                          /\ task'[r].status = "COMPLETED" => task[r].status = "COMPLETED"
                          /\ task'[r].result = "VERIFIED" => task[r].result = "VERIFIED"
           (* All sessions but a's are unchanged, and a's is not at a dispatch. *)
           NoDispatch(a) == /\ \A b \in Actors : b # a => sess'[b] = sess[b]
                            /\ sess'[a].pc # "dispatch"
                            /\ sess'[a].pc # "idle" =>
                                 \A s \in sess'[a].seen : Exists(outbox[sess'[a].rec][s])
(* A step that is no commit, and starts no dispatch.                       *)
<1>5. ASSUME NoNews
      PROVE  CompletedMeansErased' /\ CompletedMeansDelivered' /\ DeletedHasDurableOutbox'
    BY <1>4, <1>5 DEF CompletedMeansErased, CompletedMeansDelivered, DeletedHasDurableOutbox
<1>6. ASSUME NoNews, NEW a \in Actors, NoDispatch(a) PROVE ForgetInv'
    <2>1. DispatchCoversStores' BY <1>6 DEF DispatchCoversStores, NoNews
    <2>2. FoundRowsStay' BY <1>6 DEF FoundRowsStay, NoNews
    <2> QED BY <1>1, <1>5, <1>6, <2>1, <2>2
<1>7. ASSUME NEW a \in Actors, Close(a) PROVE NoDispatch(a)
    BY <1>7 DEF Close, Idle, TypeOK
<1>8. ASSUME NEW r \in Records, NEW y, UNCHANGED <<record, outbox>>,
             task' = [task EXCEPT ![r] = y],
             y.status # "COMPLETED" \/ y.status = task[r].status,
             y.result = task[r].result \/ y.result = "NONE"
      PROVE  NoNews
    <2>1. ASSUME NEW q \in Records PROVE task'[q] = IF q = r THEN y ELSE task[q]
        BY <1>8 DEF TypeOK
    <2>2. ASSUME NEW q \in Records
          PROVE  /\ task'[q].status = "COMPLETED" => task[q].status = "COMPLETED"
                 /\ task'[q].result = "VERIFIED" => task[q].result = "VERIFIED"
        <3>1. CASE q = r BY <1>8, <2>1, <3>1
        <3>2. CASE q # r BY <2>1, <3>2
        <3> QED BY <3>1, <3>2
    <2> QED BY <1>8, <2>2
<1> HIDE DEF NoNews
<1>9. ASSUME NEW c \in Clients, NEW r \in Records, Request(c, r) PROVE ForgetInv'
    <2>1. \/ task' = task
          \/ task' = [task EXCEPT ![r] = [NoTask EXCEPT !.status = "PENDING"]]
        BY <1>9 DEF Request
    <2>2. [NoTask EXCEPT !.status = "PENDING"].status = "PENDING"
          /\ [NoTask EXCEPT !.status = "PENDING"].result = "NONE"
        BY DEF NoTask
    <2> DEFINE y == [NoTask EXCEPT !.status = "PENDING"]
    <2>3. y.status # "COMPLETED" /\ y.result = "NONE" BY <2>2
    <2> HIDE DEF y
    <2>4. NoNews
        <3>1. CASE task' = task BY <1>9, <3>1 DEF Request, NoNews
        <3>2. CASE task' = [task EXCEPT ![r] = y] BY <1>8, <1>9, <2>3, <3>2 DEF Request
        <3> QED BY <2>1, <3>1, <3>2 DEF y
    <2>5. NoDispatch(c)
        <3>1. CASE UNCHANGED sess
            BY <1>9, <3>1 DEF Request, Actors, FoundRowsStay
        <3>2. CASE ~UNCHANGED sess
            <4> DEFINE x == [Idle EXCEPT !.pc = "govern", !.rec = r, !.loaded = task'[r].status,
                                         !.attempts = Bump(task'[r].attempts, MaxAttempts)]
            <4>1. sess' = [sess EXCEPT ![c] = x] BY <1>9, <3>2 DEF Request
            <4>2. x.pc = "govern" /\ x.seen = {} BY DEF Idle
            <4> HIDE DEF x
            <4> QED BY <4>1, <4>2 DEF TypeOK, Actors
        <3> QED BY <3>1, <3>2
    <2> QED BY <1>6, <2>4, <2>5 DEF Actors
<1>10. ASSUME NEW c \in Clients, ClientHeld(c) PROVE ForgetInv'
    <2> DEFINE r == sess[c].rec
               y == [task[r] EXCEPT !.status = IF sess[c].loaded = "RUNNING" THEN @ ELSE "RUNNING",
                                    !.attempts = sess[c].attempts]
    <2>1. c \in Actors /\ sess[c].pc # "idle" BY <1>10 DEF ClientHeld, Actors
    <2>2. r \in Records /\ task[r] \in TaskRow BY <2>1, AtWork
    <2>3. y.result = task[r].result /\ (y.status # "COMPLETED" \/ y.status = task[r].status)
        BY <2>2 DEF TaskRow
    <2>4. task' = [task EXCEPT ![r] = y] /\ UNCHANGED <<record, outbox>> BY <1>10 DEF ClientHeld
    <2> HIDE DEF y
    <2>5. NoNews BY <1>8, <2>2, <2>3, <2>4
    <2>6. NoDispatch(c) BY <1>10 DEF ClientHeld, TypeOK, Actors, Session, FoundRowsStay
    <2> QED BY <1>6, <2>1, <2>5, <2>6
<1>11. ASSUME NEW c \in Clients, ClientBlock(c) PROVE ForgetInv'
    <2> DEFINE r == sess[c].rec
               y == [task[r] EXCEPT !.status = "BLOCKED"]
    <2>1. c \in Actors /\ sess[c].pc # "idle" BY <1>11 DEF ClientBlock, Actors
    <2>2. r \in Records /\ task[r] \in TaskRow BY <2>1, AtWork
    <2>3. y.result = task[r].result /\ (y.status # "COMPLETED")
        BY <2>2 DEF TaskRow
    <2>4. task' = [task EXCEPT ![r] = y] /\ UNCHANGED <<record, outbox>> BY <1>11 DEF ClientBlock
    <2> HIDE DEF y
    <2>5. NoNews BY <1>8, <2>2, <2>3, <2>4
    <2>6. NoDispatch(c) BY <1>11, <1>7 DEF ClientBlock, Actors
    <2> QED BY <1>6, <2>1, <2>5, <2>6
<1>12. ASSUME NEW w \in Workers, WorkerBlock(w) PROVE ForgetInv'
    <2> DEFINE r == sess[w].rec
               y == [task[r] EXCEPT !.status = "BLOCKED", !.locked = FALSE]
    <2>1. w \in Actors /\ sess[w].pc # "idle" BY <1>12 DEF WorkerBlock, Actors
    <2>2. r \in Records /\ task[r] \in TaskRow BY <2>1, AtWork
    <2>3. y.result = task[r].result /\ (y.status # "COMPLETED")
        BY <2>2 DEF TaskRow
    <2>4. task' = [task EXCEPT ![r] = y] /\ UNCHANGED <<record, outbox>> BY <1>12 DEF WorkerBlock
    <2> HIDE DEF y
    <2>5. NoNews BY <1>8, <2>2, <2>3, <2>4
    <2>6. NoDispatch(w) BY <1>12, <1>7 DEF WorkerBlock, Actors
    <2> QED BY <1>6, <2>1, <2>5, <2>6
<1>13. ASSUME NEW w \in Workers, WorkerError(w) PROVE ForgetInv'
    <2> DEFINE r == sess[w].rec
               y == [task[r] EXCEPT !.status = StatusAfterError(task[r].attempts, MaxAttempts),
                                    !.locked = FALSE]
    <2>1. w \in Actors /\ sess[w].pc # "idle" BY <1>13 DEF WorkerError, Actors
    <2>2. r \in Records /\ task[r] \in TaskRow BY <2>1, AtWork
    <2>3. y.result = task[r].result /\ (y.status # "COMPLETED")
        BY <2>2 DEF TaskRow, StatusAfterError
    <2>4. task' = [task EXCEPT ![r] = y] /\ UNCHANGED <<record, outbox>> BY <1>13 DEF WorkerError
    <2> HIDE DEF y
    <2>5. NoNews BY <1>8, <2>2, <2>3, <2>4
    <2>6. NoDispatch(w) BY <1>13, <1>7 DEF WorkerError, Actors
    <2> QED BY <1>6, <2>1, <2>5, <2>6
<1>14. ASSUME NEW c \in Clients, ClientAllowed(c) \/ FlushConflict(c) PROVE ForgetInv'
    <2>1. c \in Actors /\ NoNews BY <1>14 DEF ClientAllowed, FlushConflict, NoNews, Actors
    <2>2. CASE ClientAllowed(c)
        <3>1. NoDispatch(c) BY <2>1, <2>2 DEF ClientAllowed, TypeOK, Session
        <3> QED BY <1>6, <2>1, <3>1
    <2>3. CASE FlushConflict(c) BY <1>6, <1>7, <2>1, <2>3 DEF FlushConflict
    <2> QED BY <1>14, <2>2, <2>3
<1>15. ASSUME NEW w \in Workers, NEW r \in Records, Claim(w, r) PROVE ForgetInv'
    <2> DEFINE y == [task[r] EXCEPT !.status = "RUNNING", !.locked = TRUE,
                                    !.attempts = Bump(@, MaxAttempts)]
               x == [Idle EXCEPT !.pc = "govern", !.rec = r, !.loaded = "RUNNING"]
    <2>1. task[r] \in TaskRow BY DEF TypeOK
    <2>2. y.result = task[r].result /\ y.status = "RUNNING" BY <2>1 DEF TaskRow
    <2>3. task' = [task EXCEPT ![r] = y] /\ UNCHANGED <<record, outbox>> BY <1>15 DEF Claim
    <2>4. x.pc = "govern" /\ x.seen = {} BY DEF Idle
    <2>5. w \in Actors /\ sess' = [sess EXCEPT ![w] = x] BY <1>15 DEF Claim, Actors
    <2> HIDE DEF y, x
    <2>6. NoNews BY <1>8, <2>2, <2>3
    <2>7. NoDispatch(w) BY <2>4, <2>5 DEF TypeOK
    <2> QED BY <1>6, <2>5, <2>6, <2>7
<1>16. ASSUME NEW w \in Workers, WorkerAllowed(w) PROVE ForgetInv'
    <2>1. w \in Actors /\ NoNews BY <1>16 DEF WorkerAllowed, NoNews, Actors
    <2>2. NoDispatch(w) BY <1>16, <2>1 DEF WorkerAllowed, TypeOK, Session, FoundRowsStay
    <2> QED BY <1>6, <2>1, <2>2
<1>17. ASSUME NEW a \in Actors, NEW old \in SUBSET Stores, Flush(a, old) PROVE ForgetInv'
    <2>1. NoNews BY <1>17 DEF Flush, NoNews
    <2> DEFINE r   == sess[a].rec
               new == Stores \ Found(a)
               t   == [s \in Stores |-> IF s \in old THEN outbox[r][s].attempts ELSE 0]
               g   == [s \in Stores |-> IF s \in new \cup old THEN "todo" ELSE "none"]
               x   == [sess[a] EXCEPT !.pc = "dispatch", !.new = new, !.tries = t, !.got = g]
    <2>2. sess[a] \in Session BY DEF TypeOK
    <2>3. sess' = [sess EXCEPT ![a] = x] BY <1>17 DEF Flush
    <2>4. x.rec = r /\ x.got = g /\ x.seen = sess[a].seen BY <2>2 DEF Session
    <2>5. \A s \in Stores : g[s] # "none" \/ Exists(outbox[r][s])
        <3> SUFFICES ASSUME NEW s \in Stores, s \notin new PROVE Exists(outbox[r][s])
            OBVIOUS
        <3>1. s \in Found(a) OBVIOUS
        <3>2. CASE a \in Workers BY <3>1, <3>2, ForgetAssumption DEF Found
        <3>3. CASE a \in Clients BY <1>17, <3>1, <3>3 DEF Found, FoundRowsStay, Flush
        <3> QED BY <3>2, <3>3 DEF Actors
    <2> HIDE DEF x, g
    <2>6. DispatchCoversStores'
        <3>1. UNCHANGED outbox /\ sess'[a] = x /\ \A b \in Actors : b # a => sess'[b] = sess[b]
            BY <1>17, <2>3 DEF Flush, TypeOK
        <3> QED BY <2>4, <2>5, <3>1 DEF DispatchCoversStores
    <2>7. FoundRowsStay' BY <1>17, <2>3, <2>4 DEF FoundRowsStay, Flush, TypeOK
    <2> QED BY <1>1, <1>5, <2>1, <2>6, <2>7
<1>18. ASSUME NEW a \in Actors, NEW s \in Stores, DeliverOK(a, s) PROVE ForgetInv'
    <2>1. NoNews BY <1>18 DEF DeliverOK, NoNews
    <2> DEFINE x == [sess[a] EXCEPT !.got[s] = "ok"]
    <2>2. sess[a] \in Session BY DEF TypeOK
    <2>3. sess' = [sess EXCEPT ![a] = x] BY <1>18 DEF DeliverOK
    <2>4. /\ x.rec = sess[a].rec /\ x.pc = sess[a].pc /\ x.seen = sess[a].seen
          /\ \A t \in Stores : sess[a].got[t] # "none" => x.got[t] # "none"
        BY <2>2 DEF Session
    <2> HIDE DEF x
    <2>5. DispatchCoversStores'
        BY <1>18, <2>3, <2>4 DEF DispatchCoversStores, DeliverOK, TypeOK
    <2>6. FoundRowsStay' BY <1>18, <2>3, <2>4 DEF FoundRowsStay, DeliverOK, TypeOK
    <2> QED BY <1>1, <1>5, <2>1, <2>5, <2>6
<1>19. ASSUME NEW a \in Actors, NEW s \in Stores, DeliverFail(a, s) PROVE ForgetInv'
    <2>1. NoNews BY <1>19 DEF DeliverFail, NoNews
    <2> DEFINE x == [sess[a] EXCEPT !.got[s] = "fail"]
    <2>2. sess[a] \in Session BY DEF TypeOK
    <2>3. sess' = [sess EXCEPT ![a] = x] BY <1>19 DEF DeliverFail
    <2>4. /\ x.rec = sess[a].rec /\ x.pc = sess[a].pc /\ x.seen = sess[a].seen
          /\ \A t \in Stores : sess[a].got[t] # "none" => x.got[t] # "none"
        BY <2>2 DEF Session
    <2> HIDE DEF x
    <2>5. DispatchCoversStores'
        BY <1>19, <2>3, <2>4 DEF DispatchCoversStores, DeliverFail, TypeOK
    <2>6. FoundRowsStay' BY <1>19, <2>3, <2>4 DEF FoundRowsStay, DeliverFail, TypeOK
    <2> QED BY <1>1, <1>5, <2>1, <2>5, <2>6
<1>20. ASSUME NEW a \in Actors, NEW answered \in BOOLEAN, Commit(a, answered) PROVE ForgetInv'
    <2>1. PICK r \in Records : sess[a].rec = r BY <1>20, AtWork DEF Commit
    <2>2. /\ \A s \in Stores : Exists(outbox'[r][s])
          /\ task'[r].status = "COMPLETED" =>
               Erased(r)' /\ \A s \in Stores : outbox'[r][s].status = "COMPLETED"
          /\ a \in Clients /\ task'[r].result = "VERIFIED" => Erased(r)'
        BY <1>20, <2>1, CommitEffect
    <2>3. a \notin Clients => task'[r].result = task[r].result
        BY <1>20, <2>1 DEF Commit, TypeOK, TaskRow
    <2>4. \A q \in Records : q # r =>
            task'[q] = task[q] /\ outbox'[q] = outbox[q] /\ record'[q] = record[q]
        BY <1>20, <2>1 DEF Commit, TypeOK
    <2>5. \A b \in Actors : b # a => sess'[b] = sess[b] BY <1>20 DEF Commit, Close, TypeOK
    <2>6. sess'[a] = Idle BY <1>20 DEF Commit, Close, TypeOK
    <2>7. \A q \in Records, s \in Stores : Exists(outbox[q][s]) => Exists(outbox'[q][s])
        BY <2>2, <2>4
    <2>8. DispatchCoversStores'
        <3> SUFFICES ASSUME NEW b \in Actors, sess'[b].pc = "dispatch", NEW s \in Stores
                     PROVE  sess'[b].got[s] # "none" \/ Exists(outbox'[sess'[b].rec][s])
            BY DEF DispatchCoversStores
        <3>1. b # a BY <2>6 DEF Idle
        <3>2. sess[b].rec \in Records BY <2>5, <3>1 DEF TypeOK
        <3> QED BY <2>5, <2>7, <3>1, <3>2 DEF DispatchCoversStores
    <2>9. FoundRowsStay'
        <3> SUFFICES ASSUME NEW b \in Actors, sess'[b].pc # "idle", NEW s \in sess'[b].seen
                     PROVE  Exists(outbox'[sess'[b].rec][s])
            BY DEF FoundRowsStay
        <3>1. b # a BY <2>6 DEF Idle
        <3>2. sess'[b] = sess[b] BY <2>5, <3>1
        <3>3. sess[b] \in Session BY DEF TypeOK
        <3>4. s \in Stores /\ sess[b].rec \in Records /\ Exists(outbox[sess[b].rec][s])
            BY <3>2, <3>3 DEF FoundRowsStay, TypeOK, Session
        <3> QED BY <2>7, <3>2, <3>4
    <2>10. CompletedMeansErased'
        BY <1>4, <2>2, <2>3, <2>4 DEF CompletedMeansErased, Actors
    <2>11. CompletedMeansDelivered' BY <2>2, <2>4 DEF CompletedMeansDelivered
    <2>12. DeletedHasDurableOutbox' BY <2>2, <2>4 DEF DeletedHasDurableOutbox
    <2> QED BY <1>1, <2>8, <2>9, <2>10, <2>11, <2>12
<1>21. ASSUME NEW a \in Actors, Crash(a) PROVE ForgetInv'
    <2>1. NoNews BY <1>21 DEF Crash, NoNews
    <2> QED BY <1>6, <1>7, <1>21, <2>1 DEF Crash
<1>22. ASSUME UNCHANGED <<record, task, outbox, sess>> PROVE ForgetInv'
    <2>1. NoNews BY <1>22 DEF NoNews
    <2>2. DispatchCoversStores' /\ FoundRowsStay'
        BY <1>22 DEF DispatchCoversStores, FoundRowsStay
    <2> QED BY <1>1, <1>5, <2>1, <2>2
<1>23. ASSUME NEW r \in Records, NEW s \in Stores, StoreSettles(r, s) PROVE ForgetInv'
    BY <1>22, <1>23 DEF StoreSettles
<1>24. ASSUME NEW r \in Records, HoldChange(r) PROVE ForgetInv'
    BY <1>22, <1>24 DEF HoldChange
<1>25. CASE UNCHANGED vars BY <1>22, <1>25 DEF vars
<1> HIDE DEF ForgetInv
<1> QED BY <1>9, <1>10, <1>11, <1>12, <1>13, <1>14, <1>15, <1>16, <1>17, <1>18, <1>19, <1>20,
           <1>21, <1>23, <1>24, <1>25 DEF Next, ClientStep, WorkerStep, DeleteStep

LEMMA ForgetInvariant == Spec => []ForgetInv
BY ForgetInit, ForgetStep, PTL DEF Spec

(* A task that says COMPLETED, or a stored result that says verified, is   *)
(* about a record whose content and copies are gone.                       *)
THEOREM DeletionPromise == Spec => []CompletedMeansErased
BY ForgetInvariant, PTL DEF ForgetInv

(* No COMPLETED task has an event that is missing, open or exhausted.      *)
THEOREM DeliveryPromise == Spec => []CompletedMeansDelivered
BY ForgetInvariant, PTL DEF ForgetInv

(* No record is anonymised without durable events for every store.         *)
THEOREM DurableOutbox == Spec => []DeletedHasDurableOutbox
BY ForgetInvariant, PTL DEF ForgetInv
----------------------------------------------------------------------------
(* Holds.                                                                  *)

(* A handler that is replaced by one without a pending UPDATE, or by one   *)
(* for the same record with the same pending UPDATE, starts no deletion.   *)
LEMMA NoNewDelete ==
  ASSUME TypeOK, NEW r \in Records, NoDeleteUnderWay(r), NEW a \in Actors, NEW x,
         sess' = [sess EXCEPT ![a] = x],
         ~x.wrote \/ x.rec # r \/ (x.rec = sess[a].rec /\ x.wrote = sess[a].wrote)
  PROVE  NoDeleteUnderWay(r)'
BY DEF NoDeleteUnderWay, TypeOK

LEMMA CloseStartsNothing ==
  ASSUME TypeOK, NEW r \in Records, NoDeleteUnderWay(r), NEW a \in Actors, Close(a)
  PROVE  NoDeleteUnderWay(r)'
<1>1. ~Idle.wrote BY DEF Idle
<1> QED BY <1>1, NoNewDelete DEF Close

LEMMA HoldFences ==
  ASSUME TypeOK, [Next]_vars, NEW r \in Records,
         record[r] = "LIVE", hold[r], NoDeleteUnderWay(r)
  PROVE  record'[r] = "LIVE" /\ NoDeleteUnderWay(r)'
<1>0. Clients \subseteq Actors /\ Workers \subseteq Actors BY DEF Actors
<1>1. ASSUME NEW c \in Clients, NEW q \in Records, Request(c, q)
      PROVE  record'[r] = "LIVE" /\ NoDeleteUnderWay(r)'
    <2>1. CASE UNCHANGED sess BY <1>1, <2>1 DEF Request, NoDeleteUnderWay
    <2>2. CASE ~UNCHANGED sess
        <3> DEFINE x == [Idle EXCEPT !.pc = "govern", !.rec = q, !.loaded = task'[q].status,
                                     !.attempts = Bump(task'[q].attempts, MaxAttempts)]
        <3>1. ~x.wrote BY DEF Idle
        <3>2. sess' = [sess EXCEPT ![c] = x] BY <1>1, <2>2 DEF Request
        <3> HIDE DEF x
        <3> QED BY <1>0, <1>1, <3>1, <3>2, NoNewDelete DEF Request
    <2> QED BY <2>1, <2>2
<1>2. ASSUME NEW c \in Clients, ClientHeld(c)
      PROVE  record'[r] = "LIVE" /\ NoDeleteUnderWay(r)'
    <2> DEFINE x == [sess[c] EXCEPT !.pc = "blocking"]
    <2>1. x.rec = sess[c].rec /\ x.wrote = sess[c].wrote BY <1>0 DEF TypeOK, Session
    <2>2. sess' = [sess EXCEPT ![c] = x] BY <1>2 DEF ClientHeld
    <2> HIDE DEF x
    <2> QED BY <1>0, <1>2, <2>1, <2>2, NoNewDelete DEF ClientHeld
<1>3. ASSUME NEW c \in Clients, ClientBlock(c) \/ FlushConflict(c)
      PROVE  record'[r] = "LIVE" /\ NoDeleteUnderWay(r)'
    BY <1>0, <1>3, CloseStartsNothing DEF ClientBlock, FlushConflict
<1>4. ASSUME NEW c \in Clients, ClientAllowed(c)
      PROVE  record'[r] = "LIVE" /\ NoDeleteUnderWay(r)'
    <2> DEFINE x == [sess[c] EXCEPT !.pc = "flush", !.wrote = TRUE,
                          !.seen = {s \in Stores : Exists(outbox[sess[c].rec][s])}]
    <2>1. x.rec = sess[c].rec BY <1>0 DEF TypeOK, Session
    <2>2. x.rec # r BY <1>4, <2>1 DEF ClientAllowed
    <2>3. sess' = [sess EXCEPT ![c] = x] BY <1>4 DEF ClientAllowed
    <2> HIDE DEF x
    <2> QED BY <1>0, <1>4, <2>2, <2>3, NoNewDelete DEF ClientAllowed
<1>5. ASSUME NEW w \in Workers, NEW q \in Records, Claim(w, q)
      PROVE  record'[r] = "LIVE" /\ NoDeleteUnderWay(r)'
    <2> DEFINE x == [Idle EXCEPT !.pc = "govern", !.rec = q, !.loaded = "RUNNING"]
    <2>1. ~x.wrote BY DEF Idle
    <2>2. sess' = [sess EXCEPT ![w] = x] BY <1>5 DEF Claim
    <2> HIDE DEF x
    <2> QED BY <1>0, <1>5, <2>1, <2>2, NoNewDelete DEF Claim
<1>6. ASSUME NEW w \in Workers, WorkerBlock(w) \/ WorkerError(w)
      PROVE  record'[r] = "LIVE" /\ NoDeleteUnderWay(r)'
    BY <1>0, <1>6, CloseStartsNothing DEF WorkerBlock, WorkerError
<1>7. ASSUME NEW w \in Workers, WorkerAllowed(w)
      PROVE  record'[r] = "LIVE" /\ NoDeleteUnderWay(r)'
    <2> DEFINE x == [sess[w] EXCEPT !.pc = "flush", !.wrote = (record[sess[w].rec] = "LIVE")]
    <2>1. x.rec = sess[w].rec BY <1>0 DEF TypeOK, Session
    <2>2. x.rec # r BY <1>7, <2>1 DEF WorkerAllowed
    <2>3. sess' = [sess EXCEPT ![w] = x] BY <1>7 DEF WorkerAllowed
    <2> HIDE DEF x
    <2> QED BY <1>0, <1>7, <2>2, <2>3, NoNewDelete DEF WorkerAllowed
<1>8. ASSUME NEW a \in Actors, NEW old \in SUBSET Stores, Flush(a, old)
      PROVE  record'[r] = "LIVE" /\ NoDeleteUnderWay(r)'
    <2> DEFINE missing == Stores \ Found(a)
               x == [sess[a] EXCEPT
                       !.pc    = "dispatch",
                       !.new   = missing,
                       !.tries = [s \in Stores |-> IF s \in old
                                                   THEN outbox[sess[a].rec][s].attempts ELSE 0],
                       !.got   = [s \in Stores |-> IF s \in missing \cup old
                                                   THEN "todo" ELSE "none"]]
    <2>1. x.rec = sess[a].rec /\ x.wrote = sess[a].wrote BY DEF TypeOK, Session
    <2>2. sess' = [sess EXCEPT ![a] = x] BY <1>8 DEF Flush
    <2> HIDE DEF x
    <2> QED BY <1>8, <2>1, <2>2, NoNewDelete DEF Flush
<1>9. ASSUME NEW a \in Actors, NEW s \in Stores, NEW got \in {"ok", "fail"},
             sess' = [sess EXCEPT ![a].got[s] = got], UNCHANGED record
      PROVE  record'[r] = "LIVE" /\ NoDeleteUnderWay(r)'
    <2> DEFINE x == [sess[a] EXCEPT !.got[s] = got]
    <2>1. x.rec = sess[a].rec /\ x.wrote = sess[a].wrote BY DEF TypeOK, Session
    <2>2. sess' = [sess EXCEPT ![a] = x] BY <1>9
    <2> HIDE DEF x
    <2> QED BY <1>9, <2>1, <2>2, NoNewDelete
<1>13. ASSUME NEW a \in Actors, NEW s \in Stores, DeliverOK(a, s) \/ DeliverFail(a, s)
       PROVE  record'[r] = "LIVE" /\ NoDeleteUnderWay(r)'
    BY <1>9, <1>13 DEF DeliverOK, DeliverFail
<1>10. ASSUME NEW a \in Actors, NEW answered \in BOOLEAN, Commit(a, answered)
       PROVE  record'[r] = "LIVE" /\ NoDeleteUnderWay(r)'
    <2>1. sess[a].wrote => sess[a].rec # r BY DEF NoDeleteUnderWay
    <2>2. record'[r] = record[r] BY <1>10, <2>1 DEF Commit, TypeOK
    <2> QED BY <1>10, <2>2, CloseStartsNothing DEF Commit
<1>11. ASSUME NEW a \in Actors, Crash(a)
       PROVE  record'[r] = "LIVE" /\ NoDeleteUnderWay(r)'
    BY <1>11, CloseStartsNothing DEF Crash
<1>12. ASSUME UNCHANGED <<record, sess>>
       PROVE  record'[r] = "LIVE" /\ NoDeleteUnderWay(r)'
    BY <1>12 DEF NoDeleteUnderWay
<1> QED
    BY <1>1, <1>2, <1>3, <1>4, <1>5, <1>6, <1>7, <1>8, <1>10, <1>11, <1>12, <1>13
    DEF Next, ClientStep, WorkerStep, DeleteStep, StoreSettles, HoldChange, vars

(* While a live record is held and no delete is past its governance check, *)
(* no step deletes it and none gets past the check (deletion.py            *)
(* _governance_decision, scheduler.py run_once).                           *)
THEOREM HoldPromise == Spec => HoldIsAFence
<1> DEFINE P == \A r \in Records :
                   record[r] = "LIVE" /\ hold[r] /\ NoDeleteUnderWay(r) /\ hold'[r]
                     => record'[r] = "LIVE" /\ NoDeleteUnderWay(r)'
<1>1. TypeOK /\ [Next]_vars => [P]_vars BY HoldFences
<1> HIDE DEF P
<1>2. Spec => [][P]_vars BY <1>1, TypeCorrect, PTL DEF Spec
<1> QED BY <1>2 DEF P, HoldIsAFence

----------------------------------------------------------------------------
(* MemoryForget implements DeletionContract: every step of a request, a    *)
(* worker, a store or a crash maps to a step of the contract or to none.   *)

(* What a change of one session or of one task row does to the mapping.    *)

(* The phases are those of records.                                        *)
LEMMA PhaseType == Phase \in [Records -> {"LIVE", "CLEARED", "DELETED"}]
BY DEF Phase

(* A session that keeps its record and its pending UPDATE moves no phase.  *)
LEMMA PhaseKept ==
  ASSUME TypeOK, UNCHANGED record, NEW a \in Actors, NEW x,
         sess' = [sess EXCEPT ![a] = x],
         \/ ~x.wrote /\ ~sess[a].wrote
         \/ x.rec = sess[a].rec /\ x.wrote = sess[a].wrote
  PROVE  Phase' = Phase
<1>1. ASSUME NEW r \in Records PROVE NoDeleteUnderWay(r)' = NoDeleteUnderWay(r)
    <2>1. \A b \in Actors : b # a => sess'[b] = sess[b] BY DEF TypeOK
    <2>2. sess'[a] = x BY DEF TypeOK
    <2> QED BY <2>1, <2>2 DEF NoDeleteUnderWay
<1> QED BY <1>1 DEF Phase

(* A session that drops its pending UPDATE can only let its record lapse.  *)
LEMMA PhaseDropped ==
  ASSUME TypeOK, UNCHANGED record, NEW a \in Actors, NEW x, NEW r \in Records,
         sess' = [sess EXCEPT ![a] = x], ~x.wrote, sess[a].rec = r
  PROVE  \/ Phase' = Phase
         \/ Phase[r] = "CLEARED" /\ Phase' = [Phase EXCEPT ![r] = "LIVE"]
<1>1. \A b \in Actors : b # a => sess'[b] = sess[b] BY DEF TypeOK
<1>2. sess'[a] = x BY DEF TypeOK
<1>3. ASSUME NEW q \in Records, q # r PROVE Phase'[q] = Phase[q]
    <2>1. NoDeleteUnderWay(q)' = NoDeleteUnderWay(q) BY <1>1, <1>2, <1>3 DEF NoDeleteUnderWay
    <2> QED BY <2>1 DEF Phase
<1>4. NoDeleteUnderWay(r) => NoDeleteUnderWay(r)' BY <1>1, <1>2 DEF NoDeleteUnderWay
<1>5. Phase'[r] = Phase[r] \/ (Phase[r] = "CLEARED" /\ Phase'[r] = "LIVE") BY <1>4 DEF Phase
<1>6. Phase' \in [Records -> {"LIVE", "CLEARED", "DELETED"}] BY DEF Phase
<1>7. CASE Phase'[r] = Phase[r]
    <2>1. \A q \in Records : Phase'[q] = Phase[q] BY <1>3, <1>7
    <2> QED BY <1>6, <2>1, PhaseType
<1>8. CASE Phase[r] = "CLEARED" /\ Phase'[r] = "LIVE"
    <2>1. Phase' = [Phase EXCEPT ![r] = "LIVE"] BY <1>3, <1>6, <1>8, PhaseType
    <2> QED BY <1>8, <2>1
<1> QED BY <1>5, <1>7, <1>8

(* A session that starts to hold a pending UPDATE clears its record.       *)
LEMMA PhaseCleared ==
  ASSUME TypeOK, UNCHANGED record, NEW a \in Actors, NEW x, NEW r \in Records,
         sess' = [sess EXCEPT ![a] = x], x.wrote, x.rec = r, sess[a].rec = r
  PROVE  \/ Phase' = Phase
         \/ Phase[r] = "LIVE" /\ Phase' = [Phase EXCEPT ![r] = "CLEARED"]
<1>1. \A b \in Actors : b # a => sess'[b] = sess[b] BY DEF TypeOK
<1>2. sess'[a] = x BY DEF TypeOK
<1>3. ASSUME NEW q \in Records, q # r PROVE Phase'[q] = Phase[q]
    <2>1. NoDeleteUnderWay(q)' = NoDeleteUnderWay(q) BY <1>1, <1>2, <1>3 DEF NoDeleteUnderWay
    <2> QED BY <2>1 DEF Phase
<1>4. ~NoDeleteUnderWay(r)' BY <1>2 DEF NoDeleteUnderWay
<1>5. Phase'[r] = Phase[r] \/ (Phase[r] = "LIVE" /\ Phase'[r] = "CLEARED") BY <1>4 DEF Phase
<1>6. Phase' \in [Records -> {"LIVE", "CLEARED", "DELETED"}] BY DEF Phase
<1>7. CASE Phase'[r] = Phase[r]
    <2>1. \A q \in Records : Phase'[q] = Phase[q] BY <1>3, <1>7
    <2> QED BY <1>6, <2>1, PhaseType
<1>8. CASE Phase[r] = "LIVE" /\ Phase'[r] = "CLEARED"
    <2>1. Phase' = [Phase EXCEPT ![r] = "CLEARED"] BY <1>3, <1>6, <1>8, PhaseType
    <2> QED BY <1>8, <2>1
<1> QED BY <1>5, <1>7, <1>8

(* A task row that is neither completed nor verified anew attests nothing. *)
LEMMA AttestedLess ==
  ASSUME TypeOK, NEW r \in Records, NEW y, task' = [task EXCEPT ![r] = y],
         y.status # "COMPLETED" \/ y.status = task[r].status,
         y.result = task[r].result \/ y.result = "NONE"
  PROVE  Attested' = Attested \/ Attested' = Attested \ {r}
<1>1. \A q \in Records : task'[q] = IF q = r THEN y ELSE task[q] BY DEF TypeOK
<1>2. \A q \in Records : q # r => (q \in Attested' <=> q \in Attested) BY <1>1 DEF Attested
<1>3. r \in Attested' => r \in Attested BY <1>1 DEF Attested
<1>4. Attested \subseteq Records /\ Attested' \subseteq Records BY DEF Attested
<1> QED BY <1>2, <1>3, <1>4

(* What is attested is gone, so a record that is not DELETED is not        *)
(* attested.                                                               *)
LEMMA LiveUnattested ==
  ASSUME CompletedMeansErased, NEW r \in Records, Phase[r] # "DELETED"
  PROVE  r \notin Attested
BY DEF CompletedMeansErased, Erased, Phase, Attested

----------------------------------------------------------------------------
(* Between the governance check and the end of its transaction a handler   *)
(* works on a record that it cleared itself or that is deleted already; no *)
(* pending UPDATE outlives its transaction.                                *)
AtDelete(a) == sess[a].pc \in {"flush", "dispatch"}
WorkIsCleared ==
  \A a \in Actors :
    /\ AtDelete(a) => sess[a].wrote \/ record[sess[a].rec] = "DELETED"
    /\ sess[a].wrote => AtDelete(a)

(* A new session that satisfies the invariant keeps it, because a deleted  *)
(* record stays deleted.                                                   *)
LEMMA WorkSession ==
  ASSUME TypeOK, [Next]_vars, WorkIsCleared, NEW a \in Actors, NEW x,
         sess' = [sess EXCEPT ![a] = x],
         x.pc \in {"flush", "dispatch"} => x.wrote \/ record'[x.rec] = "DELETED",
         x.wrote => x.pc \in {"flush", "dispatch"}
  PROVE  WorkIsCleared'
<1> SUFFICES ASSUME NEW b \in Actors
             PROVE  /\ AtDelete(b)' => sess'[b].wrote \/ record'[sess'[b].rec] = "DELETED"
                    /\ sess'[b].wrote => AtDelete(b)'
    BY DEF WorkIsCleared
<1>1. CASE b = a BY <1>1 DEF TypeOK, AtDelete
<1>2. CASE b # a
    <2>1. sess'[b] = sess[b] BY <1>2 DEF TypeOK
    <2>2. AtDelete(b) => sess[b].rec \in Records BY DEF TypeOK, AtDelete
    <2>3. AtDelete(b) /\ record[sess[b].rec] = "DELETED" => record'[sess[b].rec] = "DELETED"
        BY <2>2, ErasedStays
    <2> QED BY <2>1, <2>3 DEF WorkIsCleared, AtDelete
<1> QED BY <1>1, <1>2

LEMMA WorkStep == TypeOK /\ WorkIsCleared /\ [Next]_vars => WorkIsCleared'
<1> SUFFICES ASSUME TypeOK, WorkIsCleared, [Next]_vars PROVE WorkIsCleared' OBVIOUS
<1>0. Clients \subseteq Actors /\ Workers \subseteq Actors BY DEF Actors
<1>1. ASSUME UNCHANGED <<record, sess>> PROVE WorkIsCleared'
    BY <1>1 DEF WorkIsCleared, AtDelete
<1>2. ASSUME NEW a \in Actors, Close(a) PROVE WorkIsCleared'
    <2>1. Idle.pc = "idle" /\ ~Idle.wrote BY DEF Idle
    <2> QED BY <1>2, <2>1, WorkSession DEF Close
<1>3. ASSUME NEW a \in Actors, NEW x, sess' = [sess EXCEPT ![a] = x],
             x.pc = "govern", ~x.wrote
      PROVE  WorkIsCleared'
    BY <1>3, WorkSession
<1>4. ASSUME NEW c \in Clients, NEW r \in Records, Request(c, r) PROVE WorkIsCleared'
    <2>1. CASE UNCHANGED sess BY <1>1, <1>4, <2>1 DEF Request
    <2>2. CASE ~UNCHANGED sess
        <3> DEFINE x == [Idle EXCEPT !.pc = "govern", !.rec = r, !.loaded = task'[r].status,
                                     !.attempts = Bump(task'[r].attempts, MaxAttempts)]
        <3>1. x.pc = "govern" /\ ~x.wrote BY DEF Idle
        <3>2. sess' = [sess EXCEPT ![c] = x] BY <1>4, <2>2 DEF Request
        <3> HIDE DEF x
        <3> QED BY <1>0, <1>3, <3>1, <3>2
    <2> QED BY <2>1, <2>2
<1>5. ASSUME NEW c \in Clients, ClientHeld(c) PROVE WorkIsCleared'
    <2> DEFINE x == [sess[c] EXCEPT !.pc = "blocking"]
    <2>1. x.pc = "blocking" /\ x.wrote = sess[c].wrote BY <1>0 DEF TypeOK, Session
    <2>2. ~sess[c].wrote BY <1>0, <1>5 DEF ClientHeld, WorkIsCleared, AtDelete
    <2>3. sess' = [sess EXCEPT ![c] = x] BY <1>5 DEF ClientHeld
    <2> HIDE DEF x
    <2> QED BY <1>0, <2>1, <2>2, <2>3, WorkSession
<1>6. ASSUME NEW c \in Clients, ClientAllowed(c) PROVE WorkIsCleared'
    <2> DEFINE x == [sess[c] EXCEPT !.pc = "flush", !.wrote = TRUE,
                                    !.seen = {s \in Stores : Exists(outbox[sess[c].rec][s])}]
    <2>1. x.pc = "flush" /\ x.wrote BY <1>0 DEF TypeOK, Session
    <2>2. sess' = [sess EXCEPT ![c] = x] BY <1>6 DEF ClientAllowed
    <2> HIDE DEF x
    <2> QED BY <1>0, <2>1, <2>2, WorkSession
<1>7. ASSUME NEW w \in Workers, NEW r \in Records, Claim(w, r) PROVE WorkIsCleared'
    <2> DEFINE x == [Idle EXCEPT !.pc = "govern", !.rec = r, !.loaded = "RUNNING"]
    <2>1. x.pc = "govern" /\ ~x.wrote BY DEF Idle
    <2>2. sess' = [sess EXCEPT ![w] = x] BY <1>7 DEF Claim
    <2> HIDE DEF x
    <2> QED BY <1>0, <1>3, <2>1, <2>2
<1>8. ASSUME NEW w \in Workers, WorkerAllowed(w) PROVE WorkIsCleared'
    <2> DEFINE x == [sess[w] EXCEPT !.pc = "flush", !.wrote = (record[sess[w].rec] = "LIVE")]
    <2>1. /\ x.pc = "flush" /\ x.rec = sess[w].rec
          /\ x.wrote = (record[sess[w].rec] = "LIVE")
        BY <1>0 DEF TypeOK, Session
    <2>2. sess[w].rec \in Records BY <1>0, <1>8 DEF WorkerAllowed, TypeOK
    <2>3. record'[sess[w].rec] \in {"LIVE", "DELETED"} /\ record' = record
        BY <1>8, <2>2 DEF WorkerAllowed, TypeOK
    <2>4. sess' = [sess EXCEPT ![w] = x] BY <1>8 DEF WorkerAllowed
    <2> HIDE DEF x
    <2> QED BY <1>0, <2>1, <2>3, <2>4, WorkSession
<1>9. ASSUME NEW a \in Actors, NEW old \in SUBSET Stores, Flush(a, old) PROVE WorkIsCleared'
    <2> DEFINE missing == Stores \ Found(a)
               x == [sess[a] EXCEPT
                       !.pc    = "dispatch",
                       !.new   = missing,
                       !.tries = [s \in Stores |-> IF s \in old
                                                   THEN outbox[sess[a].rec][s].attempts ELSE 0],
                       !.got   = [s \in Stores |-> IF s \in missing \cup old
                                                   THEN "todo" ELSE "none"]]
    <2>1. x.pc = "dispatch" /\ x.rec = sess[a].rec /\ x.wrote = sess[a].wrote
        BY DEF TypeOK, Session
    <2>2. sess[a].wrote \/ record'[sess[a].rec] = "DELETED"
        BY <1>9 DEF Flush, WorkIsCleared, AtDelete
    <2>3. sess' = [sess EXCEPT ![a] = x] BY <1>9 DEF Flush
    <2> HIDE DEF x
    <2> QED BY <2>1, <2>2, <2>3, WorkSession
<1>10. ASSUME NEW a \in Actors, NEW s \in Stores, NEW got \in {"ok", "fail"},
              sess[a].pc = "dispatch", sess' = [sess EXCEPT ![a].got[s] = got],
              UNCHANGED record
       PROVE  WorkIsCleared'
    <2> DEFINE x == [sess[a] EXCEPT !.got[s] = got]
    <2>1. x.pc = "dispatch" /\ x.rec = sess[a].rec /\ x.wrote = sess[a].wrote
        BY <1>10 DEF TypeOK, Session
    <2>2. sess[a].wrote \/ record'[sess[a].rec] = "DELETED"
        BY <1>10 DEF WorkIsCleared, AtDelete
    <2>3. sess' = [sess EXCEPT ![a] = x] BY <1>10
    <2> HIDE DEF x
    <2> QED BY <2>1, <2>2, <2>3, WorkSession
<1>11. ASSUME NEW a \in Actors, NEW s \in Stores, DeliverOK(a, s) \/ DeliverFail(a, s)
       PROVE  WorkIsCleared'
    BY <1>10, <1>11 DEF DeliverOK, DeliverFail
<1> QED
    BY <1>0, <1>1, <1>2, <1>4, <1>5, <1>6, <1>7, <1>8, <1>9, <1>11
    DEF Next, vars, ClientStep, WorkerStep, DeleteStep, ClientBlock, FlushConflict, WorkerBlock,
        WorkerError, Commit, Crash, StoreSettles, HoldChange

----------------------------------------------------------------------------
(* The refinement.                                                         *)

LEMMA ContractStep ==
  ASSUME ForgetInv, ForgetInv', WorkIsCleared, [Next]_vars
  PROVE  [Contract!ContractNext]_(Contract!contractVars)
<1> DEFINE Goal == Contract!ContractNext \/ UNCHANGED <<Phase, hold, copy, Attested>>
<1> SUFFICES Goal BY DEF Contract!contractVars
<1> USE DEF ForgetInv
<1>0. Clients \subseteq Actors /\ Workers \subseteq Actors BY DEF Actors
(* The three shapes of a step that moves no copy and commits nothing.      *)
<1>1. ASSUME NEW r \in Records, UNCHANGED <<Phase, hold, copy>>,
             Attested' = Attested \/ Attested' = Attested \ {r}
      PROVE  Goal
    BY <1>1 DEF Contract!ContractNext, Contract!Retract
<1>2. ASSUME NEW r \in Records, UNCHANGED <<hold, copy>>,
             \/ Phase' = Phase
             \/ Phase[r] = "CLEARED" /\ Phase' = [Phase EXCEPT ![r] = "LIVE"],
             Attested' = Attested \/ Attested' = Attested \ {r}
      PROVE  Goal
    <2>1. CASE Phase' = Phase BY <1>1, <1>2, <2>1
    <2>2. CASE Phase[r] = "CLEARED" /\ Phase' = [Phase EXCEPT ![r] = "LIVE"]
        <3>1. r \notin Attested BY <2>2, LiveUnattested
        <3>2. Attested' = Attested BY <1>2, <3>1
        <3> QED BY <1>2, <2>2, <3>2 DEF Contract!ContractNext, Contract!Lapse
    <2> QED BY <1>2, <2>1, <2>2
<1>3. ASSUME NEW a \in Actors, Close(a), sess[a].pc # "idle", UNCHANGED <<record, hold, copy>>,
             \/ Attested' = Attested
             \/ Attested' = Attested \ {sess[a].rec}
      PROVE  Goal
    <2>1. sess[a].rec \in Records BY <1>3, AtWork
    <2>2. ~Idle.wrote BY DEF Idle
    <2>3. \/ Phase' = Phase
          \/ /\ Phase[sess[a].rec] = "CLEARED"
             /\ Phase' = [Phase EXCEPT ![sess[a].rec] = "LIVE"]
        BY <1>3, <2>1, <2>2, PhaseDropped DEF Close
    <2> QED BY <1>2, <1>3, <2>1, <2>3
<1>4. UNCHANGED task => Attested' = Attested BY DEF Attested
<1>5. ASSUME NEW c \in Clients, NEW r \in Records, Request(c, r) PROVE Goal
    <2>1. Phase' = Phase
        <3>1. CASE UNCHANGED sess BY <1>5, <3>1 DEF Request, Phase, NoDeleteUnderWay
        <3>2. CASE ~UNCHANGED sess
            <4> DEFINE x == [Idle EXCEPT !.pc = "govern", !.rec = r, !.loaded = task'[r].status,
                                         !.attempts = Bump(task'[r].attempts, MaxAttempts)]
            <4>1. ~x.wrote BY DEF Idle
            <4>2. sess' = [sess EXCEPT ![c] = x] BY <1>5, <3>2 DEF Request
            <4>3. ~sess[c].wrote BY <1>0, <1>5 DEF Request, WorkIsCleared, AtDelete
            <4> HIDE DEF x
            <4> QED BY <1>0, <1>5, <4>1, <4>2, <4>3, PhaseKept DEF Request
        <3> QED BY <3>1, <3>2
    <2>2. Attested' = Attested \/ Attested' = Attested \ {r}
        <3> DEFINE y == [NoTask EXCEPT !.status = "PENDING"]
        <3>1. y.status # "COMPLETED" /\ y.result = "NONE" BY DEF NoTask
        <3>2. task' = task \/ task' = [task EXCEPT ![r] = y] BY <1>5 DEF Request
        <3> HIDE DEF y
        <3> QED BY <1>4, <3>1, <3>2, AttestedLess
    <2> QED BY <1>1, <1>5, <2>1, <2>2 DEF Request
<1>6. ASSUME NEW c \in Clients, ClientHeld(c) PROVE Goal
    <2> DEFINE r == sess[c].rec
               x == [sess[c] EXCEPT !.pc = "blocking"]
               y == [task[r] EXCEPT !.status = IF sess[c].loaded = "RUNNING" THEN @ ELSE "RUNNING",
                                    !.attempts = sess[c].attempts]
    <2>1. c \in Actors /\ r \in Records /\ task[r] \in TaskRow BY <1>0, <1>6, AtWork DEF ClientHeld
    <2>2. x.rec = r /\ x.wrote = sess[c].wrote BY <2>1 DEF TypeOK, Session
    <2>3. y.result = task[r].result /\ (y.status # "COMPLETED" \/ y.status = task[r].status)
        BY <2>1 DEF TaskRow
    <2>4. sess' = [sess EXCEPT ![c] = x] /\ task' = [task EXCEPT ![r] = y]
        BY <1>6 DEF ClientHeld
    <2> HIDE DEF x, y
    <2>5. Phase' = Phase BY <1>6, <2>1, <2>2, <2>4, PhaseKept DEF ClientHeld
    <2>6. Attested' = Attested \/ Attested' = Attested \ {r} BY <2>1, <2>3, <2>4, AttestedLess
    <2> QED BY <1>1, <1>6, <2>1, <2>5, <2>6 DEF ClientHeld
<1>7. ASSUME NEW a \in Actors, NEW status, NEW locked, status # "COMPLETED",
             sess[a].pc # "idle",
             task' = [task EXCEPT ![sess[a].rec].status = status, ![sess[a].rec].locked = locked]
      PROVE  \/ Attested' = Attested
             \/ Attested' = Attested \ {sess[a].rec}
    <2> DEFINE r == sess[a].rec
               y == [task[r] EXCEPT !.status = status, !.locked = locked]
    <2>1. r \in Records /\ task[r] \in TaskRow BY <1>7, AtWork
    <2>2. y.status # "COMPLETED" /\ y.result = task[r].result BY <1>7, <2>1 DEF TaskRow
    <2>3. task' = [task EXCEPT ![r] = y] BY <1>7, <2>1 DEF TypeOK
    <2> HIDE DEF y
    <2> QED BY <2>1, <2>2, <2>3, AttestedLess
<1>8. ASSUME NEW c \in Clients, ClientBlock(c) PROVE Goal
    <2> DEFINE r == sess[c].rec
               y == [task[r] EXCEPT !.status = "BLOCKED"]
    <2>1. c \in Actors /\ r \in Records /\ task[r] \in TaskRow BY <1>0, <1>8, AtWork DEF ClientBlock
    <2>2. y.status # "COMPLETED" /\ y.result = task[r].result BY <2>1 DEF TaskRow
    <2>3. task' = [task EXCEPT ![r] = y] BY <1>8 DEF ClientBlock
    <2> HIDE DEF y
    <2>4. Attested' = Attested \/ Attested' = Attested \ {r} BY <2>1, <2>2, <2>3, AttestedLess
    <2> QED BY <1>3, <1>8, <2>1, <2>4 DEF ClientBlock
<1>9. ASSUME NEW w \in Workers, WorkerBlock(w) PROVE Goal
    BY <1>0, <1>3, <1>7, <1>9 DEF WorkerBlock
<1>10. ASSUME NEW w \in Workers, WorkerError(w) PROVE Goal
    <2>1. StatusAfterError(task[sess[w].rec].attempts, MaxAttempts) # "COMPLETED"
        BY DEF StatusAfterError
    <2> QED BY <1>0, <1>3, <1>7, <1>10, <2>1 DEF WorkerError
<1>11. ASSUME NEW c \in Clients, FlushConflict(c) PROVE Goal
    BY <1>0, <1>3, <1>4, <1>11 DEF FlushConflict
<1>12. ASSUME NEW a \in Actors, Crash(a) PROVE Goal
    BY <1>3, <1>4, <1>12 DEF Crash
<1>13. ASSUME NEW r \in Records, ~hold[r], UNCHANGED <<hold, copy, Attested>>,
              \/ Phase' = Phase
              \/ Phase[r] = "LIVE" /\ Phase' = [Phase EXCEPT ![r] = "CLEARED"]
       PROVE  Goal
    BY <1>13 DEF Contract!ContractNext, Contract!Clear
<1>14. ASSUME NEW c \in Clients, ClientAllowed(c) PROVE Goal
    <2> DEFINE x == [sess[c] EXCEPT !.pc = "flush", !.wrote = TRUE,
                                    !.seen = {s \in Stores : Exists(outbox[sess[c].rec][s])}]
    <2>1. c \in Actors /\ sess[c].rec \in Records BY <1>0, <1>14, AtWork DEF ClientAllowed
    <2>2. x.rec = sess[c].rec /\ x.wrote BY <2>1 DEF TypeOK, Session
    <2>3. sess' = [sess EXCEPT ![c] = x] BY <1>14 DEF ClientAllowed
    <2> HIDE DEF x
    <2>4. \/ Phase' = Phase
          \/ /\ Phase[sess[c].rec] = "LIVE"
             /\ Phase' = [Phase EXCEPT ![sess[c].rec] = "CLEARED"]
        BY <1>14, <2>1, <2>2, <2>3, PhaseCleared DEF ClientAllowed
    <2> QED BY <1>4, <1>13, <1>14, <2>1, <2>4 DEF ClientAllowed
<1>15. ASSUME NEW w \in Workers, WorkerAllowed(w) PROVE Goal
    <2> DEFINE r == sess[w].rec
               x == [sess[w] EXCEPT !.pc = "flush", !.wrote = (record[r] = "LIVE")]
    <2>1. w \in Actors /\ r \in Records BY <1>0, <1>15, AtWork DEF WorkerAllowed
    <2>2. x.rec = r /\ x.wrote = (record[r] = "LIVE") BY <2>1 DEF TypeOK, Session
    <2>3. sess' = [sess EXCEPT ![w] = x] BY <1>15 DEF WorkerAllowed
    <2>4. ~sess[w].wrote BY <1>15, <2>1 DEF WorkerAllowed, WorkIsCleared, AtDelete
    <2> HIDE DEF x
    <2>5. CASE record[r] = "LIVE"
        <3>1. x.wrote /\ x.rec = r BY <2>2, <2>5
        <3>2. UNCHANGED <<record, hold, task, copy>> /\ ~hold[r]
            BY <1>15, <2>5 DEF WorkerAllowed
        <3>3. \/ Phase' = Phase
              \/ Phase[r] = "LIVE" /\ Phase' = [Phase EXCEPT ![r] = "CLEARED"]
            BY <2>1, <2>3, <3>1, <3>2, PhaseCleared
        <3> QED BY <1>4, <1>13, <2>1, <3>2, <3>3
    <2>6. CASE record[r] # "LIVE"
        <3>1. ~x.wrote BY <2>2, <2>6
        <3>2. UNCHANGED <<record, hold, task, copy>> BY <1>15 DEF WorkerAllowed
        <3>3. Phase' = Phase BY <2>1, <2>3, <2>4, <3>1, <3>2, PhaseKept
        <3> QED BY <1>4, <3>2, <3>3
    <2> QED BY <2>5, <2>6
<1>16. ASSUME NEW w \in Workers, NEW r \in Records, Claim(w, r) PROVE Goal
    <2> DEFINE x == [Idle EXCEPT !.pc = "govern", !.rec = r, !.loaded = "RUNNING"]
               y == [task[r] EXCEPT !.status = "RUNNING", !.locked = TRUE,
                                    !.attempts = Bump(@, MaxAttempts)]
    <2>1. ~x.wrote BY DEF Idle
    <2>2. ~sess[w].wrote BY <1>0, <1>16 DEF Claim, WorkIsCleared, AtDelete
    <2>3. sess' = [sess EXCEPT ![w] = x] /\ task' = [task EXCEPT ![r] = y] BY <1>16 DEF Claim
    <2>4. task[r] \in TaskRow BY DEF TypeOK
    <2>5. y.status # "COMPLETED" /\ y.result = task[r].result BY <2>4 DEF TaskRow
    <2> HIDE DEF x, y
    <2>6. Phase' = Phase BY <1>0, <1>16, <2>1, <2>2, <2>3, PhaseKept DEF Claim
    <2>7. Attested' = Attested \/ Attested' = Attested \ {r} BY <2>3, <2>5, AttestedLess
    <2> QED BY <1>1, <1>16, <2>6, <2>7 DEF Claim
<1>17. ASSUME NEW a \in Actors, NEW old \in SUBSET Stores, Flush(a, old) PROVE Goal
    <2> DEFINE missing == Stores \ Found(a)
               x == [sess[a] EXCEPT
                       !.pc    = "dispatch",
                       !.new   = missing,
                       !.tries = [s \in Stores |-> IF s \in old
                                                   THEN outbox[sess[a].rec][s].attempts ELSE 0],
                       !.got   = [s \in Stores |-> IF s \in missing \cup old
                                                   THEN "todo" ELSE "none"]]
    <2>1. x.rec = sess[a].rec /\ x.wrote = sess[a].wrote BY DEF TypeOK, Session
    <2>2. sess' = [sess EXCEPT ![a] = x] BY <1>17 DEF Flush
    <2> HIDE DEF x
    <2>3. Phase' = Phase BY <1>17, <2>1, <2>2, PhaseKept DEF Flush
    <2> QED BY <1>4, <1>17, <2>3 DEF Flush
(* A handler at its dispatch works on a record that is not LIVE.           *)
<1>18. ASSUME NEW a \in Actors, sess[a].pc = "dispatch"
       PROVE  sess[a].rec \in Records /\ Phase[sess[a].rec] # "LIVE"
    <2>1. sess[a].rec \in Records BY <1>18, AtWork
    <2>2. sess[a].wrote \/ record[sess[a].rec] = "DELETED"
        BY <1>18 DEF WorkIsCleared, AtDelete
    <2>3. sess[a].wrote => ~NoDeleteUnderWay(sess[a].rec) BY DEF NoDeleteUnderWay
    <2> QED BY <2>1, <2>2, <2>3 DEF Phase
<1>19. ASSUME NEW a \in Actors, NEW s \in Stores, NEW got \in {"ok", "fail"},
              sess' = [sess EXCEPT ![a].got[s] = got], UNCHANGED record
       PROVE  Phase' = Phase
    <2> DEFINE x == [sess[a] EXCEPT !.got[s] = got]
    <2>1. x.rec = sess[a].rec /\ x.wrote = sess[a].wrote BY DEF TypeOK, Session
    <2>2. sess' = [sess EXCEPT ![a] = x] BY <1>19
    <2> HIDE DEF x
    <2> QED BY <1>19, <2>1, <2>2, PhaseKept
<1>20. ASSUME NEW a \in Actors, NEW s \in Stores, DeliverOK(a, s) \/ DeliverFail(a, s)
       PROVE  Goal
    <2> DEFINE r == sess[a].rec
    <2>1. r \in Records /\ Phase[r] # "LIVE" BY <1>18, <1>20 DEF DeliverOK, DeliverFail
    <2>2. Phase' = Phase BY <1>19, <1>20 DEF DeliverOK, DeliverFail
    <2>3. Attested' = Attested /\ hold' = hold BY <1>4, <1>20 DEF DeliverOK, DeliverFail
    <2>4. \/ copy' = copy
          \/ /\ copy[r][s] # "ABSENT"
             /\ \E after \in {"DOOMED", "ABSENT"} : copy' = [copy EXCEPT ![r][s] = after]
        <3>1. CASE DeliverOK(a, s)
            <4>1. PICK after \in {"DOOMED", "ABSENT"} :
                    copy' = [copy EXCEPT ![r][s] = IF @ = "ABSENT" THEN @ ELSE after]
                BY <3>1 DEF DeliverOK
            <4>2. CASE copy[r][s] = "ABSENT" BY <2>1, <4>1, <4>2 DEF TypeOK
            <4>3. CASE copy[r][s] # "ABSENT" BY <4>1, <4>3
            <4> QED BY <4>2, <4>3
        <3>2. CASE DeliverFail(a, s)
            <4>1. PICK after \in {copy[r][s], "ABSENT"} : copy' = [copy EXCEPT ![r][s] = after]
                BY <3>2 DEF DeliverFail
            <4>2. CASE after = copy[r][s] BY <2>1, <4>1, <4>2 DEF TypeOK
            <4>3. CASE after # copy[r][s] BY <4>1, <4>3
            <4> QED BY <4>2, <4>3
        <3> QED BY <1>20, <3>1, <3>2
    <2> QED BY <2>1, <2>2, <2>3, <2>4 DEF Contract!ContractNext, Contract!Tell
<1>21. ASSUME NEW r \in Records, NEW s \in Stores, StoreSettles(r, s) PROVE Goal
    <2>1. Phase' = Phase BY <1>21 DEF StoreSettles, Phase, NoDeleteUnderWay
    <2> QED BY <1>4, <1>21, <2>1 DEF StoreSettles, Contract!ContractNext, Contract!Settle
<1>22. ASSUME NEW r \in Records, HoldChange(r) PROVE Goal
    <2>1. Phase' = Phase BY <1>22 DEF HoldChange, Phase, NoDeleteUnderWay
    <2> QED BY <1>4, <1>22, <2>1 DEF HoldChange, Contract!ContractNext, Contract!HoldOrRelease
<1>23. ASSUME NEW a \in Actors, NEW answered \in BOOLEAN, Commit(a, answered) PROVE Goal
    <2> DEFINE r == sess[a].rec
    <2>1. r \in Records /\ Phase[r] # "LIVE" BY <1>18, <1>23 DEF Commit
    <2>2. record' = [record EXCEPT ![r] = "DELETED"]
        BY <1>23, <2>1 DEF Commit, WorkIsCleared, AtDelete, TypeOK
    <2>3. \A b \in Actors : b # a => sess'[b] = sess[b] BY <1>23 DEF Commit, Close, TypeOK
    <2>4. ~sess'[a].wrote BY <1>23 DEF Commit, Close, Idle, TypeOK
    <2>5. Phase' = [Phase EXCEPT ![r] = "DELETED"]
        <3>1. ASSUME NEW q \in Records, q # r PROVE Phase'[q] = Phase[q]
            <4>1. NoDeleteUnderWay(q)' = NoDeleteUnderWay(q)
                BY <2>3, <2>4, <3>1 DEF NoDeleteUnderWay
            <4>2. record'[q] = record[q] BY <2>1, <2>2, <3>1 DEF TypeOK
            <4> QED BY <4>1, <4>2 DEF Phase
        <3>2. record'[r] = "DELETED" BY <2>1, <2>2 DEF TypeOK
        <3>3. Phase'[r] = "DELETED" BY <2>1, <3>2 DEF Phase
        <3>4. Phase' \in [Records -> {"LIVE", "CLEARED", "DELETED"}] BY DEF Phase
        <3> QED BY <2>1, <3>1, <3>3, <3>4, PhaseType
    <2>6. UNCHANGED <<hold, copy>> BY <1>23 DEF Commit
    <2>7. Attested' \in {Attested, Attested \ {r}, Attested \cup {r}}
        <3>1. \A q \in Records : q # r => task'[q] = task[q] BY <1>23, <2>1 DEF Commit, TypeOK
        <3>2. \A q \in Records : q # r => (q \in Attested' <=> q \in Attested)
            BY <3>1 DEF Attested
        <3>3. Attested \subseteq Records /\ Attested' \subseteq Records BY DEF Attested
        <3> QED BY <2>1, <3>2, <3>3
    <2>8. r \in Attested' => Contract!Gone(r)
        BY <2>1, <2>6 DEF Attested, CompletedMeansErased, Erased, Contract!Gone
    <2>9. CASE Phase[r] = "CLEARED"
        <3>1. r \notin Attested BY <2>1, <2>9, LiveUnattested
        <3>2. Attested' = Attested \/ (Contract!Gone(r) /\ Attested' = Attested \cup {r})
            BY <2>7, <2>8, <3>1
        <3> QED BY <2>1, <2>5, <2>6, <2>9, <3>2 DEF Contract!ContractNext, Contract!Finish
    <2>10. CASE Phase[r] = "DELETED"
        <3>1. Phase' = Phase BY <2>1, <2>5, <2>10, PhaseType
        <3>2. CASE Attested' = Attested \cup {r}
            <4>1. Contract!Gone(r) BY <2>8, <3>2
            <4> QED BY <2>1, <2>6, <2>10, <3>1, <3>2, <4>1
                    DEF Contract!ContractNext, Contract!Attest
        <3>3. CASE Attested' # Attested \cup {r} BY <1>1, <2>1, <2>6, <2>7, <3>1, <3>3
        <3> QED BY <3>2, <3>3
    <2> QED BY <2>1, <2>9, <2>10, PhaseType
<1>24. CASE UNCHANGED vars BY <1>24 DEF vars, Phase, NoDeleteUnderWay, Attested
<1> HIDE DEF Goal
<1> QED
    BY <1>5, <1>6, <1>8, <1>9, <1>10, <1>11, <1>12, <1>14, <1>15, <1>16, <1>17, <1>20, <1>21,
       <1>22, <1>23, <1>24
    DEF Next, ClientStep, WorkerStep, DeleteStep

(* Nothing is cleared or attested at the beginning.                        *)
LEMMA ContractStart == Init => Contract!ContractInit /\ WorkIsCleared
<1> SUFFICES ASSUME Init PROVE Contract!ContractInit /\ WorkIsCleared OBVIOUS
<1>1. \A a \in Actors : sess[a].pc = "idle" /\ ~sess[a].wrote BY DEF Init, Idle
<1>2. Phase = [r \in Records |-> "LIVE"] BY <1>1 DEF Init, Phase, NoDeleteUnderWay
<1>3. Attested = {} BY DEF Init, Attested, NoTask
<1>4. WorkIsCleared BY <1>1 DEF WorkIsCleared, AtDelete
<1> QED BY <1>2, <1>3, <1>4 DEF Init, Contract!ContractInit

LEMMA WorkInvariant == Spec => []WorkIsCleared
BY ContractStart, WorkStep, TypeCorrect, PTL DEF Spec

(* The protocol of requests, workers, leases, retries and crashes          *)
(* implements the contract of a deletion (deletion.py delete_one,          *)
(* scheduler.py run_once, jobs.py dispatch_and_verify).                    *)
THEOREM ForgetRefinesContract == Spec => ContractKept
<1>1. Init => Contract!ContractInit BY ContractStart
<1>2. ForgetInv /\ ForgetInv' /\ WorkIsCleared /\ [Next]_vars
        => [Contract!ContractNext]_(Contract!contractVars)
    BY ContractStep
<1> QED
    BY <1>1, <1>2, ForgetInvariant, WorkInvariant, PTL
    DEF Spec, ContractKept, Contract!ContractSpec
=============================================================================
