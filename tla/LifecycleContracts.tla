------------------------- MODULE LifecycleContracts -------------------------
(***************************************************************************)
(* What the memory lifecycle tables share: the statuses of a lifecycle     *)
(* task, of an outbox event and of a derived copy, and the decisions that  *)
(* CrossStoreDeleteCoordinator.dispatch_and_verify (memory/jobs.py) takes  *)
(* from them.  No state lives here; MemoryForget, MemoryPurge and          *)
(* MemoryMaintain build their steps from these operators.                  *)
(*                                                                         *)
(* A definition commented "Variant" is the code with one plausible bug; no *)
(* specification uses it.  It stands before the definition it would        *)
(* replace, to show that the properties tell the two apart.                *)
(***************************************************************************)
EXTENDS Naturals, FiniteSets

(* LifecycleTaskStatus and OutboxStatus (memory/contracts.py), with NONE   *)
(* for a row that does not exist.                                          *)
TaskStatus   == {"NONE", "PENDING", "RUNNING", "RETRY", "COMPLETED", "BLOCKED", "FAILED"}
OutboxStatus == {"NONE", "PENDING", "RETRY", "COMPLETED", "FAILED"}

(* A derived copy of a record in a store.  DOOMED: the store acknowledged  *)
(* the delete and still answers exists() with true, the case for which     *)
(* verify() asks again after delete() has been confirmed.                  *)
CopyState == {"PRESENT", "DOOMED", "ABSENT"}

Settled == {"COMPLETED", "BLOCKED", "FAILED"}

(* The counters are compared with max_attempts and with nothing else, so   *)
(* they are kept up to that bound.                                         *)
Bump(n, max) == IF n >= max THEN max ELSE n + 1

(* Variant: a lease that is never reclaimed.                               *)
DueNoReclaim(task) == task.status \in {"PENDING", "RETRY"}

(* due_task_query: PENDING or RETRY whose deadline has passed, or RUNNING  *)
(* with a lease older than five minutes.  Deadlines are left out: one may  *)
(* have passed at any step.  A RUNNING row whose locked_at is NULL         *)
(* compares as unknown and is never selected.                              *)
Due(task) == \/ task.status \in {"PENDING", "RETRY"}
             \/ task.status = "RUNNING" /\ task.locked

Open(event) == event.status \in {"PENDING", "RETRY"}

NoEvent == [status |-> "NONE", attempts |-> 0]

Exists(event) == event.status # "NONE"

(* Variant: no budget of attempts.                                         *)
EventAfterNoBudget(tries, ok, max) ==
  [status |-> IF ok THEN "COMPLETED" ELSE "RETRY", attempts |-> tries + 1]

(* The row dispatch_and_verify leaves for an event that had been tried     *)
(* `tries' times before and was tried once more.                           *)
EventAfter(tries, ok, max) ==
  [status   |-> IF ok THEN "COMPLETED"
                ELSE IF tries + 1 >= max THEN "FAILED" ELSE "RETRY",
   attempts |-> Bump(tries, max)]

(* What the flush makes of it: a RETRY that was read and assigned again is *)
(* no change of the column, so the status another handler has committed    *)
(* meanwhile stays.  An event read as RETRY had been tried before.         *)
Written(row, after) ==
  IF after.status = "RETRY" /\ after.attempts > 1 /\ Exists(row)
  THEN [after EXCEPT !.status = row.status] ELSE after

(* Variants: verification, open events or hard failures are not looked at. *)
StatusAfterUnverified(events, verified) ==
  IF \E e \in events : e.status = "FAILED" THEN "FAILED"
  ELSE IF \E e \in events : Open(e) THEN "RETRY" ELSE "COMPLETED"
StatusAfterOpen(events, verified) ==
  IF \E e \in events : e.status = "FAILED" THEN "FAILED"
  ELSE IF ~verified THEN "RETRY" ELSE "COMPLETED"
StatusAfterFailed(events, verified) ==
  IF (\E e \in events : Open(e)) \/ ~verified THEN "RETRY" ELSE "COMPLETED"

(* The status dispatch_and_verify gives the task once its events are       *)
(* written: hard failures first, then anything pending or unverified.      *)
StatusAfter(events, verified) ==
  IF \E e \in events : e.status = "FAILED" THEN "FAILED"
  ELSE IF (\E e \in events : Open(e)) \/ ~verified THEN "RETRY"
  ELSE "COMPLETED"

(* The worker's except branch: the attempt counter decides.                *)
StatusAfterError(attempts, max) == IF attempts >= max THEN "FAILED" ELSE "RETRY"
=============================================================================
