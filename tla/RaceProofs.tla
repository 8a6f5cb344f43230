----------------------------- MODULE RaceProofs -----------------------------
(***************************************************************************)
(* The safety of the races of MCPurgeRaces for any constants: concurrent   *)
(* purges of a user (Pair) and concurrent requests over several stores     *)
(* (Wide), of which one moves while the other stands still.  The theorems  *)
(* of PurgeProofs and ForgetProofs are cited through instances of these    *)
(* modules; the lemmas say that they speak of the same protocol.           *)
(***************************************************************************)
EXTENDS MCPurgeRaces, TLAPS

Pairs == INSTANCE PurgeProofs WITH
  Candidates <- {}, Clients <- PairClients, MaxAttempts <- 1,
  MaxCrashes <- 0, MaxRequests <- 2, MaxHolds <- 0, record <- pRecord,
  hold <- pHold, candidates <- pCandidates, task <- pTask,
  outbox <- pOutbox, copy <- pCopy, sess <- pSess, reply <- pReply,
  used <- pUsed

Deleting == INSTANCE ForgetProofs WITH
  Records <- WideRecords, Stores <- WideStores, AsyncStores <- WideAsync,
  Clients <- WideClients, Workers <- WideWorkers, MaxAttempts <- 1,
  record <- wRecord, hold <- wHold, task <- wTask, outbox <- wOutbox,
  copy <- wCopy, sess <- wSess, reply <- wReply, crashes <- wCrashes

----------------------------------------------------------------------------
(* Two purges of a user.                                                   *)

(* The assumption of PurgeProofs holds of the instance.                    *)
LEMMA PairsAssumed == Pairs!PurgeAssumption
  BY PurgeAssumption, PairAssumption DEF Pairs!PurgeAssumption

(* Pairs, which has the theorems, is Pair.                                 *)
LEMMA PairInit == Pair!Init <=> Pairs!Init
  BY Zenon
    DEF Pair!Init, Pair!Keys, Pair!NoTask, Pair!Resources, Pair!NoEvent, Pair!Actors,
        Pair!Idle, Pair!NoReply, Pair!NoResult, Pairs!Init, Pairs!Keys, Pairs!NoTask,
        Pairs!Resources, Pairs!NoEvent, Pairs!Actors, Pairs!Idle, Pairs!NoReply,
        Pairs!NoResult

LEMMA PairNext == Pair!Next <=> Pairs!Next
  BY Zenon
    DEF Pair!Next, Pair!Request, Pair!ClientReady, Pair!FlushConflict, Pair!ClientHeld,
        Pair!Keys, Pair!Claim, Pair!WorkerLoad, Pair!WorkerBlock, Pair!WorkerReady,
        Pair!WorkerError, Pair!WorkerHeld, Pair!Actors, Pair!Allowed, Pair!Resources,
        Pair!Flush, Pair!Deliver, Pair!Commit, Pair!Crash, Pair!HoldChange, Pair!Activity,
        Pair!Live, Pair!TaskFree, Pair!ErrorReply, Pair!NoTask, Pair!Idle, Pair!Bump,
        Pair!NoReply, Pair!Wanted, Pair!Exists, Pair!RecordsFree, Pair!Missing,
        Pair!Close, Pair!Wipe, Pair!Due, Pair!StatusAfterError, Pair!WritesTask,
        Pair!InsertedBy, Pair!Open, Pair!Rows, Pair!Verified, Pair!StatusAfter,
        Pair!InFlight, Pair!Payload, Pair!NoResult, Pair!EventAfter, Pair!Written, Pairs!Next,
        Pairs!Request, Pairs!ClientReady, Pairs!FlushConflict, Pairs!ClientHeld,
        Pairs!Keys, Pairs!Claim, Pairs!WorkerLoad, Pairs!WorkerBlock, Pairs!WorkerReady,
        Pairs!WorkerError, Pairs!WorkerHeld, Pairs!Actors, Pairs!Allowed, Pairs!Resources,
        Pairs!Flush, Pairs!Deliver, Pairs!Commit, Pairs!Crash, Pairs!HoldChange,
        Pairs!Activity, Pairs!Live, Pairs!TaskFree, Pairs!ErrorReply, Pairs!NoTask,
        Pairs!Idle, Pairs!Bump, Pairs!NoReply, Pairs!Wanted, Pairs!Exists,
        Pairs!RecordsFree, Pairs!Missing, Pairs!Close, Pairs!Wipe, Pairs!Due,
        Pairs!StatusAfterError, Pairs!WritesTask, Pairs!InsertedBy, Pairs!Open,
        Pairs!Rows, Pairs!Verified, Pairs!StatusAfter, Pairs!InFlight, Pairs!Payload,
        Pairs!NoResult, Pairs!EventAfter, Pairs!Written

LEMMA PairSafe == Pair!PurgeSafe <=> Pairs!PurgeSafe
  BY Zenon
    DEF Pair!PurgeSafe, Pair!TypeOK, Pair!CompletedMeansErased, Pair!UnbackedIsVisible,
        Pair!Keys, Pair!TaskRow, Pair!Resources, Pair!EventRow, Pair!Actors, Pair!Session,
        Pair!Reply, Pair!Erased, Pair!Unbacked, Pair!TaskStatus, Pair!Result,
        Pair!OutboxStatus, Pair!Exists, Pairs!PurgeSafe, Pairs!TypeOK,
        Pairs!CompletedMeansErased, Pairs!UnbackedIsVisible, Pairs!Keys, Pairs!TaskRow,
        Pairs!Resources, Pairs!EventRow, Pairs!Actors, Pairs!Session, Pairs!Reply,
        Pairs!Erased, Pairs!Unbacked, Pairs!TaskStatus, Pairs!Result, Pairs!OutboxStatus,
        Pairs!Exists

(* The races run the purges of the pair, or leave them where they are.     *)
LEMMA PairRuns == MCSpec => Pairs!Spec
<1>1. MCInit => Pairs!Init
  BY PairInit DEF MCInit
<1>2. [MCNext]_allVars => [Pairs!Next]_(Pairs!vars)
  BY PairNext DEF MCNext, allVars, PairVars, Pairs!vars
<1> QED
  BY <1>1, <1>2, PTL DEF MCSpec, Pairs!Spec

(* With two concurrent purges of a user a COMPLETED task has erased what   *)
(* it names, and a record without an event for Redis is visible            *)
(* (deletion.py purge_current_user).                                       *)
THEOREM PairedPurgesAreSafe == MCSpec => []PairPurgeSafe
<1>1. Pairs!Spec => []Pairs!PurgeSafe
  BY PairsAssumed, Pairs!PurgeIsSafe
<1>2. Pairs!PurgeSafe => PairPurgeSafe
  BY PairSafe DEF PairPurgeSafe
<1> QED
  BY <1>1, <1>2, PairRuns, PTL

(* With two concurrent purges a verified answer covers the records of the  *)
(* user, and no step passes a hold (deletion.py purge_current_user).       *)
THEOREM PairedPurgeSteps == MCSpec => PairPurgeSteps
<1>1. Pairs!VerifiedAnswerCoversUser => Pair!VerifiedAnswerCoversUser
  BY PTL
    DEF Pair!VerifiedAnswerCoversUser, Pair!Erased, Pair!vars,
        Pairs!VerifiedAnswerCoversUser, Pairs!Erased, Pairs!vars
<1>2. Pairs!HoldIsAFence => Pair!HoldIsAFence
  BY PTL
    DEF Pair!HoldIsAFence, Pair!NoDeleteUnderWay, Pair!Actors, Pair!vars,
        Pairs!HoldIsAFence, Pairs!NoDeleteUnderWay, Pairs!Actors, Pairs!vars
<1>3. Pairs!Spec => Pairs!VerifiedAnswerCoversUser
  BY PairsAssumed, Pairs!AnswersCover
<1>4. Pairs!Spec => Pairs!HoldIsAFence
  BY PairsAssumed, Pairs!HoldFences
<1> QED
  BY <1>1, <1>2, <1>3, <1>4, PairRuns, PTL DEF PairPurgeSteps

----------------------------------------------------------------------------
(* Requests and a worker over several stores.                              *)

(* Deleting, which has the theorems, is Wide.                              *)
LEMMA WideInit == Wide!Init <=> Deleting!Init
  BY Zenon
    DEF Wide!Init, Wide!NoTask, Wide!NoEvent, Wide!Actors, Wide!Idle, Wide!NoRecord,
        Deleting!Init, Deleting!NoTask, Deleting!NoEvent, Deleting!Actors, Deleting!Idle,
        Deleting!NoRecord

LEMMA WideNext == Wide!Next <=> Deleting!Next
  BY Zenon
    DEF Wide!Next, Wide!Request, Wide!ClientStep, Wide!Claim, Wide!WorkerStep,
        Wide!WorkerError, Wide!Actors, Wide!DeleteStep, Wide!Crash, Wide!StoreSettles,
        Wide!HoldChange, Wide!TaskLocked, Wide!NoTask, Wide!Idle, Wide!Bump,
        Wide!ClientHeld, Wide!ClientBlock, Wide!ClientAllowed, Wide!FlushConflict,
        Wide!Due, Wide!WorkerBlock, Wide!WorkerAllowed, Wide!StatusAfterError, Wide!Close,
        Wide!Flush, Wide!DeliverOK, Wide!DeliverFail, Wide!Commit, Wide!Working,
        Wide!NoRecord, Wide!Exists, Wide!RecordLocked, Wide!Found, Wide!Open, Wide!Rows,
        Wide!Verified, Wide!StatusAfter, Wide!EventAfter, Wide!Written, Deleting!Next, Deleting!Request,
        Deleting!ClientStep, Deleting!Claim, Deleting!WorkerStep, Deleting!WorkerError,
        Deleting!Actors, Deleting!DeleteStep, Deleting!Crash, Deleting!StoreSettles,
        Deleting!HoldChange, Deleting!TaskLocked, Deleting!NoTask, Deleting!Idle,
        Deleting!Bump, Deleting!ClientHeld, Deleting!ClientBlock, Deleting!ClientAllowed,
        Deleting!FlushConflict, Deleting!Due, Deleting!WorkerBlock,
        Deleting!WorkerAllowed, Deleting!StatusAfterError, Deleting!Close, Deleting!Flush,
        Deleting!DeliverOK, Deleting!DeliverFail, Deleting!Commit, Deleting!Working,
        Deleting!NoRecord, Deleting!Exists, Deleting!RecordLocked, Deleting!Found,
        Deleting!Open, Deleting!Rows, Deleting!Verified, Deleting!StatusAfter,
        Deleting!EventAfter, Deleting!Written

LEMMA WideErased == Wide!CompletedMeansErased <=> Deleting!CompletedMeansErased
  BY Zenon
    DEF Wide!CompletedMeansErased, Wide!Erased, Deleting!CompletedMeansErased,
        Deleting!Erased

LEMMA WideDelivered == Wide!CompletedMeansDelivered <=> Deleting!CompletedMeansDelivered
  BY Zenon
    DEF Wide!CompletedMeansDelivered, Deleting!CompletedMeansDelivered

LEMMA WideDurableOutbox == Wide!DeletedHasDurableOutbox <=> Deleting!DeletedHasDurableOutbox
  BY Zenon
    DEF Wide!DeletedHasDurableOutbox, Wide!Exists, Deleting!DeletedHasDurableOutbox,
        Deleting!Exists

(* The races run the requests of Wide, or leave them where they are.       *)
LEMMA WideRuns == MCSpec => Deleting!Spec
<1>1. MCInit => Deleting!Init
  BY WideInit DEF MCInit
<1>2. [MCNext]_allVars => [Deleting!Next]_(Deleting!vars)
  BY WideNext DEF MCNext, allVars, WideVars, Deleting!vars
<1> QED
  BY <1>1, <1>2, PTL DEF MCSpec, Deleting!Spec

(* With concurrent requests over any stores, COMPLETED means erased and    *)
(* delivered, and a deleted record has an event for each of the stores     *)
(* (deletion.py delete_one, jobs.py dispatch_and_verify).                  *)
THEOREM WideDeletionIsSafe == MCSpec => []WideDeletionPromise
<1>1. Deleting!ForgetAssumption
  BY PurgeAssumption, WideAssumption DEF Deleting!ForgetAssumption
<1>2. Deleting!Spec => []Deleting!CompletedMeansErased
  BY <1>1, Deleting!DeletionPromise
<1>3. Deleting!Spec => []Deleting!CompletedMeansDelivered
  BY <1>1, Deleting!DeliveryPromise
<1>4. Deleting!Spec => []Deleting!DeletedHasDurableOutbox
  BY <1>1, Deleting!DurableOutbox
<1>5. Deleting!CompletedMeansErased /\ Deleting!CompletedMeansDelivered
        /\ Deleting!DeletedHasDurableOutbox => WideDeletionPromise
  BY WideErased, WideDelivered, WideDurableOutbox DEF WideDeletionPromise
<1> QED
  BY <1>2, <1>3, <1>4, <1>5, WideRuns, PTL
=============================================================================
