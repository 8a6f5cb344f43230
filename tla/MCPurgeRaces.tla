---------------------------- MODULE MCPurgeRaces ----------------------------
(* Three instances for TLC, one of which moves: a purge that a worker      *)
(* takes over, with a crash and a hold that changes; Pair, two concurrent  *)
(* purges of the user; and Wide, two requests and a worker that delete one *)
(* record from two stores.  The purges have two records, so that one takes *)
(* two decisions; they are interchangeable.                                *)
EXTENDS MemoryPurge, TLC

CONSTANTS PairClients, WideRecords, WideStores, WideAsync, WideClients,
          WideWorkers

ASSUME PairAssumption == PairClients \cap Workers = {}

ASSUME WideAssumption ==
  /\ WideAsync \subseteq WideStores
  /\ WideClients \cap WideWorkers = {}

VARIABLES focus, pRecord, pHold, pCandidates, pTask, pOutbox, pCopy, pSess,
                 pReply, pUsed,
                 wRecord, wHold, wTask, wOutbox, wCopy, wSess, wReply,
                 wCrashes

Pair == INSTANCE MemoryPurge WITH
  Candidates <- {}, Clients <- PairClients, MaxAttempts <- 1,
  MaxCrashes <- 0, MaxRequests <- 2, MaxHolds <- 0, record <- pRecord,
  hold <- pHold, candidates <- pCandidates, task <- pTask,
  outbox <- pOutbox, copy <- pCopy, sess <- pSess, reply <- pReply,
  used <- pUsed

Wide == INSTANCE MemoryForget WITH
  Records <- WideRecords, Stores <- WideStores, AsyncStores <- WideAsync,
  Clients <- WideClients, Workers <- WideWorkers, MaxAttempts <- 1,
  record <- wRecord, hold <- wHold, task <- wTask, outbox <- wOutbox,
  copy <- wCopy, sess <- wSess, reply <- wReply, crashes <- wCrashes

PairVars == <<pRecord, pHold, pCandidates, pTask, pOutbox, pCopy, pSess,
              pReply, pUsed>>
WideVars == <<wRecord, wHold, wTask, wOutbox, wCopy, wSess, wReply,
              wCrashes>>

(* The instances that stand still are in a state that no permutation       *)
(* changes, so the clients of both can be exchanged together.              *)
Swap(S) == CHOOSE p \in Permutations(S) : \A x \in S : p[x] # x
ActorSymmetry == Permutations(Records) \cup {Swap(PairClients) @@ Swap(WideClients)}

MCInit ==
  /\ focus \in {"worker", "purges", "deletions"}
  /\ Init
  /\ Pair!Init
  /\ Wide!Init
  /\ focus # "worker" => hold = [r \in Records |-> FALSE]
  /\ focus # "purges" => pHold = [r \in Records |-> FALSE]
  /\ focus # "deletions" => wHold = [r \in WideRecords |-> FALSE]

MCNext ==
  /\ UNCHANGED focus
  /\ \/ /\ focus = "worker" /\ Next /\ UNCHANGED <<PairVars, WideVars>>
     \/ /\ focus = "purges" /\ Pair!Next /\ UNCHANGED <<vars, WideVars>>
     \/ /\ focus = "deletions" /\ Wide!Next /\ UNCHANGED <<vars, PairVars>>

allVars == <<focus, vars, PairVars, WideVars>>
MCSpec == MCInit /\ [][MCNext]_allVars

----------------------------------------------------------------------------
(* With two concurrent purges of a user: a COMPLETED task has erased what  *)
(* it names, and a record without an event for Redis is visible            *)
(* (deletion.py purge_current_user).                                       *)
PairPurgeSafe == focus = "purges" => Pair!PurgeSafe

(* With two concurrent purges too, a verified answer covers the records of *)
(* the user and no step passes a hold.                                     *)
PairPurgeSteps == Pair!VerifiedAnswerCoversUser /\ Pair!HoldIsAFence

(* With concurrent requests over two stores: COMPLETED means erased and    *)
(* delivered, and a deleted record has an event for each of the stores     *)
(* (deletion.py delete_one, jobs.py dispatch_and_verify).                  *)
WideDeletionPromise ==
  focus = "deletions" =>
    Wide!CompletedMeansErased /\ Wide!CompletedMeansDelivered /\ Wide!DeletedHasDurableOutbox
=============================================================================
