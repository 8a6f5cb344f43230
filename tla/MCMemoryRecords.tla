-------------------------- MODULE MCMemoryRecords ---------------------------
(* The memory of a user for TLC: facts and episodes, maintenance, the      *)
(* working keys, the context of a conversation, and what runs leave behind.*)
(* They share no state here, so a behaviour moves one and keeps the rest.  *)
EXTENDS MemoryFacts, FiniteSets, TLC

CONSTANTS
  Kept, Tasks, Workers, MaxAttempts,     \* of MemoryMaintain
  Users, Scenarios, Charging, Ranges,    \* of Conversation
  RunIds, MaxSwitches                    \* of RunMemory

(* The bounds are numbers, and what stands for no value is none.           *)
ASSUME MemoryAssumption ==
  /\ MaxAttempts \in Nat /\ MaxSwitches \in Nat
  /\ "none" \notin Users /\ {"none", "forgotten"} \cap Sessions = {}

VARIABLES focus, mRec, mCopies, mTask, mEvent, mJob,
          wKey, wRegistry, wOrphaned, wJob,
          cBinding, cState, cRun, cWork, cSaved, cForgotten, cCalm, cJob,
          rEnabled, rSkill, rSwitches, rExecution, rEpisode, rWorking, rOff, rJob

Upkeep == INSTANCE MemoryMaintain WITH
  Records <- Kept, Tasks <- Tasks, Workers <- Workers,
  MaxAttempts <- MaxAttempts, rec <- mRec, copies <- mCopies,
  task <- mTask, event <- mEvent, job <- mJob

Working == INSTANCE WorkingMemory WITH
  Sessions <- Kept, States <- Values, Requests <- Sessions, key <- wKey,
  registry <- wRegistry, orphaned <- wOrphaned, job <- wJob

Talk == INSTANCE Conversation WITH
  Users <- Users, Scenarios <- Scenarios,
  Charging <- Charging, Metrics <- Values, Ranges <- Ranges,
  Requests <- Sessions, binding <- cBinding, state <- cState, run <- cRun,
  work <- cWork, saved <- cSaved, forgotten <- cForgotten, calm <- cCalm,
  job <- cJob

Runs == INSTANCE RunMemory WITH
  RunIds <- RunIds, Requests <- Sessions, MaxSwitches <- MaxSwitches,
  enabled <- rEnabled, skill <- rSkill, switches <- rSwitches,
  execution <- rExecution, episode <- rEpisode, working <- rWorking,
  off <- rOff, job <- rJob

UpkeepVars == <<mRec, mCopies, mTask, mEvent, mJob>>
WorkingVars == <<wKey, wRegistry, wOrphaned, wJob>>
TalkVars == <<cBinding, cState, cRun, cWork, cSaved, cForgotten, cCalm, cJob>>
RunsVars == <<rEnabled, rSkill, rSwitches, rExecution, rEpisode, rWorking, rOff, rJob>>

RecordSymmetry ==
  UNION {Permutations(Candidates), Permutations(Values), Permutations(Sessions)}

MCInit ==
  /\ focus \in {"facts", "maintain", "working", "talk", "runs"}
  /\ Init
  /\ Upkeep!Init
  /\ Working!Init
  /\ Talk!Init
  /\ Runs!Init
  /\ focus # "talk" => cState = Talk!NoState
  /\ focus # "runs" => rEnabled

MCNext ==
  /\ UNCHANGED focus
  /\ \/ /\ focus = "facts" /\ Next
        /\ UNCHANGED <<UpkeepVars, WorkingVars, TalkVars, RunsVars>>
     \/ /\ focus = "maintain" /\ Upkeep!Next
        /\ UNCHANGED <<vars, WorkingVars, TalkVars, RunsVars>>
     \/ /\ focus = "working" /\ Working!Next
        /\ UNCHANGED <<vars, UpkeepVars, TalkVars, RunsVars>>
     \/ /\ focus = "talk" /\ Talk!Next
        /\ UNCHANGED <<vars, UpkeepVars, WorkingVars, RunsVars>>
     \/ /\ focus = "runs" /\ Runs!Next
        /\ UNCHANGED <<vars, UpkeepVars, WorkingVars, TalkVars>>

allVars == <<focus, vars, UpkeepVars, WorkingVars, TalkVars, RunsVars>>
MCSpec == MCInit /\ [][MCNext]_allVars

(* Bounds of exploration: the records are versions of the fact or episodes *)
(* and not both, at most two of them, and one session ages them at a time  *)
(* (two workers that overlap: MemoryMaintain).                             *)
FactBounds ==
  /\ Cardinality(Stored) <= 2 /\ (Stored \subseteq Versions \/ Stored \subseteq Episodes)
  /\ Cardinality({j \in Sessions : job[j].op = "maintain"}) <= 1

----------------------------------------------------------------------------
(* Of the components that have not the focus nothing changes, so each      *)
(* invariant is asked of the one that moves.                               *)

(* Maintenance never drops the copy of a record that can be recalled, and  *)
(* a COMPLETED task has dropped every copy it wrote an event for           *)
(* (scheduler.py run_once, jobs.py dispatch_and_verify).                   *)
MaintainSafe == focus = "maintain" => Upkeep!MaintainSafe

(* A purge finds every working key, but for three losses that the module   *)
(* names (working.py, deletion.py).                                        *)
WorkingSafe == focus = "working" => Working!WorkingSafe

(* The context of a conversation stays with its owner, and one that was    *)
(* cleared is not used again (scenario_services.py, chatbi/memory.py).     *)
ConversationSafe == focus = "talk" => Talk!ConversationSafe

(* A run that began and ended with memory off leaves nothing in it, and    *)
(* what a skill remembers was completed (skills/runtime.py).               *)
RunMemorySafe == focus = "runs" => Runs!RunMemorySafe
=============================================================================
