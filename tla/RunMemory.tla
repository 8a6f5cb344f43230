------------------------------ MODULE RunMemory ------------------------------
(***************************************************************************)
(* What a run of the assistant leaves behind: the execution row of a skill,*)
(* the episode of the run and the working state of the session             *)
(* (skills/runtime.py, orchestration/memory_skills.py,                     *)
(* orchestration/composite.py, memory/episodic.py, memory/policy.py).      *)
(*                                                                         *)
(* A run id is the client's for a skill, which may repeat it, and fresh    *)
(* for a composite query.  The user may switch memory off, and an operator *)
(* the skill, at any moment.                                               *)
(***************************************************************************)
EXTENDS Naturals

CONSTANTS
  RunIds,
  Requests,     \* each makes one run
  MaxSwitches   \* bound: how often memory, or the skill, is switched

VARIABLES
  enabled,    \* the memory_enabled fact of the user
  skill,      \* the version of the skill that is ACTIVE, enabled and approved
  switches,
  execution,  \* skill_execution of each request
  episode,    \* the EPISODIC record of each run id, by its writer while it is live
  working,    \* writers of the session's working state
  off,        \* history: requests all of which memory was off
  job

vars == <<enabled, skill, switches, execution, episode, working, off, job>>

None == "none"
NoRow == [status |-> None, version |-> 0]
NoJob == [op |-> "idle", kind |-> None, run |-> None, remember |-> FALSE, version |-> 0]
Kinds == {"skill", "composite"}

(* Every row and request has its type.                                     *)
TypeOK ==
  /\ enabled \in BOOLEAN /\ skill \in 0 .. MaxSwitches + 1 /\ switches \in 0 .. MaxSwitches
  /\ execution \in [Requests -> [status : {None, "RUNNING", "COMPLETED", "FAILED"},
                                 version : 0 .. MaxSwitches + 1]]
  /\ episode \in [RunIds -> Requests \cup {None, "forgotten"}]
  /\ working \in SUBSET Requests /\ off \in SUBSET Requests
  /\ job \in [Requests -> [op : {"idle", "loaded", "matched", "running", "answered", "write",
                                 "remember", "end"},
                           kind : Kinds \cup {None}, run : RunIds \cup {None},
                           remember : BOOLEAN, version : 0 .. MaxSwitches + 1]]

Init ==
  /\ enabled \in BOOLEAN
  /\ skill = 1 /\ switches = 0
  /\ execution = [j \in Requests |-> NoRow]
  /\ episode = [r \in RunIds |-> None]
  /\ working = {} /\ off = {}
  /\ job = [j \in Requests |-> NoJob]

Goes(j, op) == job' = [job EXCEPT ![j].op = op]
Ends(j) == Goes(j, "end")

----------------------------------------------------------------------------
(* The policy is read from the newest live memory_enabled fact; a fact     *)
(* that is deleted or has expired leaves memory enabled.                   *)
SwitchMemory ==
  /\ switches < MaxSwitches
  /\ enabled' = ~enabled /\ switches' = switches + 1
  /\ off' = IF enabled' THEN {} ELSE off
  /\ UNCHANGED <<skill, execution, episode, working, job>>

(* activate, disable and rollback of the registry.                         *)
SwitchSkill(v) ==
  /\ switches < MaxSwitches /\ v # skill
  /\ skill' = v /\ switches' = switches + 1
  /\ UNCHANGED <<enabled, execution, episode, working, off, job>>

(* The record of an episode is deleted or archived.                        *)
ForgetEpisode(r) ==
  /\ episode[r] \in Requests
  /\ episode' = [episode EXCEPT ![r] = "forgotten"]
  /\ UNCHANGED <<enabled, skill, switches, execution, working, off, job>>

----------------------------------------------------------------------------
(* Authorization, the match of the skill and the context of the memory,    *)
(* with the policy at that moment.                                         *)
LoadContext(j, kind, r) ==
  /\ job[j].op = "idle"
  /\ kind = "skill" => skill # 0
  /\ kind = "composite" => \A i \in Requests : job[i].run # r        \* uuid
  /\ \A i \in Requests : job[i].kind = "composite" => job[i].run # r
  /\ job' = [job EXCEPT ![j] = [NoJob EXCEPT
       !.op = "loaded", !.kind = kind, !.run = r, !.remember = enabled]]
  /\ off' = IF enabled THEN off ELSE off \cup {j}
  /\ UNCHANGED <<enabled, skill, switches, execution, episode, working>>

(* SkillExecutor.execute matches again.                                    *)
Match(j) ==
  /\ job[j].op = "loaded" /\ job[j].kind = "skill" /\ skill # 0
  /\ job' = [job EXCEPT ![j].op = "matched", ![j].version = skill]
  /\ UNCHANGED <<enabled, skill, switches, execution, episode, working, off>>

Begin(j) ==
  /\ job[j].op = "matched"
  /\ execution' = [execution EXCEPT ![j] = [status |-> "RUNNING", version |-> job[j].version]]
  /\ Goes(j, "running")
  /\ UNCHANGED <<enabled, skill, switches, episode, working, off>>

(* The handler of the skill has computed its output.                       *)
Complete(j) ==
  /\ job[j].op = "running"
  /\ execution' = [execution EXCEPT ![j].status = "COMPLETED"]
  /\ Goes(j, "answered")
  /\ UNCHANGED <<enabled, skill, switches, episode, working, off>>

(* The data and knowledge parts of a composite query, the response and its *)
(* audit row.                                                              *)
Compose(j) ==
  /\ job[j].op = "loaded" /\ job[j].kind = "composite"
  /\ Goes(j, "answered")
  /\ UNCHANGED <<enabled, skill, switches, execution, episode, working, off>>

(* Variant: a skill remembers whatever the policy says.                    *)
ReadNoPolicy(j) ==
  /\ job[j].op = "answered"
  /\ Goes(j, "write")
  /\ UNCHANGED <<enabled, skill, switches, execution, episode, working, off>>

(* The policy is read again; the working state of a composite query goes   *)
(* by this reading, that of a skill by the one of its context.             *)
ReadPolicy(j) ==
  LET remember == IF job[j].kind = "composite" THEN enabled ELSE job[j].remember IN
  /\ job[j].op = "answered"
  /\ job' = [job EXCEPT ![j].remember = remember,
                        ![j].op = IF enabled THEN "write" ELSE "remember"]
  /\ UNCHANGED <<enabled, skill, switches, execution, episode, working, off>>

(* record_success finds the episode of an earlier run with this id, or     *)
(* commits one; the key on duplicate_hash fails the second of two at once, *)
(* and any that finds a record that is no longer live (Fail).              *)
WriteEpisode(j) ==
  LET r == job[j].run IN
  /\ job[j].op = "write" /\ episode[r] # "forgotten"
  /\ episode' = IF episode[r] = None THEN [episode EXCEPT ![r] = j] ELSE episode
  /\ Goes(j, "remember")
  /\ UNCHANGED <<enabled, skill, switches, execution, working, off>>

(* The working state, if there is a session and Redis answers, and the     *)
(* answer.                                                                 *)
SaveWorking(j, stored) ==
  /\ job[j].op = "remember"
  /\ stored => job[j].remember
  /\ working' = IF stored THEN working \cup {j} ELSE working
  /\ Ends(j)
  /\ UNCHANGED <<enabled, skill, switches, execution, episode, off>>

(* An exception: a row that could still be written says FAILED.  One that  *)
(* the database raised leaves the session unusable and the row as it is,   *)
(* and so does the end of the process.                                     *)
Fail(j, written) ==
  /\ job[j].op \notin {"idle", "end"}
  /\ written => job[j].kind = "skill" /\ job[j].op \in {"running", "answered"}
  /\ execution' = IF written THEN [execution EXCEPT ![j].status = "FAILED"] ELSE execution
  /\ Ends(j)
  /\ UNCHANGED <<enabled, skill, switches, episode, working, off>>

Next ==
  \/ SwitchMemory
  \/ \E v \in 0 .. MaxSwitches + 1 : SwitchSkill(v)
  \/ \E r \in RunIds : ForgetEpisode(r)
  \/ \E j \in Requests :
       \/ \E kind \in Kinds, r \in RunIds : LoadContext(j, kind, r)
       \/ Match(j) \/ Begin(j) \/ Complete(j)
       \/ Compose(j)
       \/ ReadPolicy(j) \/ WriteEpisode(j)
       \/ \E stored \in BOOLEAN : SaveWorking(j, stored)
       \/ \E written \in BOOLEAN : Fail(j, written)

Spec == Init /\ [][Next]_vars

----------------------------------------------------------------------------
(* Properties.                                                             *)

(* A run all of which memory was off leaves neither an episode nor a       *)
(* working state, though the policy is read at three places                *)
(* (MemoryContextLoader, _write_episode, CompositeQueryOrchestrator).      *)
OffLeavesNothing ==
  \A j \in off : j \notin working /\ \A r \in RunIds : episode[r] # j

(* What a skill remembers is a run that was recorded as completed: no      *)
(* failure after the episode rewrites the execution row, and no episode    *)
(* comes from a run that failed (SkillExecutor.execute).                   *)
RememberedRunsCompleted ==
  \A j \in Requests :
    job[j].kind = "skill" /\ (j \in working \/ \E r \in RunIds : episode[r] = j)
      => execution[j].status = "COMPLETED"

RunMemorySafe == TypeOK /\ OffLeavesNothing /\ RememberedRunsCompleted
=============================================================================
