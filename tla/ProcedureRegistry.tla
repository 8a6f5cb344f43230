------------------------- MODULE ProcedureRegistry --------------------------
(***************************************************************************)
(* Procedures and the skills that run them: register, review, approve,     *)
(* activate, deprecate or disable, roll back (memory/procedural.py).  A    *)
(* skill that is ACTIVE and enabled is executed (skills/runtime.py).       *)
(***************************************************************************)
EXTENDS Naturals, StatusSessions

CONSTANTS
  Procedures, Skills,   \* the definitions, all versions
  ProcedureOf,          \* [Skills -> Procedures]: skill_definition.procedure_id
  RollbackTo,           \* rollback_procedure_id, rollback_skill_id; a row itself: none
  Requests              \* concurrent requests

Rows    == Procedures \cup Skills
Rollout == {"SHADOW", "CANARY", "ACTIVE"}
Status  == {"NONE", "DRAFT", "CANDIDATE", "REVIEWING", "APPROVED", "DEPRECATED"} \cup Rollout

VARIABLES
  status,     \* status of every definition
  approved,   \* the definitions with approved_by
  tested,     \* the procedures whose test manifest has passed (part of the version)
  enabled,    \* the skills with enabled set
  calm,       \* history: no two requests have overlapped
  job         \* what each request has loaded and planned: statuses, and the
              \* skills whose enabled it changes

vars == <<status, approved, tested, enabled, calm, job>>

NoJob == [op |-> "idle", plan |-> NoPlan(Rows), on |-> {}, off |-> {}]

(* Every definition and request has its type.                              *)
TypeOK ==
  /\ status \in [Rows -> Status]
  /\ approved \subseteq Rows /\ tested \subseteq Procedures /\ enabled \subseteq Skills
  /\ calm \in BOOLEAN
  /\ job \in [Requests -> [op : {"idle", "status", "approve"},
                           plan : [Rows -> Status \cup {"KEEP"}],
                           on : SUBSET Skills, off : SUBSET Skills]]

Init ==
  /\ status = [r \in Rows |-> "NONE"]
  /\ approved = {} /\ enabled = {} /\ calm = TRUE
  /\ tested \in SUBSET Procedures
  /\ job = [j \in Requests |-> NoJob]

(* register: what reflection generates is a CANDIDATE; a skill refers to a *)
(* registered procedure.                                                   *)
RegisterProcedure(p) ==
  /\ status[p] = "NONE"
  /\ \E s \in {"DRAFT", "CANDIDATE"} : status' = [status EXCEPT ![p] = s]
  /\ UNCHANGED <<approved, tested, enabled, calm, job>>

RegisterSkill(s) ==
  /\ status[s] = "NONE" /\ status[ProcedureOf[s]] # "NONE"
  /\ status' = [status EXCEPT ![s] = "DRAFT"]
  /\ UNCHANGED <<approved, tested, enabled, calm, job>>

(* Only columns whose value changes are written: an enabled that already   *)
(* has the wanted value in the loaded row is not.                          *)
Plan(j, op, plan, on, off) ==
  /\ job[j].op = "idle"
  /\ job' = [job EXCEPT ![j] = [op |-> op, plan |-> plan, on |-> on \ enabled, off |-> off \cap enabled]]
  /\ calm' = (calm /\ Alone(job, j))
  /\ UNCHANGED <<status, approved, tested, enabled>>

To(j, r, s) == Plan(j, "status", Writes(status, {}, "", {r}, s), {}, {})

SubmitReview(j, r) == status[r] \in {"DRAFT", "CANDIDATE"} /\ To(j, r, "REVIEWING")

(* Variant: the test manifest is not looked at.                            *)
ApproveUntested(j, p) ==
  /\ status[p] = "REVIEWING"
  /\ Plan(j, "approve", Writes(status, {}, "", {p}, "APPROVED"), {}, {})

ApproveProcedure(j, p) ==
  /\ status[p] = "REVIEWING" /\ p \in tested
  /\ Plan(j, "approve", Writes(status, {}, "", {p}, "APPROVED"), {}, {})

ApproveSkill(j, s) ==
  /\ status[s] = "REVIEWING" /\ status[ProcedureOf[s]] \in {"APPROVED"} \cup Rollout
  /\ Plan(j, "approve", Writes(status, {}, "", {s}, "APPROVED"), {}, {})

(* activate: SHADOW, CANARY or ACTIVE; other ACTIVE versions stay.         *)
ActivateProcedure(j, p, to) ==
  /\ status[p] \in {"APPROVED", "SHADOW", "CANARY"} /\ p \in approved /\ to \in Rollout
  /\ To(j, p, to)

ActivateSkill(j, s, to) ==
  /\ status[s] \in {"APPROVED", "SHADOW", "CANARY"} /\ s \in approved /\ to \in Rollout
  /\ status[ProcedureOf[s]] = "ACTIVE"
  /\ Plan(j, "status", Writes(status, {}, "", {s}, to),
          IF to = "ACTIVE" THEN {s} ELSE {}, IF to = "ACTIVE" THEN {} ELSE {s})

Deprecate(j, p) == status[p] \in Rollout /\ To(j, p, "DEPRECATED")

(* disable: from any status.                                               *)
Disable(j, s) ==
  /\ status[s] # "NONE"
  /\ Plan(j, "status", Writes(status, {}, "", {s}, "DEPRECATED"), {}, {s})

(* rollback: the current one is in any status, and any other version that  *)
(* is ACTIVE stays so.                                                     *)
RollbackProcedure(j, p) ==
  /\ status[p] # "NONE" /\ RollbackTo[p] # p
  /\ RollbackTo[p] \in approved /\ status[RollbackTo[p]] \in {"APPROVED", "DEPRECATED", "ACTIVE"}
  /\ Plan(j, "status", Writes(status, {p}, "DEPRECATED", {RollbackTo[p]}, "ACTIVE"), {}, {})

RollbackSkill(j, s) ==
  LET t == RollbackTo[s] IN
  /\ status[s] # "NONE" /\ t # s
  /\ t \in approved /\ status[ProcedureOf[t]] = "ACTIVE"
  /\ Plan(j, "status", Writes(status, {s}, "DEPRECATED", {t}, "ACTIVE"), {t}, {s})

Commit(j) ==
  /\ job[j].op # "idle"
  /\ status' = Applied(status, job[j].plan)
  /\ approved' = IF job[j].op = "approve"
                 THEN approved \cup {r \in Rows : job[j].plan[r] = "APPROVED"} ELSE approved
  /\ enabled' = (enabled \ job[j].off) \cup job[j].on
  /\ job' = [job EXCEPT ![j] = NoJob]
  /\ UNCHANGED <<tested, calm>>

Abandon(j) ==
  /\ job[j].op # "idle"
  /\ job' = [job EXCEPT ![j] = NoJob]
  /\ UNCHANGED <<status, approved, tested, enabled, calm>>

Handle(j) ==
  \/ \E r \in Rows : SubmitReview(j, r)
  \/ \E p \in Procedures :
       \/ ApproveProcedure(j, p) \/ Deprecate(j, p) \/ RollbackProcedure(j, p)
       \/ \E to \in Rollout : ActivateProcedure(j, p, to)
  \/ \E s \in Skills :
       \/ ApproveSkill(j, s) \/ Disable(j, s) \/ RollbackSkill(j, s)
       \/ \E to \in Rollout : ActivateSkill(j, s, to)
  \/ Commit(j) \/ Abandon(j)

Next ==
  \/ \E p \in Procedures : RegisterProcedure(p)
  \/ \E s \in Skills : RegisterSkill(s)
  \/ \E j \in Requests : Handle(j)

Spec == Init /\ [][Next]_vars

(* match of the skill executor.                                            *)
Executable(s) == status[s] = "ACTIVE" /\ s \in enabled /\ s \in approved

----------------------------------------------------------------------------
(* Properties.                                                             *)

(* What is executed was reviewed, and so was the procedure it runs, with   *)
(* passed tests: whatever overlaps, and however often it is rolled back.   *)
ExecutableWasReviewed ==
  \A s \in Skills : Executable(s) => ProcedureOf[s] \in approved \cap tested

(* As long as requests do not overlap, a skill becomes executable only     *)
(* while its procedure is ACTIVE.  (It stays so when the procedure is      *)
(* deprecated: match does not look at the procedure again.)                *)
CalmExecutableRunsActive ==
  [][\A s \in Skills : calm /\ ~Executable(s) /\ Executable(s)' => status[ProcedureOf[s]] = "ACTIVE"]_vars

(* As long as requests do not overlap, enabled says that the skill is      *)
(* ACTIVE.  Overlapping ones may leave a DEPRECATED skill enabled.         *)
CalmEnabledIsActive == calm => enabled = {s \in Skills : status[s] = "ACTIVE"}

(* The invariants of procedures and skills (procedural.py, runtime.py).    *)
ProceduresSafe == TypeOK /\ ExecutableWasReviewed /\ CalmEnabledIsActive
=============================================================================
