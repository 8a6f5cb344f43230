-------------------------- MODULE PolicyGovernance --------------------------
(***************************************************************************)
(* Governance policies and the access they decide: versions of a policy    *)
(* code are reviewed, approved, activated and bound to a role; a request   *)
(* of that role is allowed by the policies in force (governance/policy.py, *)
(* authorization.py).                                                      *)
(*                                                                         *)
(* One role that holds the permission, and one request that every policy   *)
(* matches.  Handlers plan on the statuses they load (StatusSessions).     *)
(***************************************************************************)
EXTENDS Naturals, FiniteSets, StatusSessions

CONSTANTS
  Policies,   \* policy rows
  CodeOf,     \* the policy code of each
  DenyCodes,  \* codes whose policies have the effect DENY
  Requests    \* concurrent requests

Status == {"NONE", "DRAFT", "REVIEW", "APPROVED", "ACTIVE", "SUPERSEDED"}

VARIABLES
  status,     \* governance_policy.status
  approved,   \* rows with approved_by
  bound,      \* policies with a binding to the role
  calm,       \* history: no two requests have overlapped
  job         \* what each request has planned

vars == <<status, approved, bound, calm, job>>

NoJob == [op |-> "idle", plan |-> NoPlan(Policies), policy |-> "none"]

(* Every policy and request has its type.                                  *)
TypeOK ==
  /\ status \in [Policies -> Status]
  /\ approved \in SUBSET Policies /\ bound \in SUBSET Policies /\ calm \in BOOLEAN
  /\ job \in [Requests -> [op : {"idle", "submit", "approve", "activate", "bind"},
                           plan : [Policies -> Status \cup {"KEEP"}],
                           policy : Policies \cup {"none"}]]

Init ==
  /\ status = [p \in Policies |-> "NONE"]
  /\ approved = {} /\ bound = {} /\ calm = TRUE
  /\ job = [j \in Requests |-> NoJob]

Active(code) == {p \in Policies : CodeOf[p] = code /\ status[p] = "ACTIVE"}

(* decide, for a role with the permission: active, approved and bound      *)
(* policies count, one DENY denies, no ALLOW denies.                       *)
InForce == {p \in bound \cap approved : status[p] = "ACTIVE"}
Allowed == /\ InForce # {}
           /\ \A p \in InForce : CodeOf[p] \notin DenyCodes

Create(p) ==
  /\ status[p] = "NONE"
  /\ status' = [status EXCEPT ![p] = "DRAFT"]
  /\ UNCHANGED <<approved, bound, calm, job>>

Plan(j, op, plan, p) ==
  /\ job[j].op = "idle"
  /\ job' = [job EXCEPT ![j] = [op |-> op, plan |-> plan, policy |-> p]]
  /\ calm' = (calm /\ Alone(job, j))
  /\ UNCHANGED <<status, approved, bound>>

SubmitReview(j, p) ==
  /\ status[p] = "DRAFT"
  /\ Plan(j, "submit", Writes(status, {}, "", {p}, "REVIEW"), p)

Approve(j, p) ==
  /\ status[p] = "REVIEW"
  /\ Plan(j, "approve", Writes(status, {}, "", {p}, "APPROVED"), p)

(* activate supersedes every active version of the code; the binding of    *)
(* the replaced one stays with it.                                         *)
Activate(j, p) ==
  /\ status[p] = "APPROVED" /\ p \in approved
  /\ Plan(j, "activate", Writes(status, Active(CodeOf[p]), "SUPERSEDED", {p}, "ACTIVE"), p)

(* bind: of an ACTIVE policy.                                              *)
Bind(j, p) ==
  /\ status[p] = "ACTIVE"
  /\ Plan(j, "bind", NoPlan(Policies), p)

Commit(j) ==
  LET p == job[j].policy IN
  /\ job[j].op # "idle"
  /\ status' = Applied(status, job[j].plan)
  /\ approved' = IF job[j].op = "approve" THEN approved \cup {p} ELSE approved
  /\ bound' = IF job[j].op = "bind" THEN bound \cup {p} ELSE bound
  /\ job' = [job EXCEPT ![j] = NoJob]
  /\ UNCHANGED calm

Abandon(j) ==
  /\ job[j].op # "idle"
  /\ job' = [job EXCEPT ![j] = NoJob]
  /\ UNCHANGED <<status, approved, bound, calm>>

Handle(j) ==
  \/ \E p \in Policies : SubmitReview(j, p) \/ Approve(j, p) \/ Activate(j, p) \/ Bind(j, p)
  \/ Commit(j) \/ Abandon(j)

Next == (\E p \in Policies : Create(p)) \/ (\E j \in Requests : Handle(j))

Spec == Init /\ [][Next]_vars

----------------------------------------------------------------------------
(* Properties.                                                             *)

(* As long as requests do not overlap, the review of a policy changes      *)
(* nobody's access: only an activation or a binding does.  A review step   *)
(* that was overtaken writes its status over ACTIVE, and takes a DENY out  *)
(* of force.                                                               *)
CalmReviewKeepsAccess ==
  [][calm /\ Allowed' # Allowed =>
       \E j \in Requests : job[j].op \in {"activate", "bind"} /\ job'[j].op = "idle"]_vars

(* As long as requests do not overlap a code has one active version.       *)
CalmOneActive ==
  calm => \A p, q \in Policies :
    CodeOf[p] = CodeOf[q] /\ {status[p], status[q]} = {"ACTIVE"} => p = q
=============================================================================
