---------------------------- MODULE SourceBindings ----------------------------
(***************************************************************************)
(* The releases that bind a scenario to its SQLBot data source             *)
(* (query_engines/sqlbot/source_binding.py): every process that starts     *)
(* installs the relations its code approves, in commits of its own, while  *)
(* processes of another release of the code start beside it; an            *)
(* administrator rolls back.  One scenario: releases of two share nothing. *)
(***************************************************************************)
EXTENDS Naturals, FiniteSetsExt

CONSTANTS
  MaxVersions,  \* bound: releases of the binding
  Codes,        \* releases of the code, each with the relations it approves
  Jobs          \* concurrent installations and rollbacks

VARIABLES
  status,    \* sqlbot_source_binding_release.status
  scope,     \* the relations in binding_json, by the code that approves them
  approved,  \* releases with approved_by
  job,       \* where each job is, and what it has loaded
  last,      \* history: the code whose installation returned last, if no job began since
  calm       \* history: no two jobs have overlapped

vars == <<status, scope, approved, job, last, calm>>

Versions == 1 .. MaxVersions
None == "none"
Idle == [at |-> "idle", code |-> None, v |-> 0, active |-> 0]

(* Every release and job has its type; version 0 stands for no row.        *)
TypeOK ==
  /\ status \in [Versions -> {"NONE", "DRAFT", "APPROVED", "ACTIVE", "SUPERSEDED"}]
  /\ scope \in [Versions -> Codes \cup {None}] /\ approved \subseteq Versions
  /\ job \in [Jobs -> [at : {"idle", "look", "count", "insert", "approve", "find", "activate"},
                       code : Codes \cup {None}, v : 0 .. MaxVersions + 1,
                       active : 0 .. MaxVersions]]
  /\ last \in Codes \cup {None} /\ calm \in BOOLEAN

Init ==
  /\ status = [v \in Versions |-> "NONE"] /\ scope = [v \in Versions |-> None]
  /\ approved = {} /\ job = [j \in Jobs |-> Idle] /\ last = None /\ calm = TRUE

(* active: at most one row, by uq_sqlbot_binding_single_active.            *)
Active == {v \in Versions : status[v] = "ACTIVE"}

Begin(j, code, step) ==
  /\ job[j].at = "idle"
  /\ job' = [job EXCEPT ![j] = [Idle EXCEPT !.at = step, !.code = code]]
  /\ last' = None
  /\ calm' = (calm /\ \A k \in Jobs : job[k].at = "idle")
  /\ UNCHANGED <<status, scope, approved>>

Install(j, code) == Begin(j, code, "look")

(* rollback: what is registered is what the code approves now.             *)
Rollback(j, code, target) == target \in approved /\ Begin(j, code, "count")

Return(j) == job' = [job EXCEPT ![j] = Idle] /\ last' = job[j].code

(* The active release has the relations of this code: nothing to do.       *)
Stands(j) ==
  /\ job[j].at = "look" /\ \E v \in Active : scope[v] = job[j].code
  /\ Return(j)
  /\ UNCHANGED <<status, scope, approved, calm>>

Differs(j) ==
  /\ job[j].at = "look" /\ \A v \in Active : scope[v] # job[j].code
  /\ job' = [job EXCEPT ![j].at = "count"]
  /\ UNCHANGED <<status, scope, approved, last, calm>>

(* register: the largest version, and the next one under its unique key.   *)
Count(j) ==
  /\ job[j].at = "count"
  /\ job' = [job EXCEPT ![j].at = "insert",
       ![j].v = 1 + Max({0} \cup {v \in Versions : status[v] # "NONE"})]
  /\ UNCHANGED <<status, scope, approved, last, calm>>

Insert(j) ==
  LET v == job[j].v IN
  /\ job[j].at = "insert" /\ v \in Versions /\ status[v] = "NONE"
  /\ status' = [status EXCEPT ![v] = "DRAFT"]
  /\ scope' = [scope EXCEPT ![v] = job[j].code]
  /\ job' = [job EXCEPT ![j].at = "approve"]
  /\ UNCHANGED <<approved, last, calm>>

Approve(j) ==
  /\ job[j].at = "approve"
  /\ status' = [status EXCEPT ![job[j].v] = "APPROVED"]
  /\ approved' = approved \cup {job[j].v}
  /\ job' = [job EXCEPT ![j].at = "find"]
  /\ UNCHANGED <<scope, last, calm>>

(* activate: the active release ...                                        *)
FindActive(j) ==
  /\ job[j].at = "find"
  /\ job' = [job EXCEPT ![j].at = "activate", ![j].active = Max({0} \cup Active)]
  /\ UNCHANGED <<status, scope, approved, last, calm>>

(* ... is superseded by this one, in one commit that the index refuses     *)
(* when another has become active since.                                   *)
Activate(j) ==
  /\ job[j].at = "activate" /\ Active \subseteq {job[j].active}
  /\ status' = [v \in Versions |-> IF v = job[j].v THEN "ACTIVE"
                                   ELSE IF v = job[j].active THEN "SUPERSEDED" ELSE status[v]]
  /\ Return(j)
  /\ UNCHANGED <<scope, approved, calm>>

(* A key or the index refuses a write, or the process stops.               *)
Stop(j) ==
  /\ job[j].at # "idle"
  /\ job' = [job EXCEPT ![j] = Idle]
  /\ UNCHANGED <<status, scope, approved, last, calm>>

Next ==
  \E j \in Jobs :
    \/ \E code \in Codes :
         \/ Install(j, code)
         \/ \E target \in Versions : Rollback(j, code, target)
    \/ Stands(j) \/ Differs(j) \/ Count(j) \/ Insert(j) \/ Approve(j)
    \/ FindActive(j) \/ Activate(j) \/ Stop(j)

Spec == Init /\ [][Next]_vars

----------------------------------------------------------------------------
(* Properties.                                                             *)

(* One release is active at most, and every release that ever was is       *)
(* approved, also when installations overlap or stop (activate).           *)
ActiveIsApproved ==
  /\ \A v, w \in Active : v = w
  /\ \A v \in Versions : status[v] \in {"ACTIVE", "SUPERSEDED"} => v \in approved

(* What an installation returned for is what is bound, unless jobs have    *)
(* overlapped (install_initial_source_bindings).                           *)
ReturnedIsBound == calm /\ last # None => \E v \in Active : scope[v] = last

BindingsSafe == TypeOK /\ ActiveIsApproved /\ ReturnedIsBound

(* A scenario that is bound stays bound, also when installations overlap   *)
(* or stop half-way: a question never finds it unbound (activate).         *)
StaysBound == [][Active # {} => Active' # {}]_vars
=============================================================================
