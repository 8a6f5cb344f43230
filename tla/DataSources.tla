---------------------------- MODULE DataSources -----------------------------
(***************************************************************************)
(* The versions of one governed data source and of the credential          *)
(* reference they use: evidence, review, publication, activation, rotation *)
(* and rollback (preproduction/datasource.py, governance/secrets.py).  A   *)
(* rotation commits three times: the new credential, the old one retired,  *)
(* the new version of the source; the process may stop after each.         *)
(***************************************************************************)
EXTENDS Naturals, FiniteSets, StatusSessions

CONSTANTS
  MaxSources,    \* bound: versions of the source
  MaxCreds,      \* bound: versions of the credential reference
  Checks,      \* kinds of evidence a submission needs: connection, schema, profile
  Requests       \* concurrent requests

ASSUME SourcesAssumption == MaxSources \in Nat \ {0} /\ MaxCreds \in Nat \ {0}

Sources == 1 .. MaxSources
Creds   == 1 .. MaxCreds
SourceStatus == {"NONE", "DRAFT", "REVIEW", "APPROVED", "PUBLISHED", "ACTIVE",
                 "SUPERSEDED", "DISABLED", "ROLLED_BACK", "ARCHIVED"}
CredStatus == {"NONE", "ACTIVE", "SUPERSEDED", "DISABLED", "REVOKED"}

VARIABLES
  source,     \* lifecycle_status of each version
  approved,   \* the versions with approved_by
  ref,        \* credential_ref_id of each version
  evidence,   \* the PASS entries of connection_options_json
  cred,       \* credential_reference.status
  ended,      \* history: a credential has been disabled or revoked
  calm,       \* history: no two requests have overlapped
  job         \* what each request has loaded and planned

vars == <<source, approved, ref, evidence, cred, ended, calm, job>>

NoJob == [op |-> "idle", plan |-> NoPlan(Sources), s |-> 1, ev |-> {}, signed |-> FALSE,
          old |-> 1, new |-> 1]

(* Every source, credential and request has its type.                      *)
TypeOK ==
  /\ source \in [Sources -> SourceStatus]
  /\ approved \subseteq Sources
  /\ ref \in [Sources -> Creds]
  /\ evidence \in [Sources -> SUBSET Checks]
  /\ cred \in [Creds -> CredStatus]
  /\ ended \in BOOLEAN /\ calm \in BOOLEAN
  /\ job \in [Requests ->
       [op : {"idle", "inspect", "status", "approve", "create", "rotate", "rollback",
              "retire/rotate", "retire/rollback", "clone/rotate", "clone/rollback"},
        plan : [Sources -> SourceStatus \cup {"KEEP"}], s : Sources,
        ev : SUBSET Checks, signed : BOOLEAN, old : Creds, new : Creds]]

Init ==
  /\ source = [s \in Sources |-> "NONE"] /\ approved = {}
  /\ ref = [s \in Sources |-> 1] /\ evidence = [s \in Sources |-> {}]
  /\ cred = [c \in Creds |-> IF c = 1 THEN "ACTIVE" ELSE "NONE"]
  /\ ended = FALSE /\ calm = TRUE
  /\ job = [j \in Requests |-> NoJob]

Active  == {s \in Sources : source[s] = "ACTIVE"}
Fresh(s) == source[s] = "NONE" /\ \A t \in Sources : t < s => source[t] # "NONE"
NextVersion == Cardinality({c \in Creds : cred[c] # "NONE"}) + 1

Plan(j, rec) ==
  /\ job[j].op = "idle"
  /\ job' = [job EXCEPT ![j] = rec]
  /\ calm' = (calm /\ Alone(job, j))
  /\ UNCHANGED <<source, approved, ref, evidence, cred, ended>>

Change(j, op, s, plan) == Plan(j, [NoJob EXCEPT !.op = op, !.s = s, !.plan = plan])

Move(j, s, from, to) ==
  source[s] \in from /\ Change(j, "status", s, Writes(source, {}, "", {s}, to))

(* create: a DRAFT with a reference that is ACTIVE.                        *)
Create(s, c) ==
  /\ Fresh(s) /\ cred[c] = "ACTIVE"
  /\ source' = [source EXCEPT ![s] = "DRAFT"]
  /\ ref' = [ref EXCEPT ![s] = c]
  /\ UNCHANGED <<approved, evidence, cred, ended, calm, job>>

(* test_connection, discover_schema, profile: the secret is resolved, the  *)
(* database is asked, and the options are written back as loaded plus the  *)
(* new entry - in any status, and over what others have added meanwhile.   *)
(* A failed test keeps the entry of an earlier one.                        *)
Inspect(j, s, k) ==
  /\ source[s] # "NONE" /\ cred[ref[s]] = "ACTIVE"
  /\ Plan(j, [NoJob EXCEPT !.op = "inspect", !.s = s, !.ev = evidence[s] \cup {k}])

Submit(j, s) == evidence[s] = Checks /\ Move(j, s, {"DRAFT"}, "REVIEW")

Approve(j, s) ==
  source[s] = "REVIEW" /\ Change(j, "approve", s, Writes(source, {}, "", {s}, "APPROVED"))

Publish(j, s) == Move(j, s, {"APPROVED"}, "PUBLISHED")

(* activate: with an ACTIVE reference; every other active version of the   *)
(* name is superseded.                                                     *)
Activate(j, s) ==
  /\ source[s] = "PUBLISHED" /\ cred[ref[s]] = "ACTIVE"
  /\ Change(j, "status", s, Writes(source, Active, "SUPERSEDED", {s}, "ACTIVE"))

Disable(j, s) == Move(j, s, {"ACTIVE", "PUBLISHED", "APPROVED"}, "DISABLED")
Archive(j, s) == Move(j, s, {"DRAFT", "DISABLED", "ROLLED_BACK", "SUPERSEDED"}, "ARCHIVED")

(* rotate of a reference: only an ACTIVE one, to the next version.         *)
Rotation(s, op) ==
  [NoJob EXCEPT !.op = op, !.s = s, !.old = ref[s], !.new = NextVersion]

Rotate(j, s) ==
  /\ source[s] # "NONE" /\ cred[ref[s]] = "ACTIVE" /\ NextVersion \in Creds
  /\ Plan(j, Rotation(s, "rotate"))

(* rollback of the active version to an approved one: the reference of the *)
(* active version is rotated, and the target is copied as active version.  *)
Rollback(j, s, t) ==
  /\ source[s] = "ACTIVE"
  /\ source[t] \in {"SUPERSEDED", "DISABLED", "ROLLED_BACK"} /\ t \in approved
  /\ cred[ref[s]] = "ACTIVE" /\ NextVersion \in Creds
  /\ Plan(j, [Rotation(s, "rollback") EXCEPT
       !.plan = Writes(source, {}, "", {s}, "ROLLED_BACK"), !.ev = evidence[t],
       !.signed = t \in approved])

(* Variant: the old reference is retired before the new one exists.        *)
RotateCreateLate(j) ==
  /\ job[j].op \in {"rotate", "rollback"} /\ cred[job[j].new] = "NONE"
  /\ cred' = [cred EXCEPT ![job[j].old] = "SUPERSEDED"]
  /\ job' = [job EXCEPT ![j].op = IF @ = "rotate" THEN "retire/rotate" ELSE "retire/rollback"]
  /\ UNCHANGED <<source, approved, ref, evidence, ended, calm>>

(* First commit of a rotation: the new reference, if its version is still  *)
(* free (uq_credential_reference_version).                                 *)
RotateCreate(j) ==
  /\ job[j].op \in {"rotate", "rollback"} /\ cred[job[j].new] = "NONE"
  /\ cred' = [cred EXCEPT ![job[j].new] = "ACTIVE"]
  /\ job' = [job EXCEPT ![j].op = IF @ = "rotate" THEN "retire/rotate" ELSE "retire/rollback"]
  /\ UNCHANGED <<source, approved, ref, evidence, ended, calm>>

(* Second commit: the old reference, whatever it is by now.                *)
RotateRetire(j) ==
  /\ job[j].op \in {"retire/rotate", "retire/rollback"}
  /\ cred' = [cred EXCEPT ![job[j].old] = "SUPERSEDED"]
  /\ job' = [job EXCEPT ![j].op = IF @ = "retire/rotate" THEN "clone/rotate" ELSE "clone/rollback"]
  /\ UNCHANGED <<source, approved, ref, evidence, ended, calm>>

(* Last commit: the new version of the source - a DRAFT without evidence   *)
(* after a rotation, an active copy of the target, its approver included,    *)
(* after a rollback.                                                       *)
Clone(j, s) ==
  /\ job[j].op \in {"clone/rotate", "clone/rollback"} /\ Fresh(s)
  /\ LET back == job[j].op = "clone/rollback" IN
     /\ source' = [Applied(source, job[j].plan) EXCEPT ![s] = IF back THEN "ACTIVE" ELSE "DRAFT"]
     /\ approved' = IF job[j].signed THEN approved \cup {s} ELSE approved
     /\ evidence' = [evidence EXCEPT ![s] = job[j].ev]
  /\ ref' = [ref EXCEPT ![s] = job[j].new]
  /\ job' = [job EXCEPT ![j] = NoJob]
  /\ UNCHANGED <<cred, ended, calm>>

Commit(j) ==
  /\ job[j].op \in {"inspect", "status", "approve"}
  /\ source' = Applied(source, job[j].plan)
  /\ approved' = IF job[j].op = "approve" THEN approved \cup {job[j].s} ELSE approved
  /\ evidence' = IF job[j].op = "inspect" THEN [evidence EXCEPT ![job[j].s] = job[j].ev] ELSE evidence
  /\ job' = [job EXCEPT ![j] = NoJob]
  /\ UNCHANGED <<ref, cred, ended, calm>>

(* The request fails, or its process stops, between any two commits.       *)
Abandon(j) ==
  /\ job[j].op # "idle"
  /\ job' = [job EXCEPT ![j] = NoJob]
  /\ UNCHANGED <<source, approved, ref, evidence, cred, ended, calm>>

(* set_status: DISABLED or REVOKED, from any status.                       *)
EndCredential(c, to) ==
  /\ to \in {"DISABLED", "REVOKED"} /\ cred[c] \notin {"NONE", to}
  /\ cred' = [cred EXCEPT ![c] = to]
  /\ ended' = TRUE
  /\ UNCHANGED <<source, approved, ref, evidence, calm, job>>

Handle(j) ==
  \/ \E s \in Sources :
       \/ Submit(j, s) \/ Approve(j, s) \/ Publish(j, s) \/ Activate(j, s)
       \/ Disable(j, s) \/ Archive(j, s) \/ Rotate(j, s) \/ Clone(j, s)
       \/ \E k \in Checks : Inspect(j, s, k)
       \/ \E t \in Sources : Rollback(j, s, t)
  \/ RotateCreate(j) \/ RotateRetire(j) \/ Commit(j) \/ Abandon(j)

Next ==
  \/ \E s \in Sources, c \in Creds : Create(s, c)
  \/ \E c \in Creds, to \in CredStatus : EndCredential(c, to)
  \/ \E j \in Requests : Handle(j)

Spec == Init /\ [][Next]_vars

----------------------------------------------------------------------------
(* Properties.                                                             *)

(* An active version was approved, or is the copy of one that was: through *)
(* any chain of rotations, rollbacks and overlapping requests.             *)
ActiveWasApproved == Active \subseteq approved

(* A rotation never leaves the name without an ACTIVE reference, wherever  *)
(* it stops and however rotations overlap: only disabling or revoking does.*)
RotationLeavesNoGap == ended \/ \E c \in Creds : cred[c] = "ACTIVE"

(* As long as requests do not overlap, one version is active.              *)
CalmOneActive == calm => Cardinality(Active) <= 1

(* As long as requests do not overlap, nothing but a disabled version      *)
(* takes the last active one away: activations and rollbacks replace it.   *)
CalmActiveIsReplaced ==
  [][calm /\ Active # {} /\ Active' = {} => \E s \in Active : source'[s] = "DISABLED"]_vars

(* What no interleaving of handlers may break, and what holds as long as   *)
(* requests do not overlap (datasource.py, secrets.py).                    *)
SourcesSafe == TypeOK /\ ActiveWasApproved /\ RotationLeavesNoGap /\ CalmOneActive
=============================================================================
