--------------------------- MODULE GovernedRelease --------------------------
(***************************************************************************)
(* The releases of one governed object in one environment: review,         *)
(* approval, activation and rollback (governance/release.py).              *)
(***************************************************************************)
EXTENDS Naturals, FiniteSets, StatusSessions

CONSTANTS
  MaxReleases,   \* bound: releases of the object, copies included
  Requests       \* concurrent requests

Releases == 1 .. MaxReleases
Status   == {"NONE", "DRAFT", "REVIEW", "APPROVED", "ACTIVE", "SUPERSEDED", "ROLLED_BACK"}

VARIABLES
  status,     \* platform_release.status
  artifact,   \* platform_release.artifact_hash, named by the release created with it
  approved,   \* history: the releases a reviewer has approved
  calm,       \* history: no two requests have overlapped
  job         \* what each request has planned; copy: the artifact of a row to insert

vars == <<status, artifact, approved, calm, job>>

NoJob == [op |-> "idle", plan |-> NoPlan(Releases), copy |-> 0]

(* Every release and request has its type.                                 *)
TypeOK ==
  /\ status \in [Releases -> Status]
  /\ artifact \in [Releases -> 0 .. MaxReleases]
  /\ approved \subseteq Releases /\ calm \in BOOLEAN
  /\ job \in [Requests -> [op : {"idle", "submit", "approve", "activate", "rollback"},
                           plan : [Releases -> Status \cup {"KEEP"}],
                           copy : 0 .. MaxReleases]]

Init ==
  /\ status = [r \in Releases |-> "NONE"]
  /\ artifact = [r \in Releases |-> 0]
  /\ approved = {} /\ calm = TRUE
  /\ job = [j \in Requests |-> NoJob]

Active == {r \in Releases : status[r] = "ACTIVE"}

(* The row an insert takes (release_id is a fresh uuid).                   *)
Fresh(r) == status[r] = "NONE" /\ \A s \in Releases : s < r => status[s] # "NONE"

Create(r) ==
  /\ Fresh(r)
  /\ status' = [status EXCEPT ![r] = "DRAFT"]
  /\ artifact' = [artifact EXCEPT ![r] = r]
  /\ UNCHANGED <<approved, calm, job>>

Plan(j, op, plan, copy) ==
  /\ job[j].op = "idle"
  /\ job' = [job EXCEPT ![j] = [op |-> op, plan |-> plan, copy |-> copy]]
  /\ calm' = (calm /\ Alone(job, j))
  /\ UNCHANGED <<status, artifact, approved>>

SubmitReview(j, r) ==
  /\ status[r] = "DRAFT"
  /\ Plan(j, "submit", Writes(status, {}, "", {r}, "REVIEW"), 0)

Approve(j, r) ==
  /\ status[r] = "REVIEW"
  /\ Plan(j, "approve", Writes(status, {}, "", {r}, "APPROVED"), 0)

(* activate: of an APPROVED release outside production; of the active ones *)
(* the one with the latest activated_at is superseded - the clocks of two  *)
(* requests decide which that is when overlapping ones have left two.      *)
Activate(j, r) ==
  /\ status[r] = "APPROVED"
  /\ IF Active = {} THEN Plan(j, "activate", Writes(status, {}, "", {r}, "ACTIVE"), 0)
     ELSE \E c \in Active :
            Plan(j, "activate", Writes(status, {c}, "SUPERSEDED", {r}, "ACTIVE"), 0)

(* Variant: any other release may be the target of a rollback.             *)
RollbackAny(j, c, t) ==
  /\ status[c] = "ACTIVE" /\ status[t] \notin {"NONE", "ACTIVE"}
  /\ Plan(j, "rollback", Writes(status, {}, "", {c}, "ROLLED_BACK"), artifact[t])

(* rollback: the target keeps its row; a copy of its artifact is inserted  *)
(* as the active release.                                                  *)
Rollback(j, c, t) ==
  /\ status[c] = "ACTIVE" /\ status[t] \in {"SUPERSEDED", "APPROVED", "ROLLED_BACK"}
  /\ Plan(j, "rollback", Writes(status, {}, "", {c}, "ROLLED_BACK"), artifact[t])

(* Variant: the active release is retired in a commit of its own, and the  *)
(* copy is lost with the process.                                          *)
CommitHalf(j) ==
  /\ job[j].op # "idle"
  /\ status' = Applied(status, job[j].plan)
  /\ approved' = approved \cup {r \in Releases : job[j].plan[r] = "APPROVED"}
  /\ job' = [job EXCEPT ![j] = NoJob]
  /\ UNCHANGED <<artifact, calm>>

(* The statuses, the copy and the audit record in one commit.              *)
Commit(j) ==
  /\ job[j].op # "idle"
  /\ IF job[j].copy = 0
     THEN status' = Applied(status, job[j].plan) /\ UNCHANGED artifact
     ELSE \E r \in Releases :
            /\ Fresh(r)
            /\ status' = [Applied(status, job[j].plan) EXCEPT ![r] = "ACTIVE"]
            /\ artifact' = [artifact EXCEPT ![r] = job[j].copy]
  /\ approved' = approved \cup {r \in Releases : job[j].plan[r] = "APPROVED"}
  /\ job' = [job EXCEPT ![j] = NoJob]
  /\ UNCHANGED calm

Abandon(j) ==
  /\ job[j].op # "idle"
  /\ job' = [job EXCEPT ![j] = NoJob]
  /\ UNCHANGED <<status, artifact, approved, calm>>

Handle(j) ==
  \/ \E r \in Releases : SubmitReview(j, r) \/ Approve(j, r) \/ Activate(j, r)
  \/ \E c, t \in Releases : Rollback(j, c, t)
  \/ Commit(j) \/ Abandon(j)

Next == (\E r \in Releases : Create(r)) \/ (\E j \in Requests : Handle(j))

Spec == Init /\ [][Next]_vars

----------------------------------------------------------------------------
(* Properties.                                                             *)

(* Whatever the requests overlap, the artifact of an active release is one *)
(* that a reviewer approved, copies of copies included.                    *)
ActiveWasApproved == \A r \in Active : artifact[r] \in approved

(* Activations and rollbacks replace the active release in one commit: the *)
(* only way to be left without one is a review decision that was overtaken *)
(* and writes its status over ACTIVE.                                      *)
ActiveIsReplaced ==
  [][Active # {} /\ Active' = {} =>
       \E j \in Requests : job[j].op \in {"submit", "approve"} /\ job'[j].op = "idle"]_vars

(* As long as requests do not overlap, there is one active release.        *)
CalmOneActive == calm => Cardinality(Active) <= 1

(* The invariants of governed releases (release.py).                       *)
ReleasesSafe == TypeOK /\ ActiveWasApproved /\ CalmOneActive
=============================================================================
