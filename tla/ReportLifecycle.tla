-------------------------- MODULE ReportLifecycle ---------------------------
(***************************************************************************)
(* A business report and its versions: draft, review, publication with     *)
(* frozen evidence, new version, archive (business_loop/reports.py).  The  *)
(* report row and its current version carry a status each.                 *)
(***************************************************************************)
EXTENDS Naturals

CONSTANTS
  MaxVersions,   \* bound: versions of the report
  Requests       \* concurrent requests

Versions == 1 .. MaxVersions
ReportStatus  == {"DRAFT", "VERSIONED", "IN_REVIEW", "APPROVED", "PUBLISHED", "ARCHIVED"}
VersionStatus == {"NONE", "DRAFT", "IN_REVIEW", "APPROVED", "PUBLISHED"}

VARIABLES
  report,     \* p6_report.status
  current,    \* p6_report.current_version_id
  version,    \* p6_report_version.status
  reviewed,   \* versions with an APPROVED row in p6_report_review
  frozen,     \* versions with a publication and an evidence snapshot
  calm,       \* history: no two requests have overlapped
  job         \* what each request has loaded and planned

vars == <<report, current, version, reviewed, frozen, calm, job>>

NoJob == [op |-> "idle", v |-> 1, from |-> "DRAFT", report |-> "KEEP"]

(* Every report, version and request has its type.                         *)
TypeOK ==
  /\ report \in ReportStatus /\ current \in Versions
  /\ version \in [Versions -> VersionStatus]
  /\ reviewed \subseteq Versions /\ frozen \subseteq Versions /\ calm \in BOOLEAN
  /\ job \in [Requests ->
       [op : {"idle", "new", "submit", "approve", "reject", "publish", "archive"},
        v : Versions, from : VersionStatus, report : ReportStatus \cup {"KEEP"}]]

(* create: the report and its first version.                               *)
Init ==
  /\ report = "DRAFT" /\ current = 1
  /\ version = [v \in Versions |-> IF v = 1 THEN "DRAFT" ELSE "NONE"]
  /\ reviewed = {} /\ frozen = {} /\ calm = TRUE
  /\ job = [j \in Requests |-> NoJob]

Plan(j, op, v, to) ==
  /\ job[j].op = "idle"
  /\ job' = [job EXCEPT ![j] = [op |-> op, v |-> v, from |-> version[v],
                                report |-> IF to = report THEN "KEEP" ELSE to]]
  /\ calm' = (calm /\ \A k \in Requests : k # j => job[k].op = "idle")
  /\ UNCHANGED <<report, current, version, reviewed, frozen>>

(* new_version: a copy of the current version, whatever its status.        *)
NewVersion(j, v) ==
  /\ report # "ARCHIVED"
  /\ version[v] = "NONE" /\ \A u \in Versions : u < v => version[u] # "NONE"
  /\ Plan(j, "new", v, "VERSIONED")

Submit(j) ==
  /\ report \in {"DRAFT", "VERSIONED"} /\ version[current] = "DRAFT"
  /\ Plan(j, "submit", current, "IN_REVIEW")

Approve(j) ==
  /\ report = "IN_REVIEW" /\ version[current] = "IN_REVIEW"
  /\ Plan(j, "approve", current, "APPROVED")

Reject(j) ==
  /\ report = "IN_REVIEW" /\ version[current] = "IN_REVIEW"
  /\ Plan(j, "reject", current, "DRAFT")

Publish(j) ==
  /\ report = "APPROVED" /\ version[current] = "APPROVED" /\ current \in reviewed
  /\ Plan(j, "publish", current, "PUBLISHED")

Archive(j) == report = "PUBLISHED" /\ Plan(j, "archive", current, "ARCHIVED")

(* What a request makes of the status of its version.                      *)
VersionAfter(op, from) ==
  CASE op \in {"new", "reject"} -> "DRAFT"
    [] op = "submit"  -> "IN_REVIEW"
    [] op = "approve" -> "APPROVED"
    [] op = "publish" -> "PUBLISHED"
    [] OTHER -> from

(* Only the columns a request changes are written, over whatever others    *)
(* have committed; a second version of the same number, and a second       *)
(* publication of a version, are refused by their unique keys.  The guard  *)
(* that keeps published versions from changing (models.py) compares with   *)
(* the status the request has loaded, not with the row.                    *)
Commit(j) ==
  LET q == job[j] IN
  /\ q.op # "idle"
  /\ q.op = "new" => version[q.v] = "NONE"
  /\ q.op = "publish" => q.v \notin frozen
  /\ report' = IF q.report = "KEEP" THEN report ELSE q.report
  /\ current' = IF q.op = "new" THEN q.v ELSE current
  /\ version' = [version EXCEPT ![q.v] = IF VersionAfter(q.op, q.from) = q.from THEN @ ELSE VersionAfter(q.op, q.from)]
  /\ reviewed' = IF q.op = "approve" THEN reviewed \cup {q.v} ELSE reviewed
  /\ frozen' = IF q.op = "publish" THEN frozen \cup {q.v} ELSE frozen
  /\ job' = [job EXCEPT ![j] = NoJob]
  /\ UNCHANGED calm

Abandon(j) ==
  /\ job[j].op # "idle"
  /\ job' = [job EXCEPT ![j] = NoJob]
  /\ UNCHANGED <<report, current, version, reviewed, frozen, calm>>

Handle(j) ==
  \/ \E v \in Versions : NewVersion(j, v)
  \/ Submit(j) \/ Approve(j) \/ Reject(j) \/ Publish(j) \/ Archive(j)
  \/ Commit(j) \/ Abandon(j)

Next == \E j \in Requests : Handle(j)

Spec == Init /\ [][Next]_vars

----------------------------------------------------------------------------
(* Properties.                                                             *)

(* However requests overlap, a version that is published has an approval   *)
(* of that very version and its evidence is frozen.                        *)
PublishedIsEvidenced ==
  \A v \in Versions : version[v] = "PUBLISHED" => v \in reviewed \cap frozen

(* As long as requests do not overlap, a published version stays as it is. *)
(* (Overlapping ones: see PublishedVersionsAreFinal.)                      *)
CalmPublishedIsFinal ==
  [][\A v \in Versions : calm /\ version[v] = "PUBLISHED" => version'[v] = "PUBLISHED"]_vars

(* As long as requests do not overlap, the report tells the status of its  *)
(* current version; overlapping ones can leave an approved report with a   *)
(* draft that can neither be submitted nor published.                      *)
CalmReportFollowsVersion ==
  calm => version[current] = CASE report \in {"DRAFT", "VERSIONED"} -> "DRAFT"
                               [] report = "ARCHIVED" -> "PUBLISHED"
                               [] OTHER -> report

(* The invariants of reports and their versions (reports.py).              *)
ReportsSafe == TypeOK /\ PublishedIsEvidenced /\ CalmReportFollowsVersion

(* business_loop/models.py: "published report versions are immutable".     *)
PublishedVersionsAreFinal ==
  [][\A v \in Versions : version[v] = "PUBLISHED" => version'[v] = "PUBLISHED"]_vars
=============================================================================
