-------------------------- MODULE MetricGovernance --------------------------
(***************************************************************************)
(* The governed versions of a metric: draft, impact analysis, review,      *)
(* publication into the metric catalog, deprecation                        *)
(* (business_loop/metrics.py).                                             *)
(***************************************************************************)
EXTENDS Naturals, FiniteSets, StatusSessions

CONSTANTS
  MaxVersions,   \* bound: versions of the metric
  Definitions,   \* what a version defines: formula, unit, dimensions, ...
  Requests,      \* concurrent requests
  NoDef          \* no definition, no analysis

Versions == 1 .. MaxVersions
Status   == {"NONE", "DRAFT", "REVIEW", "APPROVED", "PUBLISHED", "DEPRECATED"}

VARIABLES
  status,      \* p6_metric_governance_version.status
  definition,  \* what the version defines
  analysed,    \* the definition its stored impact analysis was made of
  catalog,     \* the row of metric_definition that dashboards and ChatBI read
  calm,        \* history: no two requests have overlapped
  job          \* what each request has loaded and planned

vars == <<status, definition, analysed, catalog, calm, job>>

Known == Definitions \cup {NoDef}
Keep  == "KEEP"
NoJob == [op |-> "idle", v |-> 1, plan |-> NoPlan(Versions), def |-> Keep, ana |-> Keep, cat |-> Keep]

(* Every version and request has its type.                                 *)
TypeOK ==
  /\ status \in [Versions -> Status]
  /\ definition \in [Versions -> Known] /\ analysed \in [Versions -> Known]
  /\ catalog \in Known /\ calm \in BOOLEAN
  /\ job \in [Requests ->
       [op : {"idle", "busy"}, v : Versions, plan : [Versions -> Status \cup {Keep}],
        def : Known \cup {Keep}, ana : Known \cup {Keep}, cat : Known \cup {Keep}]]

(* Either the metric is not in the catalog yet, or install_catalog_baseline*)
(* has made a published version of its row (analysis and approval filled   *)
(* in by the import).                                                      *)
Init ==
  /\ \E d \in Known :
       /\ catalog = d
       /\ status = [v \in Versions |-> IF v = 1 /\ d # NoDef THEN "PUBLISHED" ELSE "NONE"]
       /\ definition = [v \in Versions |-> IF v = 1 THEN d ELSE NoDef]
       /\ analysed = definition
  /\ calm = TRUE
  /\ job = [j \in Requests |-> NoJob]

Published == {v \in Versions : status[v] = "PUBLISHED"}

(* create_draft: (metric_id, version) is unique.                           *)
CreateDraft(v, d) ==
  /\ status[v] = "NONE" /\ \A u \in Versions : u < v => status[u] # "NONE"
  /\ status' = [status EXCEPT ![v] = "DRAFT"]
  /\ definition' = [definition EXCEPT ![v] = d]
  /\ UNCHANGED <<analysed, catalog, calm, job>>

(* A request writes the columns whose value it changes: old and new as     *)
(* loaded.                                                                 *)
Column(old, new) == IF old = new THEN Keep ELSE new

Plan(j, v, plan, def, ana, cat) ==
  /\ job[j].op = "idle"
  /\ job' = [job EXCEPT ![j] = [op |-> "busy", v |-> v, plan |-> plan, def |-> def,
                                ana |-> ana, cat |-> cat]]
  /\ calm' = (calm /\ Alone(job, j))
  /\ UNCHANGED <<status, definition, analysed, catalog>>

Move(j, v, to) == Plan(j, v, Writes(status, {}, "", {v}, to), Keep, Keep, Keep)

(* Variant: the analysis of the old draft is kept.                         *)
UpdateDraftOnly(j, v, d) ==
  /\ status[v] = "DRAFT"
  /\ Plan(j, v, NoPlan(Versions), Column(definition[v], d), Keep, Keep)

(* update_draft: the analysis is emptied - which is no write when it was   *)
(* empty as loaded.                                                        *)
UpdateDraft(j, v, d) ==
  /\ status[v] = "DRAFT"
  /\ Plan(j, v, NoPlan(Versions), Column(definition[v], d), Column(analysed[v], NoDef), Keep)

ImpactAnalysis(j, v) ==
  /\ status[v] = "DRAFT"
  /\ Plan(j, v, NoPlan(Versions), Keep, definition[v], Keep)

Submit(j, v)  == status[v] = "DRAFT" /\ analysed[v] # NoDef /\ Move(j, v, "REVIEW")
Approve(j, v) == status[v] = "REVIEW" /\ Move(j, v, "APPROVED")
Reject(j, v)  == status[v] = "REVIEW" /\ Move(j, v, "DRAFT")

(* publish: one published version - the latest published, any when two     *)
(* overlapped - is deprecated, and the catalog row takes the definition as *)
(* loaded.                                                                 *)
Publish(j, v) ==
  /\ status[v] = "APPROVED"
  /\ \E old \in SUBSET Published :
       /\ IF Published = {} THEN old = {} ELSE Cardinality(old) = 1
       /\ Plan(j, v, Writes(status, old, "DEPRECATED", {v}, "PUBLISHED"),
               Keep, Keep, Column(catalog, definition[v]))

Deprecate(j, v) == status[v] = "PUBLISHED" /\ Move(j, v, "DEPRECATED")

Commit(j) ==
  LET q == job[j] IN
  /\ q.op = "busy"
  /\ status' = Applied(status, q.plan)
  /\ definition' = IF q.def = Keep THEN definition ELSE [definition EXCEPT ![q.v] = q.def]
  /\ analysed' = IF q.ana = Keep THEN analysed ELSE [analysed EXCEPT ![q.v] = q.ana]
  /\ catalog' = IF q.cat = Keep THEN catalog ELSE q.cat
  /\ job' = [job EXCEPT ![j] = NoJob]
  /\ UNCHANGED calm

Abandon(j) ==
  /\ job[j].op = "busy"
  /\ job' = [job EXCEPT ![j] = NoJob]
  /\ UNCHANGED <<status, definition, analysed, catalog, calm>>

Handle(j) ==
  \/ \E v \in Versions :
       \/ ImpactAnalysis(j, v) \/ Submit(j, v) \/ Approve(j, v) \/ Reject(j, v)
       \/ Publish(j, v) \/ Deprecate(j, v)
       \/ \E d \in Definitions : UpdateDraft(j, v, d)
  \/ Commit(j) \/ Abandon(j)

Next ==
  \/ \E v \in Versions, d \in Definitions : CreateDraft(v, d)
  \/ \E j \in Requests : Handle(j)

Spec == Init /\ [][Next]_vars

----------------------------------------------------------------------------
(* Properties.                                                             *)

(* As long as requests do not overlap, what is reviewed, approved and      *)
(* published is what was analysed, through any number of rejections and    *)
(* changes.  (An update that loaded the draft before its analysis leaves   *)
(* that analysis in place and changes the definition under it, in review   *)
(* or published as the version may be by then.)                            *)
CalmReviewedWasAnalysed ==
  calm => \A v \in Versions : status[v] \notin {"NONE", "DRAFT"} => analysed[v] = definition[v]

(* As long as requests do not overlap, at most one version is published    *)
(* and the catalog holds its definition.                                   *)
CalmCatalogIsPublished ==
  calm => Cardinality(Published) <= 1 /\ \A v \in Published : catalog = definition[v]

(* The invariants of metric versions and the catalog (metrics.py).         *)
MetricsSafe == TypeOK /\ CalmReviewedWasAnalysed /\ CalmCatalogIsPublished
=============================================================================
