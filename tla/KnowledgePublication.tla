------------------------ MODULE KnowledgePublication ------------------------
(***************************************************************************)
(* The versions of a knowledge document: ingestion, publication, retire,   *)
(* soft deletion and rollback (knowledge/ingestion.py, publication.py).    *)
(***************************************************************************)
EXTENDS Naturals, FiniteSets, StatusSessions

CONSTANTS
  MaxVersions,   \* bound: versions of the document
  Requests       \* concurrent requests

Versions == 1 .. MaxVersions
Status   == {"NONE", "READY", "PUBLISHED", "SUPERSEDED", "RETIRED"}

VARIABLES
  status,     \* knowledge_document_version.status
  withdrawn,  \* a RETIRE or DELETE event has been recorded
  calm,       \* history: no two requests have overlapped
  job         \* what each request has planned

vars == <<status, withdrawn, calm, job>>

NoJob == [op |-> "idle", plan |-> NoPlan(Versions)]

(* Every version and request has its type.                                 *)
TypeOK ==
  /\ status \in [Versions -> Status]
  /\ withdrawn \in BOOLEAN /\ calm \in BOOLEAN
  /\ job \in [Requests -> [op : {"idle", "publish", "withdraw", "rollback"},
                           plan : [Versions -> Status \cup {"KEEP"}]]]

Init ==
  /\ status = [v \in Versions |-> "NONE"]
  /\ withdrawn = FALSE /\ calm = TRUE
  /\ job = [j \in Requests |-> NoJob]

Published == {v \in Versions : status[v] = "PUBLISHED"}

(* ingest: UPLOADED, PARSING, ... READY is one transaction.  A failure     *)
(* rolls the row back, so that the FAILED the handler then wants to record *)
(* finds no row; a version number taken meanwhile fails the insert.        *)
Ingest(v) ==
  /\ status[v] = "NONE" /\ \A u \in Versions : u < v => status[u] # "NONE"
  /\ status' = [status EXCEPT ![v] = "READY"]
  /\ UNCHANGED <<withdrawn, calm, job>>

Plan(j, op, plan) ==
  /\ job[j].op = "idle"
  /\ job' = [job EXCEPT ![j] = [op |-> op, plan |-> plan]]
  /\ calm' = (calm /\ Alone(job, j))
  /\ UNCHANGED <<status, withdrawn>>

(* publish: of a READY version; one published version, whichever the query *)
(* returns first, is superseded.                                           *)
Publish(j, v) ==
  /\ status[v] = "READY"
  /\ IF Published = {} THEN Plan(j, "publish", Writes(status, {}, "", {v}, "PUBLISHED"))
     ELSE \E c \in Published :
            Plan(j, "publish", Writes(status, {c}, "SUPERSEDED", {v}, "PUBLISHED"))

Retire(j, v) ==
  /\ status[v] = "PUBLISHED"
  /\ Plan(j, "withdraw", Writes(status, {}, "", {v}, "RETIRED"))

SoftDelete(j, v) ==
  /\ status[v] # "NONE"
  /\ Plan(j, "withdraw", Writes(status, {}, "", {v}, "RETIRED"))

(* Variant: any version that is not in preparation may come back.          *)
RollbackAny(j, c, t) ==
  /\ status[c] = "PUBLISHED" /\ status[t] \in {"SUPERSEDED", "RETIRED"}
  /\ Plan(j, "rollback", Writes(status, {c}, "SUPERSEDED", {t}, "PUBLISHED"))

Rollback(j, c, t) ==
  /\ status[c] = "PUBLISHED" /\ status[t] = "SUPERSEDED"
  /\ Plan(j, "rollback", Writes(status, {c}, "SUPERSEDED", {t}, "PUBLISHED"))

(* The planned statuses and the publication event in one commit.           *)
Commit(j) ==
  /\ job[j].op # "idle"
  /\ status' = Applied(status, job[j].plan)
  /\ withdrawn' = (withdrawn \/ job[j].op = "withdraw")
  /\ job' = [job EXCEPT ![j] = NoJob]
  /\ UNCHANGED calm

Abandon(j) ==
  /\ job[j].op # "idle"
  /\ job' = [job EXCEPT ![j] = NoJob]
  /\ UNCHANGED <<status, withdrawn, calm>>

Handle(j) ==
  \/ \E v \in Versions : Publish(j, v) \/ Retire(j, v) \/ SoftDelete(j, v)
  \/ \E c, t \in Versions : Rollback(j, c, t)
  \/ Commit(j) \/ Abandon(j)

Next == (\E v \in Versions : Ingest(v)) \/ (\E j \in Requests : Handle(j))

Spec == Init /\ [][Next]_vars

----------------------------------------------------------------------------
(* Properties.                                                             *)

(* Publication never leaves a document without a published version:        *)
(* publications and rollbacks replace, and only a recorded RETIRE or       *)
(* DELETE withdraws, however the requests overlap (one commit each).       *)
StaysPublished ==
  [][Published # {} /\ Published' = {} => withdrawn']_vars

(* As long as requests do not overlap a document has one published         *)
(* version; overlapping publications may leave two.                        *)
CalmOnePublished == calm => Cardinality(Published) <= 1

(* As long as requests do not overlap, a retired or deleted version never  *)
(* comes back; a rollback that loaded it before may bring it back.         *)
CalmRetiredIsFinal ==
  [][\A v \in Versions : calm /\ status[v] = "RETIRED" => status'[v] = "RETIRED"]_vars

(* docs/platformization/rag41/01_ARCHITECTURE_SECURITY_AND_GOVERNANCE.md:  *)
(* a publication makes only one version PUBLISHED.                         *)
OnePublished == Cardinality(Published) <= 1
=============================================================================
