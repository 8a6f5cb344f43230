-------------------------- MODULE DataIntegration --------------------------
(***************************************************************************)
(* Ingestion of a dataset: runs that replace the preview, and the quality  *)
(* check, submission, decision and publication of a run                    *)
(* (services/data_integration.py; the handlers of api/data_integration.py  *)
(* add nothing but audit rows).                                            *)
(*                                                                         *)
(* A request loads rows, works on them and commits once; nothing is locked *)
(* in between, and an attribute that is equal to the value it was loaded   *)
(* with is not written.  Any request may fail at any step and then writes  *)
(* nothing (Abandon), which includes the conflicts on the unique keys of   *)
(* reviews and quality checks.  DataSetDefinition.status is written by     *)
(* every handler, read by none, and left out.                              *)
(*                                                                         *)
(* One dataset: no row is shared between two.                              *)
(***************************************************************************)
EXTENDS Naturals, FiniteSets

CONSTANTS
  MaxRuns,   \* bound: ingestion runs of the dataset
  Stations,  \* source records a source may deliver
  Requests   \* concurrent requests

ASSUME IntegrationAssumption == MaxRuns \in Nat

(* Runs in the order of started_at, which "latest" goes by.  The clock is  *)
(* read before the row is committed, so rows may appear in any order.      *)
Runs == 1 .. MaxRuns

VARIABLES
  run,       \* data_ingestion_run: its status and the rows it wrote
  preview,   \* ingested_station_preview: the run (batch) and the record
  review,    \* data_ingestion_review
  snapshot,  \* published_station_snapshot rows of each review
  passed,    \* history: runs whose batch has passed the quality check
  approved,  \* history: runs for which an approval was committed
  job        \* what each request holds in its session

vars == <<run, preview, review, snapshot, passed, approved, job>>

NoReview == [flow |-> "NONE", quality |-> "PENDING", version |-> 0]
NoJob == [op |-> "idle", run |-> 0, review |-> NoReview, rows |-> {}, count |-> 0]

Rows == Runs \X Stations
Batch(r) == {r} \X run[r].batch

Flow == {"NONE", "QUALITY_PASSED", "QUALITY_FAILED", "PENDING_APPROVAL", "APPROVED",
         "REJECTED", "PUBLISHED"}
Review == [flow : Flow, quality : {"PENDING", "PASSED", "FAILED"}, version : 0 .. MaxRuns]
Job == [op : {"idle", "read", "replace", "check", "validated", "submit", "approve", "reject",
              "publish", "publishing"},
        run : 0 .. MaxRuns,
        review : Review,
        rows : SUBSET Rows,
        count : Nat]

(* Every row and session has its type; the version of a release counts the *)
(* published runs before it, so it never exceeds the number of runs.       *)
TypeOK ==
  /\ run \in [Runs -> [status : {"NONE", "RUNNING", "COMPLETED", "FAILED"},
                       batch : SUBSET Stations]]
  /\ preview \in SUBSET Rows
  /\ review \in [Runs -> Review]
  /\ snapshot \in [Runs -> SUBSET Rows]
  /\ passed \in SUBSET Runs /\ approved \in SUBSET Runs
  /\ job \in [Requests -> Job]
  /\ \A j \in Requests : job[j].op # "idle" => job[j].run \in Runs /\ job[j].count < MaxRuns

Init ==
  /\ run = [r \in Runs |-> [status |-> "NONE", batch |-> {}]]
  /\ preview = {}
  /\ review = [r \in Runs |-> NoReview]
  /\ snapshot = [r \in Runs |-> {}]
  /\ passed = {} /\ approved = {}
  /\ job = [j \in Requests |-> NoJob]

Done(j) == job' = [job EXCEPT ![j] = NoJob]

----------------------------------------------------------------------------
(* ingest_dataset.                                                         *)

(* The run is committed as RUNNING.                                        *)
IngestStart(j, r) ==
  /\ job[j].op = "idle" /\ run[r].status = "NONE"
  /\ run' = [run EXCEPT ![r].status = "RUNNING"]
  /\ job' = [job EXCEPT ![j] = [NoJob EXCEPT !.op = "read", !.run = r]]
  /\ UNCHANGED <<preview, review, snapshot, passed, approved>>

(* _read_records and the DELETE of the old preview, which removes the rows *)
(* that were committed when the statement began.                           *)
IngestRead(j, batch) ==
  /\ job[j].op = "read"
  /\ run' = [run EXCEPT ![job[j].run].batch = batch]
  /\ job' = [job EXCEPT ![j].op = "replace", ![j].rows = preview]
  /\ UNCHANGED <<preview, review, snapshot, passed, approved>>

(* The new rows, COMPLETED and the commit.  A row that another ingestion   *)
(* committed since is not deleted: with the same record the unique key     *)
(* fails this one, otherwise both batches stay.                            *)
IngestCommit(j) ==
  LET r    == job[j].run
      left == preview \ job[j].rows
  IN
  /\ job[j].op = "replace"
  /\ \A p \in left : p[2] \notin run[r].batch
  /\ preview' = left \cup Batch(r)
  /\ run' = [run EXCEPT ![r].status = "COMPLETED"]
  /\ Done(j)
  /\ UNCHANGED <<review, snapshot, passed, approved>>

(* The except branch: everything is rolled back, the run is FAILED.        *)
IngestFail(j) ==
  /\ job[j].op \in {"read", "replace"}
  /\ run' = [run EXCEPT ![job[j].run] = [status |-> "FAILED", batch |-> {}]]
  /\ Done(j)
  /\ UNCHANGED <<preview, review, snapshot, passed, approved>>

----------------------------------------------------------------------------
(* The review of a run.                                                    *)

(* _require_current_completed_run.                                         *)
Current(r) == /\ run[r].status = "COMPLETED"
              /\ \A q \in Runs : run[q].status # "NONE" => q <= r

(* The checks a handler of step op makes on the review row.                *)
Ready(op, rev) ==
  CASE op = "check"   -> rev.flow \notin {"PENDING_APPROVAL", "APPROVED", "PUBLISHED"}
    [] op = "submit"  -> rev.quality = "PASSED" /\ rev.flow = "QUALITY_PASSED"
    [] op = "publish" -> rev.quality = "PASSED" /\ rev.flow = "APPROVED"
    [] OTHER          -> rev.flow = "PENDING_APPROVAL"     \* approve, reject

Published == {r \in Runs : review[r].flow = "PUBLISHED"}

(* The run, the dataset's latest run and the review are loaded; a          *)
(* publication also counts the published reviews.                          *)
Load(j, op, r) ==
  /\ job[j].op = "idle"
  /\ Current(r)
  /\ Ready(op, review[r])
  /\ job' = [job EXCEPT ![j] = [NoJob EXCEPT
               !.op = op, !.run = r, !.review = review[r],
               !.count = IF op = "publish" THEN Cardinality(Published) ELSE 0]]
  /\ UNCHANGED <<run, preview, review, snapshot, passed, approved>>

(* The rows of the batch as validate_ingestion selects them.               *)
ValidateRead(j) ==
  /\ job[j].op = "check"
  /\ job' = [job EXCEPT ![j].op = "validated",
                        ![j].rows = {p \in preview : p[1] = job[j].run}]
  /\ UNCHANGED <<run, preview, review, snapshot, passed, approved>>

(* The quality of a batch: DQI-001 wants rows, DQI-004 all that were       *)
(* written; the other rules depend on the content only.                    *)
Quality(r, rows, sound) == IF rows # {} /\ rows = Batch(r) /\ sound THEN "PASSED" ELSE "FAILED"

ValidateCommit(j, sound) ==
  LET r       == job[j].run
      old     == job[j].review
      quality == Quality(r, job[j].rows, sound)
      flow    == IF quality = "PASSED" THEN "QUALITY_PASSED" ELSE "QUALITY_FAILED"
  IN
  /\ job[j].op = "validated"
  /\ old.flow = "NONE" => review[r].flow = "NONE"          \* unique run_id
  /\ review' = [review EXCEPT
       ![r].flow    = IF flow # old.flow THEN flow ELSE @,
       ![r].quality = IF quality # old.quality THEN quality ELSE @]
  /\ passed' = IF quality = "PASSED" THEN passed \cup {r} ELSE passed
  /\ Done(j)
  /\ UNCHANGED <<run, preview, snapshot, approved>>

SubmitCommit(j) ==
  /\ job[j].op = "submit"
  /\ review' = [review EXCEPT ![job[j].run].flow = "PENDING_APPROVAL"]
  /\ Done(j)
  /\ UNCHANGED <<run, preview, snapshot, passed, approved>>

DecideCommit(j) ==
  /\ job[j].op \in {"approve", "reject"}
  /\ review' = [review EXCEPT ![job[j].run].flow =
                  IF job[j].op = "approve" THEN "APPROVED" ELSE "REJECTED"]
  /\ approved' = IF job[j].op = "approve" THEN approved \cup {job[j].run} ELSE approved
  /\ Done(j)
  /\ UNCHANGED <<run, preview, snapshot, passed>>

(* Variant: the preview is published without regard to the batch.          *)
PublishReadAny(j) ==
  /\ job[j].op = "publish"
  /\ job' = [job EXCEPT ![j].op = "publishing", ![j].rows = preview]
  /\ UNCHANGED <<run, preview, review, snapshot, passed, approved>>

(* The rows of the batch; the metrics of a row are computed from it.       *)
PublishRead(j) ==
  /\ job[j].op = "publish"
  /\ job' = [job EXCEPT ![j].op = "publishing",
                        ![j].rows = {p \in preview : p[1] = job[j].run}]
  /\ UNCHANGED <<run, preview, review, snapshot, passed, approved>>

(* Variant: no unique key, and the snapshot is written anew.               *)
PublishCommitAgain(j) ==
  LET r == job[j].run IN
  /\ job[j].op = "publishing"
  /\ snapshot' = [snapshot EXCEPT ![r] = job[j].rows]
  /\ review' = [review EXCEPT ![r].flow = "PUBLISHED", ![r].version = job[j].count + 1]
  /\ Done(j)
  /\ UNCHANGED <<run, preview, passed, approved>>

(* The snapshot rows, unique per review and record, and the review.        *)
PublishCommit(j) ==
  LET r == job[j].run IN
  /\ job[j].op = "publishing"
  /\ snapshot[r] \cap job[j].rows = {}
  /\ snapshot' = [snapshot EXCEPT ![r] = @ \cup job[j].rows]
  /\ review' = [review EXCEPT ![r].flow = "PUBLISHED", ![r].version = job[j].count + 1]
  /\ Done(j)
  /\ UNCHANGED <<run, preview, passed, approved>>

(* A request fails or its process stops; an ingestion whose process stops  *)
(* leaves its run RUNNING.                                                 *)
Abandon(j) ==
  /\ job[j].op # "idle"
  /\ run' = IF job[j].op \in {"read", "replace"}
            THEN [run EXCEPT ![job[j].run].batch = {}] ELSE run
  /\ Done(j)
  /\ UNCHANGED <<preview, review, snapshot, passed, approved>>

Ingest(j) ==
  \/ \E r \in Runs : IngestStart(j, r)
  \/ \E batch \in SUBSET Stations : IngestRead(j, batch)
  \/ IngestCommit(j) \/ IngestFail(j)

Govern(j) ==
  \/ \E op \in {"check", "submit", "approve", "reject", "publish"}, r \in Runs : Load(j, op, r)
  \/ ValidateRead(j)
  \/ \E sound \in BOOLEAN : ValidateCommit(j, sound)
  \/ SubmitCommit(j) \/ DecideCommit(j)
  \/ PublishRead(j) \/ PublishCommit(j)

Next == \E j \in Requests : Ingest(j) \/ Govern(j) \/ Abandon(j)

Spec == Init /\ [][Next]_vars

----------------------------------------------------------------------------
(* Properties.                                                             *)

(* Whatever ingestions replace the preview meanwhile, it never holds a     *)
(* part of a batch, so that a check that finds rows has found all of them  *)
(* (ingest_dataset deletes and inserts in one transaction).                *)
PreviewHoldsWholeBatches ==
  \A r \in Runs : {p \in preview : p[1] = r} \in {{}, Batch(r)}

(* What is published is the batch that passed the check and was approved,  *)
(* however the check, the decision and the publication of other requests   *)
(* interleave: never rows of another batch, never a part, never a run that *)
(* was not approved.  It may be nothing (see OldRunsStayUnpublished).      *)
PublishedWasApproved ==
  \A r \in Runs : review[r].flow = "PUBLISHED" \/ snapshot[r] # {} =>
    /\ r \in passed \cap approved
    /\ snapshot[r] \in {{}, Batch(r)}

(* A run that failed, or whose process stopped, never enters the review,   *)
(* whatever requests on it were under way                                  *)
(* (_require_current_completed_run).                                       *)
OnlyCompletedRunsReviewed ==
  \A r \in Runs : review[r].flow # "NONE" \/ snapshot[r] # {} => run[r].status = "COMPLETED"

(* The invariants of ingestion, review and publication together, whatever  *)
(* the requests overlap (data_integration.py).                             *)
IntegrationSafe ==
  TypeOK /\ PreviewHoldsWholeBatches /\ PublishedWasApproved /\ OnlyCompletedRunsReviewed

(* A published snapshot is immutable: no later request adds, removes or    *)
(* replaces a row, a second publication of the same run included           *)
(* (PublishedStationSnapshot, uq_published_snapshot_review_record).        *)
SnapshotIsImmutable ==
  [][\A r \in Runs : snapshot[r] # {} => snapshot'[r] = snapshot[r]]_vars

(* docs/v2/evidence/p0_5/README.md: an old batch cannot be published.      *)
OldRunsStayUnpublished ==
  [][\A r \in Runs : review'[r].flow = "PUBLISHED" /\ review[r].flow # "PUBLISHED"
       => Current(r)]_vars
=============================================================================
