---------------------------- MODULE BusinessProofs ----------------------------
(***************************************************************************)
(* Proofs about the business objects and the operations around them, for   *)
(* any number of objects, versions, requests, drills and logins: one       *)
(* inductive invariant for each component, of which BusinessInv is the     *)
(* conjunction.  Most say what a request has loaded: for whatever overlaps *)
(* that it was allowed when loaded, and for a request that is alone that   *)
(* it still is as loaded.  A component that has not the focus stutters, so *)
(* each is proved about its own next-state relation.                       *)
(***************************************************************************)
EXTENDS MCBusiness, FiniteSetTheorems, TLAPS

(* A set without two different members has one member at most.             *)
LEMMA AtMostOne ==
  ASSUME NEW S, \A x, y \in S : x = y
  PROVE  Cardinality(S) <= 1
<1>1. CASE S = {} BY <1>1, FS_EmptySet
<1>2. ASSUME NEW x \in S PROVE Cardinality(S) <= 1
  <2>1. S = {x} OBVIOUS
  <2> QED BY <2>1, FS_Singleton
<1> QED BY <1>1, <1>2

----------------------------------------------------------------------------
(* Data integration.  What is published depends on three things: a         *)
(* completed run never changes again, a run has one ingestion, and a       *)
(* session that publishes has seen a review that was passed and approved.  *)
Ingesting == {"read", "replace"}
Governing == {"check", "validated", "submit", "approve", "reject", "publish", "publishing"}

(* Of each run the rows hold the whole batch or nothing, and only          *)
(* completed runs have rows.                                               *)
BatchIn(f, r) == {r} \X f[r].batch
Whole(f, rows) ==
  \A r \in Runs : \/ {p \in rows : p[1] = r} = {}
                  \/ {p \in rows : p[1] = r} = BatchIn(f, r) /\ f[r].status = "COMPLETED"

(* What a session that is at work has seen.                                *)
JobInv(x) ==
  /\ x.op \in Ingesting => run[x.run].status = "RUNNING"
  /\ x.op \in Governing => run[x.run].status = "COMPLETED"
  /\ x.op = "replace" => Whole(run, x.rows)
  /\ x.op \in {"publish", "publishing"} => x.run \in passed \cap approved
  /\ x.op = "publishing" => x.rows = {} \/ x.rows = BatchIn(run, x.run)

JobsInv == \A j \in Requests : JobInv(job[j])

OneIngestion ==
  \A i, j \in Requests :
    i # j /\ job[i].op \in Ingesting /\ job[j].op \in Ingesting => job[i].run # job[j].run

PreviewInv == Whole(run, preview)

(* What the row of a review says happened.                                 *)
ReviewInv ==
  \A r \in Runs :
    /\ review[r].flow # "NONE" => run[r].status = "COMPLETED"
    /\ review[r].quality = "PASSED" => r \in passed
    /\ review[r].flow = "APPROVED" => r \in approved
    /\ review[r].flow = "PUBLISHED" => r \in passed \cap approved

SnapshotInv ==
  \A r \in Runs :
    \/ snapshot[r] = {}
    \/ /\ snapshot[r] = BatchIn(run, r) /\ run[r].status = "COMPLETED"
       /\ r \in passed \cap approved

IntegrationInv ==
  TypeOK /\ JobsInv /\ OneIngestion /\ PreviewInv /\ ReviewInv /\ SnapshotInv

----------------------------------------------------------------------------
(* Completed runs stay as they are.                                        *)
Kept == \A r \in Runs : run[r].status = "COMPLETED" => run'[r] = run[r]

LEMMA WholeStays ==
  ASSUME Kept, NEW rows, Whole(run, rows)
  PROVE  Whole(run', rows)
BY DEF Kept, Whole, BatchIn

LEMMA NoReviewType == NoReview \in Review
BY IntegrationAssumption DEF NoReview, Review, Flow

LEMMA NoJobType == NoJob \in Job /\ NoJob.op = "idle"
BY IntegrationAssumption DEF NoJob, Job, NoReview, Review, Flow

(* A session that is not about to change is none the worse for what        *)
(* others write, as long as completed runs, passes and approvals stay.     *)
LEMMA JobStays ==
  ASSUME NEW x \in Job, x.op # "idle" => x.run \in Runs, JobInv(x), Kept,
         x.op \in Ingesting => run'[x.run].status = "RUNNING",
         passed \subseteq passed', approved \subseteq approved'
  PROVE  JobInv(x)'
<1>1. x.op \in Governing => run'[x.run] = run[x.run] /\ run'[x.run].status = "COMPLETED"
  BY DEF JobInv, Kept, Governing, Ingesting
<1>2. x.op = "replace" => Whole(run', x.rows)
  BY WholeStays DEF JobInv
<1>3. x.op \in {"publish", "publishing"} => x.run \in passed' \cap approved'
  BY DEF JobInv
<1>4. x.op = "publishing" => x.rows = {} \/ x.rows = BatchIn(run', x.run)
  BY <1>1 DEF JobInv, BatchIn, Governing
<1> QED BY <1>1, <1>2, <1>3, <1>4 DEF JobInv

(* The type of the sessions after one of them changed.                     *)
JobsType == 
  /\ job \in [Requests -> Job]
  /\ \A j \in Requests : job[j].op # "idle" => job[j].run \in Runs /\ job[j].count < MaxRuns

LEMMA ReplaceJob ==
  ASSUME JobsType, NEW j \in Requests, NEW x \in Job,
         x.op # "idle" => x.run \in Runs /\ x.count < MaxRuns,
         job' = [job EXCEPT ![j] = x]
  PROVE  JobsType'
BY DEF JobsType

LEMMA EndJob ==
  ASSUME JobsType, NEW j \in Requests, Done(j)
  PROVE  JobsType' /\ job'[j] = NoJob /\ \A i \in Requests : i # j => job'[i] = job[i]
<1>1. job' = [job EXCEPT ![j] = NoJob] BY DEF Done
<1>2. JobsType' BY <1>1, NoJobType, ReplaceJob
<1> QED BY <1>1, <1>2 DEF JobsType

(* One session moves: the others keep what they have seen.                 *)
LEMMA OneMoves ==
  ASSUME IntegrationInv, NEW j \in Requests, NEW x, JobsType', Kept,
         job'[j] = x, JobInv(x)',
         \A i \in Requests : i # j => job'[i] = job[i],
         \A i \in Requests : i # j /\ job[i].op \in Ingesting =>
           /\ run'[job[i].run].status = "RUNNING"
           /\ x.op \in Ingesting => x.run # job[i].run,
         passed \subseteq passed', approved \subseteq approved'
  PROVE  JobsInv' /\ OneIngestion'
<1>1. ASSUME NEW i \in Requests, i # j PROVE JobInv(job[i])'
  <2>1. PICK y \in Job : y = job[i] BY DEF IntegrationInv, TypeOK
  <2>2. (y.op # "idle" => y.run \in Runs) /\ JobInv(y)
    BY <2>1 DEF IntegrationInv, TypeOK, JobsInv
  <2>3. y.op \in Ingesting => run'[y.run].status = "RUNNING" BY <1>1, <2>1
  <2>4. JobInv(y)' BY <2>2, <2>3, JobStays
  <2>5. job'[i] = y BY <1>1, <2>1
  <2> QED BY <2>4, <2>5 DEF JobInv
<1>2. JobInv(job[j])' BY DEF JobInv
<1> QED BY <1>1, <1>2 DEF JobsInv, OneIngestion, IntegrationInv

(* The parts that only depend on completed runs, passes and approvals.     *)
LEMMA HistoryStays ==
  ASSUME IntegrationInv, Kept, passed \subseteq passed', approved \subseteq approved'
  PROVE  /\ UNCHANGED review => ReviewInv'
         /\ UNCHANGED snapshot => SnapshotInv'
         /\ UNCHANGED preview => PreviewInv'
<1>1. UNCHANGED review => ReviewInv' BY DEF IntegrationInv, ReviewInv, Kept
<1>2. UNCHANGED snapshot => SnapshotInv' BY DEF IntegrationInv, SnapshotInv, Kept, BatchIn
<1>3. UNCHANGED preview => PreviewInv'
  BY WholeStays DEF IntegrationInv, PreviewInv
<1> QED BY <1>1, <1>2, <1>3

(* A session that loads or reads: no row changes.                          *)
LEMMA OnlyJobMoves ==
  ASSUME IntegrationInv, NEW j \in Requests, NEW x \in Job,
         x.op # "idle" => x.run \in Runs /\ x.count < MaxRuns,
         x.op \notin Ingesting, job' = [job EXCEPT ![j] = x],
         UNCHANGED <<run, preview, review, snapshot, passed, approved>>, JobInv(x)
  PROVE  IntegrationInv'
<1>1. Kept BY DEF Kept
<1>2. JobsType' BY ReplaceJob DEF IntegrationInv, TypeOK, JobsType
<1>3. job'[j] = x /\ \A i \in Requests : i # j => job'[i] = job[i]
  BY DEF IntegrationInv, TypeOK
<1>4. JobInv(x)' BY DEF JobInv
<1>5. \A i \in Requests : i # j /\ job[i].op \in Ingesting => run'[job[i].run].status = "RUNNING"
  BY DEF IntegrationInv, JobsInv, JobInv
<1>6. JobsInv' /\ OneIngestion' BY <1>1, <1>2, <1>3, <1>4, <1>5, OneMoves
<1>7. TypeOK' BY <1>2 DEF IntegrationInv, TypeOK, JobsType
<1> QED BY <1>1, <1>6, <1>7, HistoryStays DEF IntegrationInv

(* A session that commits: it ends, and the runs stay.                     *)
LEMMA CommitEnds ==
  ASSUME IntegrationInv, NEW j \in Requests, Done(j), UNCHANGED run,
         passed \subseteq passed', approved \subseteq approved'
  PROVE  JobsType' /\ JobsInv' /\ OneIngestion'
<1>1. Kept BY DEF Kept
<1>2. /\ JobsType' /\ job'[j] = NoJob
      /\ \A i \in Requests : i # j => job'[i] = job[i]
  BY EndJob DEF IntegrationInv, TypeOK, JobsType
<1>3. JobInv(NoJob)' BY NoJobType DEF JobInv, Ingesting, Governing
<1>4. \A i \in Requests : i # j /\ job[i].op \in Ingesting => run'[job[i].run].status = "RUNNING"
  BY DEF IntegrationInv, JobsInv, JobInv
<1>5. NoJob.op \notin Ingesting BY NoJobType DEF Ingesting
<1> QED BY <1>1, <1>2, <1>3, <1>4, <1>5, OneMoves

----------------------------------------------------------------------------
(* Ingestion.                                                              *)

(* The runs of other ingestions are untouched when one run changes.        *)
LEMMA RunMoves ==
  ASSUME IntegrationInv, NEW j \in Requests, NEW r \in Runs, NEW row,
         run[r].status # "COMPLETED", run' = [run EXCEPT ![r] = row],
         \A i \in Requests : i # j /\ job[i].op \in Ingesting => job[i].run # r
  PROVE  /\ Kept
         /\ \A i \in Requests : i # j /\ job[i].op \in Ingesting =>
              run'[job[i].run].status = "RUNNING" /\ job[i].run # r
<1>1. Kept BY DEF Kept, IntegrationInv, TypeOK
<1>2. ASSUME NEW i \in Requests, i # j, job[i].op \in Ingesting
      PROVE  run'[job[i].run].status = "RUNNING" /\ job[i].run # r
  BY <1>2 DEF IntegrationInv, TypeOK, JobsInv, JobInv, Ingesting
<1> QED BY <1>1, <1>2

LEMMA IngestStartStep ==
  ASSUME IntegrationInv, NEW j \in Requests, NEW r \in Runs, IngestStart(j, r)
  PROVE  IntegrationInv'
<1> DEFINE x == [NoJob EXCEPT !.op = "read", !.run = r]
<1>1. PICK y : y = x OBVIOUS
<1>a. MaxRuns > 0 /\ r \in 0 .. MaxRuns BY IntegrationAssumption DEF Runs
<1>b. NoJob \in Job /\ NoJob.count = 0 BY NoJobType DEF NoJob
<1>c. x \in Job BY <1>a, <1>b DEF Job
<1>d. x.op = "read" /\ x.run = r /\ x.count = NoJob.count BY <1>b DEF Job
<1>2. y \in Job /\ y.op = "read" /\ y.run = r /\ y.count < MaxRuns
  BY <1>1, <1>a, <1>b, <1>c, <1>d
<1>3. job' = [job EXCEPT ![j] = y] BY <1>1 DEF IngestStart
<1>4. PICK row : row = [run[r] EXCEPT !.status = "RUNNING"] OBVIOUS
<1>5. run' = [run EXCEPT ![r] = row] /\ row.status = "RUNNING"
      /\ row \in [status : {"NONE", "RUNNING", "COMPLETED", "FAILED"}, batch : SUBSET Stations]
  BY <1>4 DEF IngestStart, IntegrationInv, TypeOK
<1>6. run[r].status = "NONE" BY DEF IngestStart
<1>7. \A i \in Requests : i # j /\ job[i].op \in Ingesting => job[i].run # r
  BY <1>6 DEF IntegrationInv, JobsInv, JobInv
<1>8. /\ Kept
      /\ \A i \in Requests : i # j /\ job[i].op \in Ingesting =>
           run'[job[i].run].status = "RUNNING" /\ job[i].run # r
  BY <1>5, <1>6, <1>7, RunMoves
<1>9. JobsType' BY <1>2, <1>3, ReplaceJob DEF IntegrationInv, TypeOK, JobsType
<1>10. run'[r].status = "RUNNING" BY <1>5 DEF IntegrationInv, TypeOK
<1>11. JobInv(y)' BY <1>2, <1>10 DEF JobInv, Ingesting, Governing
<1>12. job'[j] = y /\ \A i \in Requests : i # j => job'[i] = job[i]
  BY <1>3 DEF IntegrationInv, TypeOK
<1>13. UNCHANGED <<preview, review, snapshot, passed, approved>> BY DEF IngestStart
<1>14. JobsInv' /\ OneIngestion'
  BY <1>2, <1>8, <1>9, <1>11, <1>12, <1>13, OneMoves
<1>15. TypeOK' BY <1>5, <1>9, <1>13 DEF IntegrationInv, TypeOK, JobsType
<1> QED BY <1>8, <1>13, <1>14, <1>15, HistoryStays DEF IntegrationInv

(* An ingestion is the only session on its run, which is still RUNNING.    *)
LEMMA Ingestion ==
  ASSUME IntegrationInv, NEW j \in Requests, job[j].op \in Ingesting
  PROVE  /\ job[j].run \in Runs /\ run[job[j].run].status = "RUNNING"
         /\ \A i \in Requests : i # j /\ job[i].op \in Ingesting => job[i].run # job[j].run
         /\ run[job[j].run] \in [status : {"NONE", "RUNNING", "COMPLETED", "FAILED"},
                                 batch : SUBSET Stations]
<1>1. job[j].run \in Runs BY DEF IntegrationInv, TypeOK, Ingesting
<1> QED BY <1>1 DEF IntegrationInv, TypeOK, JobsInv, JobInv, OneIngestion

LEMMA IngestReadStep ==
  ASSUME IntegrationInv, NEW j \in Requests, NEW batch \in SUBSET Stations, IngestRead(j, batch)
  PROVE  IntegrationInv'
<1> DEFINE x == [job[j] EXCEPT !.op = "replace", !.rows = preview]
<1>1. PICK y : y = x OBVIOUS
<1>2. PICK r \in Runs : r = job[j].run BY Ingestion DEF IngestRead, Ingesting
<1>3. job[j] \in Job /\ job[j].count < MaxRuns /\ preview \in SUBSET Rows /\ job \in [Requests -> Job]
  BY DEF IntegrationInv, TypeOK, IngestRead
<1>4. x \in Job BY <1>3 DEF Job
<1>5. x.op = "replace" /\ x.run = job[j].run /\ x.rows = preview /\ x.count = job[j].count
  BY <1>3 DEF Job
<1>6. job' = [job EXCEPT ![j] = x] BY <1>3 DEF IngestRead, Job
<1>7. JobsType' BY <1>1, <1>2, <1>3, <1>4, <1>5, <1>6, ReplaceJob DEF IntegrationInv, TypeOK, JobsType
<1>8. PICK row : row = [run[r] EXCEPT !.batch = batch] OBVIOUS
<1>9. /\ run[r].status = "RUNNING"
      /\ run[r] \in [status : {"NONE", "RUNNING", "COMPLETED", "FAILED"}, batch : SUBSET Stations]
      /\ \A i \in Requests : i # j /\ job[i].op \in Ingesting => job[i].run # r
  BY <1>2, Ingestion DEF IngestRead, Ingesting
<1>10. /\ row.status = "RUNNING"
       /\ row \in [status : {"NONE", "RUNNING", "COMPLETED", "FAILED"}, batch : SUBSET Stations]
  BY <1>8, <1>9
<1>11. run' = [run EXCEPT ![r] = row] BY <1>2, <1>8 DEF IngestRead
<1>12. /\ Kept
       /\ \A i \in Requests : i # j /\ job[i].op \in Ingesting =>
            run'[job[i].run].status = "RUNNING" /\ job[i].run # r
  BY <1>9, <1>11, RunMoves, run[r].status # "COMPLETED"
<1>13. run'[r].status = "RUNNING" /\ run' \in [Runs -> [status : {"NONE", "RUNNING", "COMPLETED", "FAILED"},
                       batch : SUBSET Stations]]
  BY <1>10, <1>11 DEF IntegrationInv, TypeOK
<1>14. Whole(run', preview) BY <1>12, WholeStays DEF IntegrationInv, PreviewInv
<1>15. y.op = "replace" /\ y.run = r /\ y.rows = preview BY <1>1, <1>2, <1>5
<1>16. JobInv(y)' BY <1>13, <1>14, <1>15 DEF JobInv, Ingesting, Governing
<1>17. job'[j] = y /\ \A i \in Requests : i # j => job'[i] = job[i]
  BY <1>1, <1>3, <1>6
<1>18. UNCHANGED <<preview, review, snapshot, passed, approved>> BY DEF IngestRead
<1>19. JobsInv' /\ OneIngestion'
  BY <1>7, <1>12, <1>15, <1>16, <1>17, <1>18, OneMoves
<1>20. TypeOK' BY <1>7, <1>13, <1>18 DEF IntegrationInv, TypeOK, JobsType
<1> QED BY <1>12, <1>18, <1>19, <1>20, HistoryStays DEF IntegrationInv

(* The end of an ingestion: its run is written, or stays as it is.         *)
LEMMA IngestionEnds ==
  ASSUME IntegrationInv, NEW j \in Requests, NEW r \in Runs, NEW row,
         run[r].status # "COMPLETED", Done(j),
         \A i \in Requests : i # j /\ job[i].op \in Ingesting => job[i].run # r,
         row \in [status : {"NONE", "RUNNING", "COMPLETED", "FAILED"}, batch : SUBSET Stations],
         run' = [run EXCEPT ![r] = row], UNCHANGED <<review, snapshot, passed, approved>>,
         preview' \in SUBSET Rows
  PROVE  /\ Kept
         /\ TypeOK' /\ JobsInv' /\ OneIngestion' /\ ReviewInv' /\ SnapshotInv'
<1>2. /\ Kept
      /\ \A i \in Requests : i # j /\ job[i].op \in Ingesting =>
           run'[job[i].run].status = "RUNNING" /\ job[i].run # r
  BY RunMoves
<1>3. /\ JobsType' /\ job'[j] = NoJob
      /\ \A i \in Requests : i # j => job'[i] = job[i]
  BY EndJob DEF IntegrationInv, TypeOK, JobsType
<1>4. JobInv(NoJob)' BY NoJobType DEF JobInv, Ingesting, Governing
<1>5. NoJob.op \notin Ingesting BY NoJobType DEF Ingesting
<1>6. JobsInv' /\ OneIngestion' BY <1>2, <1>3, <1>4, <1>5, OneMoves
<1>7. TypeOK' BY <1>3 DEF IntegrationInv, TypeOK, JobsType
<1> QED BY <1>2, <1>6, <1>7, HistoryStays

LEMMA IngestCommitStep ==
  ASSUME IntegrationInv, NEW j \in Requests, IngestCommit(j)
  PROVE  IntegrationInv'
<1>1. job[j].op \in Ingesting BY DEF IngestCommit, Ingesting
<1>2. PICK r \in Runs : r = job[j].run BY <1>1, Ingestion
<1>3. /\ run[r].status = "RUNNING" /\ run \in [Runs -> [status : {"NONE", "RUNNING", "COMPLETED", "FAILED"}, batch : SUBSET Stations]]
  BY <1>1, <1>2, Ingestion DEF IntegrationInv, TypeOK
<1>4. PICK row : row = [run[r] EXCEPT !.status = "COMPLETED"] OBVIOUS
<1>5. /\ row.status = "COMPLETED" /\ row.batch = run[r].batch
      /\ row \in [status : {"NONE", "RUNNING", "COMPLETED", "FAILED"}, batch : SUBSET Stations]
  BY <1>3, <1>4
<1>6. run' = [run EXCEPT ![r] = row] BY <1>2, <1>4 DEF IngestCommit
<1>7. PICK rows : rows = job[j].rows OBVIOUS
<1>8. preview' = (preview \ rows) \cup Batch(r) BY <1>2, <1>7 DEF IngestCommit
<1>9. Batch(r) \in SUBSET Rows BY <1>3 DEF Batch, Rows
<1>10. preview' \in SUBSET Rows BY <1>8, <1>9 DEF IntegrationInv, TypeOK
<1>11. /\ Kept
       /\ TypeOK' /\ JobsInv' /\ OneIngestion' /\ ReviewInv' /\ SnapshotInv'
  <2>1. Done(j) /\ UNCHANGED <<review, snapshot, passed, approved>> BY DEF IngestCommit
  <2>2. \A i \in Requests : i # j /\ job[i].op \in Ingesting => job[i].run # r
    BY <1>1, <1>2, Ingestion
  <2>3. run[r].status # "COMPLETED" BY <1>3
  <2> QED BY <1>5, <1>6, <1>10, <2>1, <2>2, <2>3, IngestionEnds
<1>12. Whole(run, rows) /\ Whole(run, preview)
  BY <1>7 DEF IngestCommit, IntegrationInv, JobsInv, JobInv, PreviewInv
<1>13. Batch(r) = BatchIn(run', r) /\ run'[r].status = "COMPLETED"
  BY <1>3, <1>5, <1>6 DEF Batch, BatchIn
<1>14. Whole(run', preview')
  <2> SUFFICES ASSUME NEW q \in Runs
               PROVE \/ {p \in preview' : p[1] = q} = {}
                     \/ {p \in preview' : p[1] = q} = BatchIn(run', q) /\ run'[q].status = "COMPLETED"
    BY DEF Whole
  <2>1. \A p \in Batch(r) : p[1] = r BY DEF Batch
  <2>2. CASE q = r
    <3>1. {p \in preview : p[1] = r} = {} BY <1>3, <1>12 DEF Whole
    <3>2. {p \in preview' : p[1] = r} = Batch(r) BY <3>1, <2>1, <1>8
    <3> QED BY <2>2, <3>2, <1>13
  <2>3. CASE q # r
    <3>1. {p \in preview' : p[1] = q} = {p \in preview : p[1] = q} \ {p \in rows : p[1] = q}
      BY <2>1, <2>3, <1>8
    <3>2. \/ {p \in preview' : p[1] = q} = {}
          \/ {p \in preview' : p[1] = q} = BatchIn(run, q) /\ run[q].status = "COMPLETED"
      BY <3>1, <1>12 DEF Whole
    <3> QED BY <3>2, <1>11 DEF Kept, BatchIn
  <2> QED BY <2>2, <2>3
<1> QED BY <1>11, <1>14 DEF IntegrationInv, PreviewInv

LEMMA IngestFailStep ==
  ASSUME IntegrationInv, NEW j \in Requests, IngestFail(j)
  PROVE  IntegrationInv'
<1>1. job[j].op \in Ingesting BY DEF IngestFail, Ingesting
<1>2. PICK r \in Runs : r = job[j].run BY <1>1, Ingestion
<1>3. PICK row : row = [status |-> "FAILED", batch |-> {}] OBVIOUS
<1>4. row \in [status : {"NONE", "RUNNING", "COMPLETED", "FAILED"}, batch : SUBSET Stations]
  BY <1>3
<1>5. run' = [run EXCEPT ![r] = row] BY <1>2, <1>3 DEF IngestFail
<1>6. Done(j) /\ UNCHANGED <<preview, review, snapshot, passed, approved>> BY DEF IngestFail
<1>7. /\ Kept
      /\ TypeOK' /\ JobsInv' /\ OneIngestion' /\ ReviewInv' /\ SnapshotInv'
  <2>1. run[r].status # "COMPLETED" BY <1>1, <1>2, Ingestion
  <2>2. \A i \in Requests : i # j /\ job[i].op \in Ingesting => job[i].run # r
    BY <1>1, <1>2, Ingestion
  <2>3. preview' \in SUBSET Rows BY <1>6 DEF IntegrationInv, TypeOK
  <2> QED BY <1>4, <1>5, <1>6, <2>1, <2>2, <2>3, IngestionEnds
<1> QED BY <1>6, <1>7, HistoryStays DEF IntegrationInv

LEMMA AbandonStep ==
  ASSUME IntegrationInv, NEW j \in Requests, Abandon(j)
  PROVE  IntegrationInv'
<1>1. Done(j) /\ UNCHANGED <<preview, review, snapshot, passed, approved>> BY DEF Abandon
<1>2. CASE job[j].op \in Ingesting
  <2>1. PICK r \in Runs : r = job[j].run BY <1>2, Ingestion
  <2>2. PICK row : row = [run[r] EXCEPT !.batch = {}] OBVIOUS
  <2>3. row \in [status : {"NONE", "RUNNING", "COMPLETED", "FAILED"}, batch : SUBSET Stations]
    BY <2>1, <2>2, <1>2, Ingestion
  <2>4. run' = [run EXCEPT ![r] = row] BY <1>2, <2>1, <2>2 DEF Abandon, Ingesting
  <2>5. /\ Kept
        /\ TypeOK' /\ JobsInv' /\ OneIngestion' /\ ReviewInv' /\ SnapshotInv'
    <3>1. run[r].status # "COMPLETED" BY <1>2, <2>1, Ingestion
    <3>2. \A i \in Requests : i # j /\ job[i].op \in Ingesting => job[i].run # r
      BY <1>2, <2>1, Ingestion
    <3>3. preview' \in SUBSET Rows BY <1>1 DEF IntegrationInv, TypeOK
    <3> QED BY <1>1, <2>3, <2>4, <3>1, <3>2, <3>3, IngestionEnds
  <2> QED BY <1>1, <2>5, HistoryStays DEF IntegrationInv
<1>3. CASE job[j].op \notin Ingesting
  <2>1. UNCHANGED run BY <1>3 DEF Abandon, Ingesting
  <2>2. JobsType' /\ JobsInv' /\ OneIngestion' BY <1>1, <2>1, CommitEnds
  <2>3. Kept BY <2>1 DEF Kept
  <2>4. TypeOK' BY <1>1, <2>1, <2>2 DEF IntegrationInv, TypeOK, JobsType
  <2> QED BY <1>1, <2>2, <2>3, <2>4, HistoryStays DEF IntegrationInv
<1> QED BY <1>2, <1>3

----------------------------------------------------------------------------
(* The review.                                                             *)

(* A run that can be loaded for publication is not published, so the count *)
(* of published runs leaves room for it.                                   *)
LEMMA CountHasRoom ==
  ASSUME IntegrationInv, NEW r \in Runs, review[r].flow # "PUBLISHED"
  PROVE  Cardinality(Published) \in Nat /\ Cardinality(Published) < MaxRuns
<1>1. IsFiniteSet(Runs) /\ Cardinality(Runs) = MaxRuns
  BY FS_Interval, IntegrationAssumption DEF Runs
<1>2. PICK P \in SUBSET Runs : P = Published BY DEF Published
<1>3. r \notin P BY <1>2 DEF Published
<1>4. IsFiniteSet(P) /\ Cardinality(P) <= Cardinality(Runs) /\ Cardinality(Runs) # Cardinality(P)
  BY <1>1, <1>3, FS_Subset
<1>5. Cardinality(P) \in Nat BY <1>4, FS_CardinalityType
<1>6. Cardinality(P) < MaxRuns BY <1>1, <1>4, <1>5, IntegrationAssumption
<1> QED BY <1>2, <1>5, <1>6

LEMMA LoadStep ==
  ASSUME IntegrationInv, NEW j \in Requests, NEW r \in Runs,
         NEW op \in {"check", "submit", "approve", "reject", "publish"}, Load(j, op, r)
  PROVE  IntegrationInv'
<1> DEFINE n == IF op = "publish" THEN Cardinality(Published) ELSE 0
           x == [NoJob EXCEPT !.op = op, !.run = r, !.review = review[r], !.count = n]
<1>1. MaxRuns > 0 /\ r \in 0 .. MaxRuns BY IntegrationAssumption DEF Runs
<1>2. n \in Nat /\ n < MaxRuns
  <2>1. CASE op = "publish"
    <3>1. review[r].flow # "PUBLISHED" BY <2>1 DEF Load, Ready
    <3> QED BY <2>1, <3>1, CountHasRoom
  <2> QED BY <1>1, <2>1, IntegrationAssumption
<1>3. review[r] \in Review BY DEF IntegrationInv, TypeOK
<1>4. PICK m \in Nat : m = n BY <1>2
<1>5. PICK rev \in Review : rev = review[r] BY <1>3
<1>6. PICK y : y = x OBVIOUS
<1>7. y = [NoJob EXCEPT !.op = op, !.run = r, !.review = rev, !.count = m]
  BY <1>4, <1>5, <1>6
<1>8. NoJob \in Job BY NoJobType
<1>9. y \in Job /\ y.op = op /\ y.run = r /\ y.review = rev /\ y.count = m
  BY <1>1, <1>7, <1>8 DEF Job
<1>10. job' = [job EXCEPT ![j] = y] BY <1>6 DEF Load
<1>11. run[r].status = "COMPLETED" BY DEF Load, Current
<1>12. op = "publish" => r \in passed \cap approved
  <2>1. ASSUME op = "publish" PROVE review[r].quality = "PASSED" /\ review[r].flow = "APPROVED"
    BY <2>1 DEF Load, Ready
  <2> QED BY <2>1 DEF IntegrationInv, ReviewInv
<1>13. JobInv(y) BY <1>9, <1>11, <1>12 DEF JobInv, Ingesting
<1>14. y.op \notin Ingesting BY <1>9 DEF Ingesting
<1>15. UNCHANGED <<run, preview, review, snapshot, passed, approved>> BY DEF Load
<1> QED BY <1>2, <1>4, <1>9, <1>10, <1>13, <1>14, <1>15, OnlyJobMoves

LEMMA ValidateReadStep ==
  ASSUME IntegrationInv, NEW j \in Requests, ValidateRead(j)
  PROVE  IntegrationInv'
<1> DEFINE rows == {p \in preview : p[1] = job[j].run}
           x == [job[j] EXCEPT !.op = "validated", !.rows = rows]
<1>1. /\ job \in [Requests -> Job] /\ job[j].op = "check" /\ job[j].run \in Runs
      /\ job[j].count < MaxRuns /\ JobInv(job[j])
  BY DEF ValidateRead, IntegrationInv, TypeOK, JobsInv
<1>2. PICK set \in SUBSET Rows : set = rows BY DEF IntegrationInv, TypeOK
<1>3. PICK z \in Job : z = job[j] BY <1>1
<1>4. PICK y : y = [z EXCEPT !.op = "validated", !.rows = set] OBVIOUS
<1>5. y \in Job /\ y.op = "validated" /\ y.run = z.run /\ y.count = z.count
  BY <1>4 DEF Job
<1>6. job' = [job EXCEPT ![j] = y] BY <1>1, <1>2, <1>3, <1>4 DEF ValidateRead, Job
<1>7. run[z.run].status = "COMPLETED" BY <1>1, <1>3 DEF JobInv, Governing
<1>8. JobInv(y) BY <1>5, <1>7 DEF JobInv, Ingesting
<1>9. y.op \notin Ingesting BY <1>5 DEF Ingesting
<1>10. UNCHANGED <<run, preview, review, snapshot, passed, approved>> BY DEF ValidateRead
<1> QED BY <1>1, <1>3, <1>5, <1>6, <1>8, <1>9, <1>10, OnlyJobMoves

LEMMA PublishReadStep ==
  ASSUME IntegrationInv, NEW j \in Requests, PublishRead(j)
  PROVE  IntegrationInv'
<1> DEFINE rows == {p \in preview : p[1] = job[j].run}
<1>1. /\ job \in [Requests -> Job] /\ job[j].op = "publish" /\ job[j].run \in Runs
      /\ job[j].count < MaxRuns /\ JobInv(job[j])
  BY DEF PublishRead, IntegrationInv, TypeOK, JobsInv
<1>2. PICK set \in SUBSET Rows : set = rows BY DEF IntegrationInv, TypeOK
<1>3. PICK z \in Job : z = job[j] BY <1>1
<1>4. PICK y : y = [z EXCEPT !.op = "publishing", !.rows = set] OBVIOUS
<1>5. y \in Job /\ y.op = "publishing" /\ y.run = z.run /\ y.count = z.count /\ y.rows = set
  BY <1>4 DEF Job
<1>6. job' = [job EXCEPT ![j] = y] BY <1>1, <1>2, <1>3, <1>4 DEF PublishRead, Job
<1>7. run[z.run].status = "COMPLETED" /\ z.run \in passed \cap approved
  BY <1>1, <1>3 DEF JobInv, Governing
<1>8. set = {} \/ set = BatchIn(run, z.run)
  BY <1>1, <1>2, <1>3 DEF IntegrationInv, PreviewInv, Whole
<1>9. JobInv(y) BY <1>5, <1>7, <1>8 DEF JobInv, Ingesting
<1>10. y.op \notin Ingesting BY <1>5 DEF Ingesting
<1>11. UNCHANGED <<run, preview, review, snapshot, passed, approved>> BY DEF PublishRead
<1> QED BY <1>1, <1>3, <1>5, <1>6, <1>9, <1>10, <1>11, OnlyJobMoves

(* A commit that writes the review row of its run.                         *)
LEMMA ReviewWritten ==
  ASSUME IntegrationInv, NEW j \in Requests, Done(j), UNCHANGED <<run, preview>>,
         NEW r \in Runs, NEW rev \in Review, review' = [review EXCEPT ![r] = rev],
         passed' \in SUBSET Runs, approved' \in SUBSET Runs,
         passed \subseteq passed', approved \subseteq approved',
         run[r].status = "COMPLETED", rev.quality = "PASSED" => r \in passed',
         rev.flow = "APPROVED" => r \in approved',
         rev.flow = "PUBLISHED" => r \in passed' \cap approved'
  PROVE  /\ JobsType' /\ JobsInv' /\ OneIngestion' /\ PreviewInv' /\ ReviewInv'
         /\ UNCHANGED snapshot => IntegrationInv'
<1>1. Kept BY DEF Kept
<1>2. JobsType' /\ JobsInv' /\ OneIngestion' BY CommitEnds
<1>3. PreviewInv' BY <1>1, HistoryStays
<1>4. review \in [Runs -> Review] BY DEF IntegrationInv, TypeOK
<1>5. ReviewInv'
  <2> SUFFICES ASSUME NEW q \in Runs
               PROVE /\ review'[q].flow # "NONE" => run'[q].status = "COMPLETED"
                     /\ review'[q].quality = "PASSED" => q \in passed'
                     /\ review'[q].flow = "APPROVED" => q \in approved'
                     /\ review'[q].flow = "PUBLISHED" => q \in passed' \cap approved'
    BY DEF ReviewInv
  <2>1. CASE q = r BY <2>1, <1>4
  <2>2. CASE q # r
    <3>1. review'[q] = review[q] BY <2>2, <1>4
    <3> QED BY <3>1 DEF IntegrationInv, ReviewInv
  <2> QED BY <2>1, <2>2
<1>6. ASSUME UNCHANGED snapshot PROVE IntegrationInv'
  <2>1. TypeOK' BY <1>2, <1>4, <1>6 DEF IntegrationInv, TypeOK, JobsType
  <2>2. SnapshotInv' BY <1>1, <1>6, HistoryStays
  <2> QED BY <1>2, <1>3, <1>5, <2>1, <2>2 DEF IntegrationInv
<1> QED BY <1>2, <1>3, <1>5, <1>6

(* What a session of the review knows of its run.                          *)
LEMMA Reviewing ==
  ASSUME IntegrationInv, NEW j \in Requests, job[j].op \in Governing
  PROVE  /\ job[j].run \in Runs /\ run[job[j].run].status = "COMPLETED"
         /\ job[j] \in Job /\ job[j].count < MaxRuns
         /\ review[job[j].run] \in Review
         /\ job[j].op \in {"publish", "publishing"} => job[j].run \in passed \cap approved
<1>1. job[j].run \in Runs BY DEF IntegrationInv, TypeOK, Governing
<1> QED BY <1>1 DEF IntegrationInv, TypeOK, JobsInv, JobInv, Governing

LEMMA ValidateCommitStep ==
  ASSUME IntegrationInv, NEW j \in Requests, NEW sound \in BOOLEAN, ValidateCommit(j, sound)
  PROVE  IntegrationInv'
<1> DEFINE old == job[j].review
           quality == Quality(job[j].run, job[j].rows, sound)
           flow == IF quality = "PASSED" THEN "QUALITY_PASSED" ELSE "QUALITY_FAILED"
<1>1. job[j].op \in Governing BY DEF ValidateCommit, Governing
<1>2. PICK r \in Runs : r = job[j].run BY <1>1, Reviewing
<1>3. run[r].status = "COMPLETED" /\ review[r] \in Review BY <1>1, <1>2, Reviewing
<1>4. quality \in {"PASSED", "FAILED"} BY DEF Quality
<1>5. PICK q \in {"PENDING", "PASSED", "FAILED"} :
        q = IF quality # old.quality THEN quality ELSE review[r].quality
  BY <1>3, <1>4 DEF Review
<1>6. PICK f \in Flow : f = IF flow # old.flow THEN flow ELSE review[r].flow
  BY <1>3 DEF Review, Flow
<1>7. PICK rev : rev = [review[r] EXCEPT !.flow = f, !.quality = q] OBVIOUS
<1>8. rev \in Review /\ rev.flow = f /\ rev.quality = q BY <1>3, <1>5, <1>6, <1>7 DEF Review
<1>9. review' = [review EXCEPT ![r] = rev]
  BY <1>2, <1>3, <1>5, <1>6, <1>7 DEF ValidateCommit, IntegrationInv, TypeOK
<1>10. passed' = IF quality = "PASSED" THEN passed \cup {r} ELSE passed
  BY <1>2 DEF ValidateCommit
<1>11. Done(j) /\ UNCHANGED <<run, preview, snapshot, approved>> BY DEF ValidateCommit
<1>12. /\ passed' \in SUBSET Runs /\ approved' \in SUBSET Runs
       /\ passed \subseteq passed' /\ approved \subseteq approved'
  BY <1>10, <1>11 DEF IntegrationInv, TypeOK
<1>13. rev.quality = "PASSED" => r \in passed'
  BY <1>5, <1>8, <1>10 DEF IntegrationInv, ReviewInv
<1>14. f \in {"QUALITY_PASSED", "QUALITY_FAILED", review[r].flow} BY <1>6
<1>15. /\ rev.flow = "APPROVED" => r \in approved'
       /\ rev.flow = "PUBLISHED" => r \in passed' \cap approved'
  BY <1>8, <1>12, <1>14 DEF IntegrationInv, ReviewInv
<1> QED BY <1>3, <1>8, <1>9, <1>11, <1>12, <1>13, <1>15, ReviewWritten

LEMMA SubmitStep ==
  ASSUME IntegrationInv, NEW j \in Requests, SubmitCommit(j)
  PROVE  IntegrationInv'
<1>1. job[j].op \in Governing BY DEF SubmitCommit, Governing
<1>2. PICK r \in Runs : r = job[j].run BY <1>1, Reviewing
<1>3. run[r].status = "COMPLETED" /\ review[r] \in Review BY <1>1, <1>2, Reviewing
<1>4. PICK rev : rev = [review[r] EXCEPT !.flow = "PENDING_APPROVAL"] OBVIOUS
<1>5. rev \in Review /\ rev.flow = "PENDING_APPROVAL" /\ rev.quality = review[r].quality
  BY <1>3, <1>4 DEF Review, Flow
<1>6. review' = [review EXCEPT ![r] = rev] BY <1>2, <1>4 DEF SubmitCommit
<1>7. Done(j) /\ UNCHANGED <<run, preview, snapshot, passed, approved>> BY DEF SubmitCommit
<1>8. passed' \in SUBSET Runs /\ approved' \in SUBSET Runs
  BY <1>7 DEF IntegrationInv, TypeOK
<1>9. rev.quality = "PASSED" => r \in passed' BY <1>5, <1>7 DEF IntegrationInv, ReviewInv
<1> QED BY <1>3, <1>5, <1>6, <1>7, <1>8, <1>9, ReviewWritten

LEMMA DecideStep ==
  ASSUME IntegrationInv, NEW j \in Requests, DecideCommit(j)
  PROVE  IntegrationInv'
<1> DEFINE flow == IF job[j].op = "approve" THEN "APPROVED" ELSE "REJECTED"
<1>1. job[j].op \in Governing BY DEF DecideCommit, Governing
<1>2. PICK r \in Runs : r = job[j].run BY <1>1, Reviewing
<1>3. run[r].status = "COMPLETED" /\ review[r] \in Review BY <1>1, <1>2, Reviewing
<1>4. PICK f \in {"APPROVED", "REJECTED"} : f = flow OBVIOUS
<1>5. PICK rev : rev = [review[r] EXCEPT !.flow = f] OBVIOUS
<1>6. rev \in Review /\ rev.flow = f /\ rev.quality = review[r].quality
  BY <1>3, <1>5 DEF Review, Flow
<1>7. review' = [review EXCEPT ![r] = rev] BY <1>2, <1>4, <1>5 DEF DecideCommit
<1>8. Done(j) /\ UNCHANGED <<run, preview, snapshot, passed>> BY DEF DecideCommit
<1>9. approved' = IF f = "APPROVED" THEN approved \cup {r} ELSE approved
  BY <1>2, <1>4 DEF DecideCommit
<1>10. /\ passed' \in SUBSET Runs /\ approved' \in SUBSET Runs /\ approved \subseteq approved'
  BY <1>8, <1>9 DEF IntegrationInv, TypeOK
<1>11. rev.quality = "PASSED" => r \in passed' BY <1>6, <1>8 DEF IntegrationInv, ReviewInv
<1>12. rev.flow = "APPROVED" => r \in approved' BY <1>6, <1>9
<1>13. rev.flow # "PUBLISHED" BY <1>6
<1> QED BY <1>3, <1>6, <1>7, <1>8, <1>10, <1>11, <1>12, <1>13, ReviewWritten

(* A publication writes a snapshot only where there was none.              *)
LEMMA PublishWrites ==
  ASSUME IntegrationInv, NEW j \in Requests, PublishCommit(j), NEW r \in Runs, r = job[j].run
  PROVE  /\ snapshot'[r] = snapshot[r] \cup job[j].rows
         /\ snapshot[r] # {} => job[j].rows = {}
         /\ snapshot'[r] = {} \/ snapshot'[r] = BatchIn(run, r)
         /\ \A q \in Runs : q # r => snapshot'[q] = snapshot[q]
         /\ snapshot' \in [Runs -> SUBSET Rows]
<1>1. snapshot \in [Runs -> SUBSET Rows] /\ job[j].rows \in SUBSET Rows
  BY DEF IntegrationInv, TypeOK, Job
<1>2. snapshot' = [snapshot EXCEPT ![r] = snapshot[r] \cup job[j].rows]
      /\ snapshot[r] \cap job[j].rows = {}
  BY DEF PublishCommit
<1>3. job[j].rows = {} \/ job[j].rows = BatchIn(run, r)
  BY DEF PublishCommit, IntegrationInv, JobsInv, JobInv
<1>4. snapshot[r] = {} \/ snapshot[r] = BatchIn(run, r) BY DEF IntegrationInv, SnapshotInv
<1>5. snapshot[r] # {} => job[j].rows = {} BY <1>2, <1>3, <1>4
<1>6. snapshot'[r] = snapshot[r] \cup job[j].rows BY <1>1, <1>2
<1>7. snapshot'[r] = {} \/ snapshot'[r] = BatchIn(run, r) BY <1>3, <1>4, <1>5, <1>6
<1>8. snapshot' \in [Runs -> SUBSET Rows] /\ \A q \in Runs : q # r => snapshot'[q] = snapshot[q]
  BY <1>1, <1>2
<1> QED BY <1>5, <1>6, <1>7, <1>8

LEMMA PublishStep ==
  ASSUME IntegrationInv, NEW j \in Requests, PublishCommit(j)
  PROVE  IntegrationInv'
<1>1. job[j].op \in Governing /\ job[j].op = "publishing" BY DEF PublishCommit, Governing
<1>2. PICK r \in Runs : r = job[j].run BY <1>1, Reviewing
<1>3. /\ run[r].status = "COMPLETED" /\ review[r] \in Review /\ r \in passed \cap approved
      /\ job[j].count \in Nat /\ job[j].count < MaxRuns
  BY <1>1, <1>2, Reviewing DEF Job
<1>4. PICK n \in 0 .. MaxRuns : n = job[j].count + 1 BY <1>3, IntegrationAssumption
<1>5. PICK rev : rev = [review[r] EXCEPT !.flow = "PUBLISHED", !.version = n] OBVIOUS
<1>6. rev \in Review /\ rev.flow = "PUBLISHED" BY <1>3, <1>5 DEF Review, Flow
<1>7. review' = [review EXCEPT ![r] = rev]
  BY <1>2, <1>4, <1>5, <1>3 DEF PublishCommit, IntegrationInv, TypeOK
<1>8. Done(j) /\ UNCHANGED <<run, preview, passed, approved>> BY DEF PublishCommit
<1>9. passed' \in SUBSET Runs /\ approved' \in SUBSET Runs BY <1>8 DEF IntegrationInv, TypeOK
<1>10. JobsType' /\ JobsInv' /\ OneIngestion' /\ PreviewInv' /\ ReviewInv'
  BY <1>3, <1>6, <1>7, <1>8, <1>9, ReviewWritten
<1>11. /\ snapshot'[r] = {} \/ snapshot'[r] = BatchIn(run, r)
       /\ \A q \in Runs : q # r => snapshot'[q] = snapshot[q]
       /\ snapshot' \in [Runs -> SUBSET Rows]
  BY <1>2, PublishWrites
<1>12. SnapshotInv' BY <1>3, <1>8, <1>11 DEF IntegrationInv, SnapshotInv, BatchIn
<1>13. review' \in [Runs -> Review] BY <1>6, <1>7 DEF IntegrationInv, TypeOK
<1>14. TypeOK' BY <1>8, <1>9, <1>10, <1>11, <1>13 DEF IntegrationInv, TypeOK, JobsType
<1> QED BY <1>10, <1>12, <1>14 DEF IntegrationInv

----------------------------------------------------------------------------
(* The theorems.                                                           *)

LEMMA InitHolds == Init => IntegrationInv
<1> SUFFICES ASSUME Init PROVE IntegrationInv OBVIOUS
<1>1. NoJob \in Job /\ NoJob.op = "idle" BY NoJobType
<1>2. NoReview \in Review /\ NoReview.flow = "NONE" /\ NoReview.quality = "PENDING"
  BY NoReviewType DEF NoReview
<1>3. TypeOK BY <1>1, <1>2 DEF Init, TypeOK
<1>4. JobsInv /\ OneIngestion BY <1>1 DEF Init, JobsInv, JobInv, OneIngestion, Ingesting, Governing
<1>5. PreviewInv /\ ReviewInv /\ SnapshotInv
  BY <1>2 DEF Init, PreviewInv, Whole, ReviewInv, SnapshotInv
<1> QED BY <1>3, <1>4, <1>5 DEF IntegrationInv

LEMMA StutterHolds ==
  ASSUME IntegrationInv, UNCHANGED vars
  PROVE  IntegrationInv'
BY DEF IntegrationInv, TypeOK, JobsInv, JobInv, OneIngestion, PreviewInv, Whole, BatchIn, ReviewInv,
       SnapshotInv, vars

LEMMA NextHolds == IntegrationInv /\ [Next]_vars => IntegrationInv'
<1> SUFFICES ASSUME IntegrationInv, [Next]_vars PROVE IntegrationInv' OBVIOUS
<1>1. ASSUME NEW j \in Requests, Ingest(j) PROVE IntegrationInv'
  BY <1>1, IngestStartStep, IngestReadStep, IngestCommitStep, IngestFailStep DEF Ingest
<1>2. ASSUME NEW j \in Requests, Govern(j) PROVE IntegrationInv'
  BY <1>2, LoadStep, ValidateReadStep, ValidateCommitStep, SubmitStep, DecideStep,
     PublishReadStep, PublishStep DEF Govern
<1>3. ASSUME NEW j \in Requests, Abandon(j) PROVE IntegrationInv' BY <1>3, AbandonStep
<1>4. CASE UNCHANGED vars BY <1>4, StutterHolds
<1> QED BY <1>1, <1>2, <1>3, <1>4 DEF Next

THEOREM InvariantHolds == Spec => []IntegrationInv
BY InitHolds, NextHolds, PTL DEF Spec

(* Whatever requests overlap, fail or stop, for any number of runs: the    *)
(* preview never holds a part of a batch, what is published is the batch   *)
(* that passed and was approved, and only completed runs are reviewed      *)
(* (data_integration.py).                                                  *)
THEOREM IntegrationIsSafe == Spec => []IntegrationSafe
<1>1. IntegrationInv => IntegrationSafe
  <2> SUFFICES ASSUME IntegrationInv PROVE IntegrationSafe OBVIOUS
  <2>1. TypeOK BY DEF IntegrationInv
  <2>2. PreviewHoldsWholeBatches
    BY DEF IntegrationInv, PreviewInv, Whole, BatchIn, Batch, PreviewHoldsWholeBatches
  <2>3. PublishedWasApproved
    BY DEF IntegrationInv, ReviewInv, SnapshotInv, BatchIn, Batch, PublishedWasApproved
  <2>4. OnlyCompletedRunsReviewed
    BY DEF IntegrationInv, ReviewInv, SnapshotInv, OnlyCompletedRunsReviewed
  <2> QED BY <2>1, <2>2, <2>3, <2>4 DEF IntegrationSafe
<1> QED BY <1>1, InvariantHolds, PTL

(* No step adds, removes or replaces a row of a snapshot that has rows, a  *)
(* second publication of the same run included (publish_review).           *)
THEOREM SnapshotsStay == Spec => SnapshotIsImmutable
<1> DEFINE Stays == \A r \in Runs : snapshot[r] # {} => snapshot'[r] = snapshot[r]
<1>1. IntegrationInv /\ [Next]_vars => [Stays]_vars
  <2> SUFFICES ASSUME IntegrationInv, [Next]_vars PROVE Stays OBVIOUS
  <2>1. ASSUME NEW j \in Requests, PublishCommit(j) PROVE Stays
    <3>1. job[j].op \in Governing BY <2>1 DEF PublishCommit, Governing
    <3>2. PICK r \in Runs : r = job[j].run BY <3>1, Reviewing
    <3>3. /\ snapshot'[r] = snapshot[r] \cup job[j].rows
          /\ snapshot[r] # {} => job[j].rows = {}
          /\ \A q \in Runs : q # r => snapshot'[q] = snapshot[q]
      BY <2>1, <3>2, PublishWrites
    <3> QED BY <3>3
  <2>2. ASSUME NEW j \in Requests, Ingest(j) PROVE UNCHANGED snapshot
    BY <2>2 DEF Ingest, IngestStart, IngestRead, IngestCommit, IngestFail
  <2>3. ASSUME NEW j \in Requests, Govern(j), ~PublishCommit(j) PROVE UNCHANGED snapshot
    BY <2>3 DEF Govern, Load, ValidateRead, ValidateCommit, SubmitCommit, DecideCommit, PublishRead
  <2>4. ASSUME NEW j \in Requests, Abandon(j) PROVE UNCHANGED snapshot BY <2>4 DEF Abandon
  <2>5. UNCHANGED vars => UNCHANGED snapshot BY DEF vars
  <2>6. UNCHANGED snapshot => Stays OBVIOUS
  <2> QED BY <2>1, <2>2, <2>3, <2>4, <2>5, <2>6 DEF Next
<1>2. Spec => [][Stays]_vars BY <1>1, InvariantHolds, PTL DEF Spec
<1> QED BY <1>2 DEF SnapshotIsImmutable

----------------------------------------------------------------------------
(* Logins.  Two arguments meet.  A transaction is taken out of Redis before*)
(* a callback works on it, so the callback is the only one that can store  *)
(* a session for it (LogCallbacksOwn, LogSessionsAreStored).  A session    *)
(* comes to life by being stored, and it is stored once: what a logout     *)
(* took from it stays gone (LogLogoutsHold), and a request that passes the *)
(* checks in the order of the middleware has seen each of them in force    *)
(* after it began (LogChecksStop).                                         *)

(* The mark of a session that was never stored is not a transaction.       *)
LogNoneIsNoState == Logins!None \notin States

LogWorking == {"consumed", "exchanged", "resolved"}

(* A callback owns its transaction, and its session until it is stored.    *)
LogCallbacksOwn ==
  /\ \A c \in Callbacks : oCallback[c].at # "idle" =>
       oCallback[c].s \in States /\ oTransaction[oCallback[c].s] = "gone"
  /\ \A c, d \in Callbacks :
       oCallback[c].at # "idle" /\ oCallback[d].at # "idle" /\ oCallback[c].s = oCallback[d].s
         => c = d
  /\ \A c \in Callbacks : oCallback[c].at \in LogWorking =>
       \A i \in Sids : oOrigin[i] # oCallback[c].s
  /\ \A c \in Callbacks : oCallback[c].at \in {"exchanged", "resolved"} =>
       /\ oCallback[c].sid \in oUpstream /\ oOrigin[oCallback[c].sid] = Logins!None
       /\ \A d \in Callbacks : oCallback[d].at \in {"exchanged", "resolved"}
            /\ oCallback[d].sid = oCallback[c].sid => c = d
  /\ \A c \in Callbacks : oCallback[c].at = "stored" =>
       oCallback[c].sid \in Sids /\ oOrigin[oCallback[c].sid] # Logins!None

(* Sessions are those of transactions that are gone; nothing that is live, *)
(* issued or ended has not been stored.                                    *)
LogSessionsAreStored ==
  /\ \A s \in States, i \in Sids : oOrigin[i] = s => oTransaction[s] = "gone"
  /\ \A i \in oLive \cup oIssued \cup oEnded : oOrigin[i] # Logins!None
  /\ \A r \in Requests : oRequest[r].at # "idle" => oRequest[r].sid \in oIssued

(* What a logout has taken from a session stays gone.                      *)
LogLogoutsHold ==
  /\ \A r \in Requests : oRequest[r].at \in {"deleted", "posted", "failed"} =>
       oRequest[r].sid \notin oLive
  /\ \A r \in Requests : oRequest[r].at = "posted" => oRequest[r].sid \notin oUpstream
  /\ \A i \in oEnded : i \notin oLive
  /\ \A i \in Sids : <<"SUCCESS", i>> \in oLog => i \in oEnded

(* What was off when a request began, and still is, stops it at its check. *)
LogChecksStop ==
  /\ \A r \in Requests : oRequest[r].off \cap oInForce = {}
  /\ \A r \in Requests : "session" \in oRequest[r].off => oRequest[r].sid \in oEnded
  /\ \A r \in Requests :
       /\ oRequest[r].at \in {"session", "principal", "again"} \cup Logins!Admitted =>
            "user" \notin oRequest[r].off
       /\ oRequest[r].at \in {"principal", "again"} \cup Logins!Admitted =>
            "session" \notin oRequest[r].off
       /\ oRequest[r].at \in {"again"} \cup Logins!Admitted => "principal" \notin oRequest[r].off

LogInv == Logins!SessionsSafe /\ LogCallbacksOwn /\ LogSessionsAreStored /\ LogLogoutsHold /\ LogChecksStop

------------------------------------------------------------------------------
(* A callback that moves on, or learns its session, is still one.          *)
LogCallbackRow == [at : {"idle", "consumed", "exchanged", "resolved", "stored"},
                s : States \cup {Logins!None}, sid : Sids \cup {Logins!None}]

LEMMA LogRowUpdates ==
  ASSUME NEW f \in [Callbacks -> LogCallbackRow], NEW c \in Callbacks
  PROVE  /\ [f EXCEPT ![c].at = "resolved"] \in [Callbacks -> LogCallbackRow]
         /\ \A i \in Sids : [f EXCEPT ![c].at = "exchanged", ![c].sid = i]
                              \in [Callbacks -> LogCallbackRow]
<1>1. [f[c] EXCEPT !.at = "resolved"] \in LogCallbackRow
  BY DEF LogCallbackRow
<1>2. ASSUME NEW i \in Sids
      PROVE  [[f[c] EXCEPT !.at = "exchanged"] EXCEPT !.sid = i] \in LogCallbackRow
  BY DEF LogCallbackRow
<1> QED
  BY <1>1, <1>2

(* Every step keeps the types.                                             *)
LEMMA LogTypesStay ==
  ASSUME LogNoneIsNoState, Logins!TypeOK, LogSessionsAreStored, LogCallbacksOwn, [Logins!Next]_(Logins!vars)
  PROVE  Logins!TypeOK'
<1> USE DEF LogNoneIsNoState, Logins!TypeOK, LogSessionsAreStored, LogCallbacksOwn, Logins!None, Logins!Admitted
<1>1. ASSUME NEW s \in States, Logins!Start(s)
      PROVE  Logins!TypeOK'
  BY <1>1 DEF Logins!Start
<1>2. ASSUME NEW s \in States, Logins!TransactionExpires(s)
      PROVE  Logins!TypeOK'
  BY <1>2 DEF Logins!TransactionExpires
<1>3. ASSUME NEW c \in Callbacks, NEW s \in States, Logins!Consume(c, s)
      PROVE  Logins!TypeOK'
  BY <1>3 DEF Logins!Consume
<1>4. ASSUME NEW c \in Callbacks, NEW i \in Sids, Logins!Exchange(c, i)
      PROVE  Logins!TypeOK'
  <2>1. oCallback' \in [Callbacks -> LogCallbackRow]
    BY <1>4, LogRowUpdates DEF Logins!Exchange, LogCallbackRow
  <2> QED
    BY <1>4, <2>1 DEF Logins!Exchange, LogCallbackRow
<1>5. ASSUME NEW c \in Callbacks, Logins!Resolve(c)
      PROVE  Logins!TypeOK'
  <2>1. oCallback' \in [Callbacks -> LogCallbackRow]
    BY <1>5, LogRowUpdates DEF Logins!Resolve, LogCallbackRow
  <2> QED
    BY <1>5, <2>1 DEF Logins!Resolve, LogCallbackRow
<1>6. ASSUME NEW c \in Callbacks, Logins!CreateSession(c)
      PROVE  Logins!TypeOK'
  BY <1>6 DEF Logins!CreateSession
<1>7. ASSUME NEW c \in Callbacks, Logins!Issue(c)
      PROVE  Logins!TypeOK'
  BY <1>7 DEF Logins!Issue, Logins!IdleCallback
<1>8. ASSUME NEW c \in Callbacks, Logins!CallbackFails(c)
      PROVE  Logins!TypeOK'
  BY <1>8 DEF Logins!CallbackFails, Logins!IdleCallback
<1>9. ASSUME NEW r \in Requests, NEW i \in Sids, Logins!Arrive(r, i)
      PROVE  Logins!TypeOK'
  BY <1>9 DEF Logins!Arrive
<1>10. ASSUME NEW r \in Requests, Logins!CheckUser(r)
      PROVE  Logins!TypeOK'
  BY <1>10 DEF Logins!CheckUser, Logins!Check
<1>11. ASSUME NEW r \in Requests, Logins!CheckSession(r)
      PROVE  Logins!TypeOK'
  BY <1>11 DEF Logins!CheckSession, Logins!Check
<1>12. ASSUME NEW r \in Requests, Logins!CheckPrincipal(r)
      PROVE  Logins!TypeOK'
  BY <1>12 DEF Logins!CheckPrincipal, Logins!Check
<1>13. ASSUME NEW r \in Requests, Logins!Admit(r)
      PROVE  Logins!TypeOK'
  BY <1>13 DEF Logins!Admit, Logins!Check
<1>14. ASSUME NEW r \in Requests, Logins!Leave(r)
      PROVE  Logins!TypeOK'
  BY <1>14 DEF Logins!Leave, Logins!IdleRequest
<1>15. ASSUME NEW r \in Requests, Logins!FindSession(r)
      PROVE  Logins!TypeOK'
  BY <1>15 DEF Logins!FindSession, Logins!Check
<1>16. ASSUME NEW r \in Requests, Logins!DeleteSession(r)
      PROVE  Logins!TypeOK'
  BY <1>16 DEF Logins!DeleteSession
<1>17. ASSUME NEW r \in Requests, Logins!UpstreamFails(r)
      PROVE  Logins!TypeOK'
  BY <1>17 DEF Logins!UpstreamFails, Logins!Check
<1>18. ASSUME NEW r \in Requests, NEW heard \in BOOLEAN, Logins!EndUpstream(r, heard)
      PROVE  Logins!TypeOK'
  BY <1>18 DEF Logins!EndUpstream
<1>19. ASSUME NEW r \in Requests, Logins!Answer(r)
      PROVE  Logins!TypeOK'
  BY <1>19 DEF Logins!Answer, Logins!IdleRequest
<1>20. ASSUME NEW r \in Requests, Logins!LogoutStops(r)
      PROVE  Logins!TypeOK'
  BY <1>20 DEF Logins!LogoutStops, Logins!IdleRequest
<1>21. ASSUME NEW x \in {"user", "principal"}, Logins!SwitchOff(x)
      PROVE  Logins!TypeOK'
  BY <1>21 DEF Logins!SwitchOff
<1>22. ASSUME NEW x \in {"user", "principal"}, Logins!SwitchOn(x)
      PROVE  Logins!TypeOK'
  BY <1>22 DEF Logins!SwitchOn
<1>23. ASSUME NEW i \in Sids, Logins!SessionExpires(i)
      PROVE  Logins!TypeOK'
  BY <1>23 DEF Logins!SessionExpires
<1>24. CASE UNCHANGED Logins!vars
  BY <1>24 DEF Logins!vars
<1> HIDE DEF LogNoneIsNoState, Logins!TypeOK, LogSessionsAreStored, LogCallbacksOwn, Logins!None, Logins!Admitted
<1> QED
  BY <1>1, <1>2, <1>3, <1>4, <1>5, <1>6, <1>7, <1>8, <1>9, <1>10, <1>11, <1>12,
     <1>13, <1>14, <1>15, <1>16, <1>17, <1>18, <1>19, <1>20, <1>21, <1>22, <1>23, <1>24 DEF Logins!Next

(* A transaction that is consumed has no other callback and no session yet.*)
LEMMA LogOwnershipStays ==
  ASSUME LogNoneIsNoState, Logins!TypeOK, LogCallbacksOwn, LogSessionsAreStored, LogLogoutsHold,
         [Logins!Next]_(Logins!vars)
  PROVE  LogCallbacksOwn'
<1> USE DEF LogNoneIsNoState, Logins!TypeOK, LogCallbacksOwn, LogSessionsAreStored,
          LogLogoutsHold, LogWorking, Logins!None
<1>1. ASSUME NEW s \in States, Logins!Start(s)
      PROVE  LogCallbacksOwn'
  BY <1>1 DEF Logins!Start
<1>2. ASSUME NEW s \in States, Logins!TransactionExpires(s)
      PROVE  LogCallbacksOwn'
  BY <1>2 DEF Logins!TransactionExpires
<1>3. ASSUME NEW c \in Callbacks, NEW s \in States, Logins!Consume(c, s)
      PROVE  LogCallbacksOwn'
  BY <1>3 DEF Logins!Consume
<1>4. ASSUME NEW c \in Callbacks, NEW i \in Sids, Logins!Exchange(c, i)
      PROVE  LogCallbacksOwn'
  BY <1>4 DEF Logins!Exchange
<1>5. ASSUME NEW c \in Callbacks, Logins!Resolve(c)
      PROVE  LogCallbacksOwn'
  BY <1>5 DEF Logins!Resolve
<1>6. ASSUME NEW c \in Callbacks, Logins!CreateSession(c)
      PROVE  LogCallbacksOwn'
  BY <1>6 DEF Logins!CreateSession
<1>7. ASSUME NEW c \in Callbacks, Logins!Issue(c)
      PROVE  LogCallbacksOwn'
  BY <1>7 DEF Logins!Issue, Logins!IdleCallback
<1>8. ASSUME NEW c \in Callbacks, Logins!CallbackFails(c)
      PROVE  LogCallbacksOwn'
  BY <1>8 DEF Logins!CallbackFails, Logins!IdleCallback
<1>9. ASSUME NEW r \in Requests, NEW i \in Sids, Logins!Arrive(r, i)
      PROVE  LogCallbacksOwn'
  BY <1>9 DEF Logins!Arrive
<1>10. ASSUME NEW r \in Requests, Logins!CheckUser(r)
      PROVE  LogCallbacksOwn'
  BY <1>10 DEF Logins!CheckUser, Logins!Check
<1>11. ASSUME NEW r \in Requests, Logins!CheckSession(r)
      PROVE  LogCallbacksOwn'
  BY <1>11 DEF Logins!CheckSession, Logins!Check
<1>12. ASSUME NEW r \in Requests, Logins!CheckPrincipal(r)
      PROVE  LogCallbacksOwn'
  BY <1>12 DEF Logins!CheckPrincipal, Logins!Check
<1>13. ASSUME NEW r \in Requests, Logins!Admit(r)
      PROVE  LogCallbacksOwn'
  BY <1>13 DEF Logins!Admit, Logins!Check
<1>14. ASSUME NEW r \in Requests, Logins!Leave(r)
      PROVE  LogCallbacksOwn'
  BY <1>14 DEF Logins!Leave, Logins!IdleRequest
<1>15. ASSUME NEW r \in Requests, Logins!FindSession(r)
      PROVE  LogCallbacksOwn'
  BY <1>15 DEF Logins!FindSession, Logins!Check
<1>16. ASSUME NEW r \in Requests, Logins!DeleteSession(r)
      PROVE  LogCallbacksOwn'
  BY <1>16 DEF Logins!DeleteSession
<1>17. ASSUME NEW r \in Requests, Logins!UpstreamFails(r)
      PROVE  LogCallbacksOwn'
  BY <1>17 DEF Logins!UpstreamFails, Logins!Check
<1>18. ASSUME NEW r \in Requests, NEW heard \in BOOLEAN, Logins!EndUpstream(r, heard)
      PROVE  LogCallbacksOwn'
  BY <1>18 DEF Logins!EndUpstream
<1>19. ASSUME NEW r \in Requests, Logins!Answer(r)
      PROVE  LogCallbacksOwn'
  BY <1>19 DEF Logins!Answer, Logins!IdleRequest
<1>20. ASSUME NEW r \in Requests, Logins!LogoutStops(r)
      PROVE  LogCallbacksOwn'
  BY <1>20 DEF Logins!LogoutStops, Logins!IdleRequest
<1>21. ASSUME NEW x \in {"user", "principal"}, Logins!SwitchOff(x)
      PROVE  LogCallbacksOwn'
  BY <1>21 DEF Logins!SwitchOff
<1>22. ASSUME NEW x \in {"user", "principal"}, Logins!SwitchOn(x)
      PROVE  LogCallbacksOwn'
  BY <1>22 DEF Logins!SwitchOn
<1>23. ASSUME NEW i \in Sids, Logins!SessionExpires(i)
      PROVE  LogCallbacksOwn'
  BY <1>23 DEF Logins!SessionExpires
<1>24. CASE UNCHANGED Logins!vars
  BY <1>24 DEF Logins!vars
<1> HIDE DEF LogNoneIsNoState, Logins!TypeOK, LogCallbacksOwn, LogSessionsAreStored,
          LogLogoutsHold, LogWorking, Logins!None
<1> QED
  BY <1>1, <1>2, <1>3, <1>4, <1>5, <1>6, <1>7, <1>8, <1>9, <1>10, <1>11, <1>12,
     <1>13, <1>14, <1>15, <1>16, <1>17, <1>18, <1>19, <1>20, <1>21, <1>22, <1>23, <1>24 DEF Logins!Next

(* Only stored sessions are live, issued or ended.                         *)
LEMMA LogStoredStays ==
  ASSUME LogNoneIsNoState, Logins!TypeOK, LogCallbacksOwn, LogSessionsAreStored, [Logins!Next]_(Logins!vars)
  PROVE  LogSessionsAreStored'
<1> USE DEF LogNoneIsNoState, Logins!TypeOK, LogCallbacksOwn, LogSessionsAreStored, LogWorking, Logins!None
<1>1. ASSUME NEW s \in States, Logins!Start(s)
      PROVE  LogSessionsAreStored'
  BY <1>1 DEF Logins!Start
<1>2. ASSUME NEW s \in States, Logins!TransactionExpires(s)
      PROVE  LogSessionsAreStored'
  BY <1>2 DEF Logins!TransactionExpires
<1>3. ASSUME NEW c \in Callbacks, NEW s \in States, Logins!Consume(c, s)
      PROVE  LogSessionsAreStored'
  BY <1>3 DEF Logins!Consume
<1>4. ASSUME NEW c \in Callbacks, NEW i \in Sids, Logins!Exchange(c, i)
      PROVE  LogSessionsAreStored'
  BY <1>4 DEF Logins!Exchange
<1>5. ASSUME NEW c \in Callbacks, Logins!Resolve(c)
      PROVE  LogSessionsAreStored'
  BY <1>5 DEF Logins!Resolve
<1>6. ASSUME NEW c \in Callbacks, Logins!CreateSession(c)
      PROVE  LogSessionsAreStored'
  BY <1>6 DEF Logins!CreateSession
<1>7. ASSUME NEW c \in Callbacks, Logins!Issue(c)
      PROVE  LogSessionsAreStored'
  BY <1>7 DEF Logins!Issue, Logins!IdleCallback
<1>8. ASSUME NEW c \in Callbacks, Logins!CallbackFails(c)
      PROVE  LogSessionsAreStored'
  BY <1>8 DEF Logins!CallbackFails, Logins!IdleCallback
<1>9. ASSUME NEW r \in Requests, NEW i \in Sids, Logins!Arrive(r, i)
      PROVE  LogSessionsAreStored'
  BY <1>9 DEF Logins!Arrive
<1>10. ASSUME NEW r \in Requests, Logins!CheckUser(r)
      PROVE  LogSessionsAreStored'
  BY <1>10 DEF Logins!CheckUser, Logins!Check
<1>11. ASSUME NEW r \in Requests, Logins!CheckSession(r)
      PROVE  LogSessionsAreStored'
  BY <1>11 DEF Logins!CheckSession, Logins!Check
<1>12. ASSUME NEW r \in Requests, Logins!CheckPrincipal(r)
      PROVE  LogSessionsAreStored'
  BY <1>12 DEF Logins!CheckPrincipal, Logins!Check
<1>13. ASSUME NEW r \in Requests, Logins!Admit(r)
      PROVE  LogSessionsAreStored'
  BY <1>13 DEF Logins!Admit, Logins!Check
<1>14. ASSUME NEW r \in Requests, Logins!Leave(r)
      PROVE  LogSessionsAreStored'
  BY <1>14 DEF Logins!Leave, Logins!IdleRequest
<1>15. ASSUME NEW r \in Requests, Logins!FindSession(r)
      PROVE  LogSessionsAreStored'
  BY <1>15 DEF Logins!FindSession, Logins!Check
<1>16. ASSUME NEW r \in Requests, Logins!DeleteSession(r)
      PROVE  LogSessionsAreStored'
  BY <1>16 DEF Logins!DeleteSession
<1>17. ASSUME NEW r \in Requests, Logins!UpstreamFails(r)
      PROVE  LogSessionsAreStored'
  BY <1>17 DEF Logins!UpstreamFails, Logins!Check
<1>18. ASSUME NEW r \in Requests, NEW heard \in BOOLEAN, Logins!EndUpstream(r, heard)
      PROVE  LogSessionsAreStored'
  BY <1>18 DEF Logins!EndUpstream
<1>19. ASSUME NEW r \in Requests, Logins!Answer(r)
      PROVE  LogSessionsAreStored'
  BY <1>19 DEF Logins!Answer, Logins!IdleRequest
<1>20. ASSUME NEW r \in Requests, Logins!LogoutStops(r)
      PROVE  LogSessionsAreStored'
  BY <1>20 DEF Logins!LogoutStops, Logins!IdleRequest
<1>21. ASSUME NEW x \in {"user", "principal"}, Logins!SwitchOff(x)
      PROVE  LogSessionsAreStored'
  BY <1>21 DEF Logins!SwitchOff
<1>22. ASSUME NEW x \in {"user", "principal"}, Logins!SwitchOn(x)
      PROVE  LogSessionsAreStored'
  BY <1>22 DEF Logins!SwitchOn
<1>23. ASSUME NEW i \in Sids, Logins!SessionExpires(i)
      PROVE  LogSessionsAreStored'
  BY <1>23 DEF Logins!SessionExpires
<1>24. CASE UNCHANGED Logins!vars
  BY <1>24 DEF Logins!vars
<1> HIDE DEF LogNoneIsNoState, Logins!TypeOK, LogCallbacksOwn, LogSessionsAreStored, LogWorking, Logins!None
<1> QED
  BY <1>1, <1>2, <1>3, <1>4, <1>5, <1>6, <1>7, <1>8, <1>9, <1>10, <1>11, <1>12,
     <1>13, <1>14, <1>15, <1>16, <1>17, <1>18, <1>19, <1>20, <1>21, <1>22, <1>23, <1>24 DEF Logins!Next

(* Nothing brings back what a logout took.                                 *)
LEMMA LogLogoutsStay ==
  ASSUME LogNoneIsNoState, Logins!TypeOK, LogCallbacksOwn, LogSessionsAreStored, LogLogoutsHold,
         [Logins!Next]_(Logins!vars)
  PROVE  LogLogoutsHold'
<1> USE DEF LogNoneIsNoState, Logins!TypeOK, LogCallbacksOwn, LogSessionsAreStored,
          LogLogoutsHold, LogWorking, Logins!None
<1>1. ASSUME NEW s \in States, Logins!Start(s)
      PROVE  LogLogoutsHold'
  BY <1>1 DEF Logins!Start
<1>2. ASSUME NEW s \in States, Logins!TransactionExpires(s)
      PROVE  LogLogoutsHold'
  BY <1>2 DEF Logins!TransactionExpires
<1>3. ASSUME NEW c \in Callbacks, NEW s \in States, Logins!Consume(c, s)
      PROVE  LogLogoutsHold'
  BY <1>3 DEF Logins!Consume
<1>4. ASSUME NEW c \in Callbacks, NEW i \in Sids, Logins!Exchange(c, i)
      PROVE  LogLogoutsHold'
  BY <1>4 DEF Logins!Exchange
<1>5. ASSUME NEW c \in Callbacks, Logins!Resolve(c)
      PROVE  LogLogoutsHold'
  BY <1>5 DEF Logins!Resolve
<1>6. ASSUME NEW c \in Callbacks, Logins!CreateSession(c)
      PROVE  LogLogoutsHold'
  BY <1>6 DEF Logins!CreateSession
<1>7. ASSUME NEW c \in Callbacks, Logins!Issue(c)
      PROVE  LogLogoutsHold'
  BY <1>7 DEF Logins!Issue, Logins!IdleCallback
<1>8. ASSUME NEW c \in Callbacks, Logins!CallbackFails(c)
      PROVE  LogLogoutsHold'
  BY <1>8 DEF Logins!CallbackFails, Logins!IdleCallback
<1>9. ASSUME NEW r \in Requests, NEW i \in Sids, Logins!Arrive(r, i)
      PROVE  LogLogoutsHold'
  BY <1>9 DEF Logins!Arrive
<1>10. ASSUME NEW r \in Requests, Logins!CheckUser(r)
      PROVE  LogLogoutsHold'
  BY <1>10 DEF Logins!CheckUser, Logins!Check
<1>11. ASSUME NEW r \in Requests, Logins!CheckSession(r)
      PROVE  LogLogoutsHold'
  BY <1>11 DEF Logins!CheckSession, Logins!Check
<1>12. ASSUME NEW r \in Requests, Logins!CheckPrincipal(r)
      PROVE  LogLogoutsHold'
  BY <1>12 DEF Logins!CheckPrincipal, Logins!Check
<1>13. ASSUME NEW r \in Requests, Logins!Admit(r)
      PROVE  LogLogoutsHold'
  BY <1>13 DEF Logins!Admit, Logins!Check
<1>14. ASSUME NEW r \in Requests, Logins!Leave(r)
      PROVE  LogLogoutsHold'
  BY <1>14 DEF Logins!Leave, Logins!IdleRequest
<1>15. ASSUME NEW r \in Requests, Logins!FindSession(r)
      PROVE  LogLogoutsHold'
  BY <1>15 DEF Logins!FindSession, Logins!Check
<1>16. ASSUME NEW r \in Requests, Logins!DeleteSession(r)
      PROVE  LogLogoutsHold'
  BY <1>16 DEF Logins!DeleteSession
<1>17. ASSUME NEW r \in Requests, Logins!UpstreamFails(r)
      PROVE  LogLogoutsHold'
  BY <1>17 DEF Logins!UpstreamFails, Logins!Check
<1>18. ASSUME NEW r \in Requests, NEW heard \in BOOLEAN, Logins!EndUpstream(r, heard)
      PROVE  LogLogoutsHold'
  BY <1>18 DEF Logins!EndUpstream
<1>19. ASSUME NEW r \in Requests, Logins!Answer(r)
      PROVE  LogLogoutsHold'
  BY <1>19 DEF Logins!Answer, Logins!IdleRequest
<1>20. ASSUME NEW r \in Requests, Logins!LogoutStops(r)
      PROVE  LogLogoutsHold'
  BY <1>20 DEF Logins!LogoutStops, Logins!IdleRequest
<1>21. ASSUME NEW x \in {"user", "principal"}, Logins!SwitchOff(x)
      PROVE  LogLogoutsHold'
  BY <1>21 DEF Logins!SwitchOff
<1>22. ASSUME NEW x \in {"user", "principal"}, Logins!SwitchOn(x)
      PROVE  LogLogoutsHold'
  BY <1>22 DEF Logins!SwitchOn
<1>23. ASSUME NEW i \in Sids, Logins!SessionExpires(i)
      PROVE  LogLogoutsHold'
  BY <1>23 DEF Logins!SessionExpires
<1>24. CASE UNCHANGED Logins!vars
  BY <1>24 DEF Logins!vars
<1> HIDE DEF LogNoneIsNoState, Logins!TypeOK, LogCallbacksOwn, LogSessionsAreStored,
          LogLogoutsHold, LogWorking, Logins!None
<1> QED
  BY <1>1, <1>2, <1>3, <1>4, <1>5, <1>6, <1>7, <1>8, <1>9, <1>10, <1>11, <1>12,
     <1>13, <1>14, <1>15, <1>16, <1>17, <1>18, <1>19, <1>20, <1>21, <1>22, <1>23, <1>24 DEF Logins!Next

(* A request that passes a check has seen that what it checks is in force. *)
LEMMA LogChecksStay ==
  ASSUME LogNoneIsNoState, Logins!TypeOK, LogSessionsAreStored, LogLogoutsHold, LogChecksStop, [Logins!Next]_(Logins!vars)
  PROVE  LogChecksStop'
<1> USE DEF LogNoneIsNoState, Logins!TypeOK, LogSessionsAreStored, LogLogoutsHold, LogChecksStop, Logins!Admitted, Logins!None
<1>1. ASSUME NEW s \in States, Logins!Start(s)
      PROVE  LogChecksStop'
  BY <1>1 DEF Logins!Start
<1>2. ASSUME NEW s \in States, Logins!TransactionExpires(s)
      PROVE  LogChecksStop'
  BY <1>2 DEF Logins!TransactionExpires
<1>3. ASSUME NEW c \in Callbacks, NEW s \in States, Logins!Consume(c, s)
      PROVE  LogChecksStop'
  BY <1>3 DEF Logins!Consume
<1>4. ASSUME NEW c \in Callbacks, NEW i \in Sids, Logins!Exchange(c, i)
      PROVE  LogChecksStop'
  BY <1>4 DEF Logins!Exchange
<1>5. ASSUME NEW c \in Callbacks, Logins!Resolve(c)
      PROVE  LogChecksStop'
  BY <1>5 DEF Logins!Resolve
<1>6. ASSUME NEW c \in Callbacks, Logins!CreateSession(c)
      PROVE  LogChecksStop'
  BY <1>6 DEF Logins!CreateSession
<1>7. ASSUME NEW c \in Callbacks, Logins!Issue(c)
      PROVE  LogChecksStop'
  BY <1>7 DEF Logins!Issue, Logins!IdleCallback
<1>8. ASSUME NEW c \in Callbacks, Logins!CallbackFails(c)
      PROVE  LogChecksStop'
  BY <1>8 DEF Logins!CallbackFails, Logins!IdleCallback
<1>9. ASSUME NEW r \in Requests, NEW i \in Sids, Logins!Arrive(r, i)
      PROVE  LogChecksStop'
  BY <1>9 DEF Logins!Arrive
<1>10. ASSUME NEW r \in Requests, Logins!CheckUser(r)
      PROVE  LogChecksStop'
  BY <1>10 DEF Logins!CheckUser, Logins!Check
<1>11. ASSUME NEW r \in Requests, Logins!CheckSession(r)
      PROVE  LogChecksStop'
  BY <1>11 DEF Logins!CheckSession, Logins!Check
<1>12. ASSUME NEW r \in Requests, Logins!CheckPrincipal(r)
      PROVE  LogChecksStop'
  BY <1>12 DEF Logins!CheckPrincipal, Logins!Check
<1>13. ASSUME NEW r \in Requests, Logins!Admit(r)
      PROVE  LogChecksStop'
  BY <1>13 DEF Logins!Admit, Logins!Check
<1>14. ASSUME NEW r \in Requests, Logins!Leave(r)
      PROVE  LogChecksStop'
  BY <1>14 DEF Logins!Leave, Logins!IdleRequest
<1>15. ASSUME NEW r \in Requests, Logins!FindSession(r)
      PROVE  LogChecksStop'
  BY <1>15 DEF Logins!FindSession, Logins!Check
<1>16. ASSUME NEW r \in Requests, Logins!DeleteSession(r)
      PROVE  LogChecksStop'
  BY <1>16 DEF Logins!DeleteSession
<1>17. ASSUME NEW r \in Requests, Logins!UpstreamFails(r)
      PROVE  LogChecksStop'
  BY <1>17 DEF Logins!UpstreamFails, Logins!Check
<1>18. ASSUME NEW r \in Requests, NEW heard \in BOOLEAN, Logins!EndUpstream(r, heard)
      PROVE  LogChecksStop'
  BY <1>18 DEF Logins!EndUpstream
<1>19. ASSUME NEW r \in Requests, Logins!Answer(r)
      PROVE  LogChecksStop'
  BY <1>19 DEF Logins!Answer, Logins!IdleRequest
<1>20. ASSUME NEW r \in Requests, Logins!LogoutStops(r)
      PROVE  LogChecksStop'
  BY <1>20 DEF Logins!LogoutStops, Logins!IdleRequest
<1>21. ASSUME NEW x \in {"user", "principal"}, Logins!SwitchOff(x)
      PROVE  LogChecksStop'
  BY <1>21 DEF Logins!SwitchOff
<1>22. ASSUME NEW x \in {"user", "principal"}, Logins!SwitchOn(x)
      PROVE  LogChecksStop'
  BY <1>22 DEF Logins!SwitchOn
<1>23. ASSUME NEW i \in Sids, Logins!SessionExpires(i)
      PROVE  LogChecksStop'
  BY <1>23 DEF Logins!SessionExpires
<1>24. CASE UNCHANGED Logins!vars
  BY <1>24 DEF Logins!vars
<1> HIDE DEF LogNoneIsNoState, Logins!TypeOK, LogSessionsAreStored, LogLogoutsHold, LogChecksStop, Logins!Admitted, Logins!None
<1> QED
  BY <1>1, <1>2, <1>3, <1>4, <1>5, <1>6, <1>7, <1>8, <1>9, <1>10, <1>11, <1>12,
     <1>13, <1>14, <1>15, <1>16, <1>17, <1>18, <1>19, <1>20, <1>21, <1>22, <1>23, <1>24 DEF Logins!Next

(* A session is stored for a transaction that has none.                    *)
LEMMA LogOneSessionStays ==
  ASSUME LogNoneIsNoState, Logins!TypeOK, Logins!OneSessionPerLogin, LogCallbacksOwn, [Logins!Next]_(Logins!vars)
  PROVE  Logins!OneSessionPerLogin'
<1> USE DEF LogNoneIsNoState, Logins!TypeOK, Logins!OneSessionPerLogin, LogCallbacksOwn, LogWorking, Logins!None
<1>1. ASSUME NEW s \in States, Logins!Start(s)
      PROVE  Logins!OneSessionPerLogin'
  BY <1>1 DEF Logins!Start
<1>2. ASSUME NEW s \in States, Logins!TransactionExpires(s)
      PROVE  Logins!OneSessionPerLogin'
  BY <1>2 DEF Logins!TransactionExpires
<1>3. ASSUME NEW c \in Callbacks, NEW s \in States, Logins!Consume(c, s)
      PROVE  Logins!OneSessionPerLogin'
  BY <1>3 DEF Logins!Consume
<1>4. ASSUME NEW c \in Callbacks, NEW i \in Sids, Logins!Exchange(c, i)
      PROVE  Logins!OneSessionPerLogin'
  BY <1>4 DEF Logins!Exchange
<1>5. ASSUME NEW c \in Callbacks, Logins!Resolve(c)
      PROVE  Logins!OneSessionPerLogin'
  BY <1>5 DEF Logins!Resolve
<1>6. ASSUME NEW c \in Callbacks, Logins!CreateSession(c)
      PROVE  Logins!OneSessionPerLogin'
  BY <1>6 DEF Logins!CreateSession
<1>7. ASSUME NEW c \in Callbacks, Logins!Issue(c)
      PROVE  Logins!OneSessionPerLogin'
  BY <1>7 DEF Logins!Issue, Logins!IdleCallback
<1>8. ASSUME NEW c \in Callbacks, Logins!CallbackFails(c)
      PROVE  Logins!OneSessionPerLogin'
  BY <1>8 DEF Logins!CallbackFails, Logins!IdleCallback
<1>9. ASSUME NEW r \in Requests, NEW i \in Sids, Logins!Arrive(r, i)
      PROVE  Logins!OneSessionPerLogin'
  BY <1>9 DEF Logins!Arrive
<1>10. ASSUME NEW r \in Requests, Logins!CheckUser(r)
      PROVE  Logins!OneSessionPerLogin'
  BY <1>10 DEF Logins!CheckUser, Logins!Check
<1>11. ASSUME NEW r \in Requests, Logins!CheckSession(r)
      PROVE  Logins!OneSessionPerLogin'
  BY <1>11 DEF Logins!CheckSession, Logins!Check
<1>12. ASSUME NEW r \in Requests, Logins!CheckPrincipal(r)
      PROVE  Logins!OneSessionPerLogin'
  BY <1>12 DEF Logins!CheckPrincipal, Logins!Check
<1>13. ASSUME NEW r \in Requests, Logins!Admit(r)
      PROVE  Logins!OneSessionPerLogin'
  BY <1>13 DEF Logins!Admit, Logins!Check
<1>14. ASSUME NEW r \in Requests, Logins!Leave(r)
      PROVE  Logins!OneSessionPerLogin'
  BY <1>14 DEF Logins!Leave, Logins!IdleRequest
<1>15. ASSUME NEW r \in Requests, Logins!FindSession(r)
      PROVE  Logins!OneSessionPerLogin'
  BY <1>15 DEF Logins!FindSession, Logins!Check
<1>16. ASSUME NEW r \in Requests, Logins!DeleteSession(r)
      PROVE  Logins!OneSessionPerLogin'
  BY <1>16 DEF Logins!DeleteSession
<1>17. ASSUME NEW r \in Requests, Logins!UpstreamFails(r)
      PROVE  Logins!OneSessionPerLogin'
  BY <1>17 DEF Logins!UpstreamFails, Logins!Check
<1>18. ASSUME NEW r \in Requests, NEW heard \in BOOLEAN, Logins!EndUpstream(r, heard)
      PROVE  Logins!OneSessionPerLogin'
  BY <1>18 DEF Logins!EndUpstream
<1>19. ASSUME NEW r \in Requests, Logins!Answer(r)
      PROVE  Logins!OneSessionPerLogin'
  BY <1>19 DEF Logins!Answer, Logins!IdleRequest
<1>20. ASSUME NEW r \in Requests, Logins!LogoutStops(r)
      PROVE  Logins!OneSessionPerLogin'
  BY <1>20 DEF Logins!LogoutStops, Logins!IdleRequest
<1>21. ASSUME NEW x \in {"user", "principal"}, Logins!SwitchOff(x)
      PROVE  Logins!OneSessionPerLogin'
  BY <1>21 DEF Logins!SwitchOff
<1>22. ASSUME NEW x \in {"user", "principal"}, Logins!SwitchOn(x)
      PROVE  Logins!OneSessionPerLogin'
  BY <1>22 DEF Logins!SwitchOn
<1>23. ASSUME NEW i \in Sids, Logins!SessionExpires(i)
      PROVE  Logins!OneSessionPerLogin'
  BY <1>23 DEF Logins!SessionExpires
<1>24. CASE UNCHANGED Logins!vars
  BY <1>24 DEF Logins!vars
<1> HIDE DEF LogNoneIsNoState, Logins!TypeOK, Logins!OneSessionPerLogin, LogCallbacksOwn, LogWorking, Logins!None
<1> QED
  BY <1>1, <1>2, <1>3, <1>4, <1>5, <1>6, <1>7, <1>8, <1>9, <1>10, <1>11, <1>12,
     <1>13, <1>14, <1>15, <1>16, <1>17, <1>18, <1>19, <1>20, <1>21, <1>22, <1>23, <1>24 DEF Logins!Next

(* Events are added, and a token comes with its own.                       *)
LEMMA LogLoggedStays ==
  ASSUME LogNoneIsNoState, Logins!TypeOK, Logins!TokensAreLogged, [Logins!Next]_(Logins!vars)
  PROVE  Logins!TokensAreLogged'
<1> USE DEF LogNoneIsNoState, Logins!TypeOK, Logins!TokensAreLogged, Logins!None
<1>1. ASSUME NEW s \in States, Logins!Start(s)
      PROVE  Logins!TokensAreLogged'
  BY <1>1 DEF Logins!Start
<1>2. ASSUME NEW s \in States, Logins!TransactionExpires(s)
      PROVE  Logins!TokensAreLogged'
  BY <1>2 DEF Logins!TransactionExpires
<1>3. ASSUME NEW c \in Callbacks, NEW s \in States, Logins!Consume(c, s)
      PROVE  Logins!TokensAreLogged'
  BY <1>3 DEF Logins!Consume
<1>4. ASSUME NEW c \in Callbacks, NEW i \in Sids, Logins!Exchange(c, i)
      PROVE  Logins!TokensAreLogged'
  BY <1>4 DEF Logins!Exchange
<1>5. ASSUME NEW c \in Callbacks, Logins!Resolve(c)
      PROVE  Logins!TokensAreLogged'
  BY <1>5 DEF Logins!Resolve
<1>6. ASSUME NEW c \in Callbacks, Logins!CreateSession(c)
      PROVE  Logins!TokensAreLogged'
  BY <1>6 DEF Logins!CreateSession
<1>7. ASSUME NEW c \in Callbacks, Logins!Issue(c)
      PROVE  Logins!TokensAreLogged'
  BY <1>7 DEF Logins!Issue, Logins!IdleCallback
<1>8. ASSUME NEW c \in Callbacks, Logins!CallbackFails(c)
      PROVE  Logins!TokensAreLogged'
  BY <1>8 DEF Logins!CallbackFails, Logins!IdleCallback
<1>9. ASSUME NEW r \in Requests, NEW i \in Sids, Logins!Arrive(r, i)
      PROVE  Logins!TokensAreLogged'
  BY <1>9 DEF Logins!Arrive
<1>10. ASSUME NEW r \in Requests, Logins!CheckUser(r)
      PROVE  Logins!TokensAreLogged'
  BY <1>10 DEF Logins!CheckUser, Logins!Check
<1>11. ASSUME NEW r \in Requests, Logins!CheckSession(r)
      PROVE  Logins!TokensAreLogged'
  BY <1>11 DEF Logins!CheckSession, Logins!Check
<1>12. ASSUME NEW r \in Requests, Logins!CheckPrincipal(r)
      PROVE  Logins!TokensAreLogged'
  BY <1>12 DEF Logins!CheckPrincipal, Logins!Check
<1>13. ASSUME NEW r \in Requests, Logins!Admit(r)
      PROVE  Logins!TokensAreLogged'
  BY <1>13 DEF Logins!Admit, Logins!Check
<1>14. ASSUME NEW r \in Requests, Logins!Leave(r)
      PROVE  Logins!TokensAreLogged'
  BY <1>14 DEF Logins!Leave, Logins!IdleRequest
<1>15. ASSUME NEW r \in Requests, Logins!FindSession(r)
      PROVE  Logins!TokensAreLogged'
  BY <1>15 DEF Logins!FindSession, Logins!Check
<1>16. ASSUME NEW r \in Requests, Logins!DeleteSession(r)
      PROVE  Logins!TokensAreLogged'
  BY <1>16 DEF Logins!DeleteSession
<1>17. ASSUME NEW r \in Requests, Logins!UpstreamFails(r)
      PROVE  Logins!TokensAreLogged'
  BY <1>17 DEF Logins!UpstreamFails, Logins!Check
<1>18. ASSUME NEW r \in Requests, NEW heard \in BOOLEAN, Logins!EndUpstream(r, heard)
      PROVE  Logins!TokensAreLogged'
  BY <1>18 DEF Logins!EndUpstream
<1>19. ASSUME NEW r \in Requests, Logins!Answer(r)
      PROVE  Logins!TokensAreLogged'
  BY <1>19 DEF Logins!Answer, Logins!IdleRequest
<1>20. ASSUME NEW r \in Requests, Logins!LogoutStops(r)
      PROVE  Logins!TokensAreLogged'
  BY <1>20 DEF Logins!LogoutStops, Logins!IdleRequest
<1>21. ASSUME NEW x \in {"user", "principal"}, Logins!SwitchOff(x)
      PROVE  Logins!TokensAreLogged'
  BY <1>21 DEF Logins!SwitchOff
<1>22. ASSUME NEW x \in {"user", "principal"}, Logins!SwitchOn(x)
      PROVE  Logins!TokensAreLogged'
  BY <1>22 DEF Logins!SwitchOn
<1>23. ASSUME NEW i \in Sids, Logins!SessionExpires(i)
      PROVE  Logins!TokensAreLogged'
  BY <1>23 DEF Logins!SessionExpires
<1>24. CASE UNCHANGED Logins!vars
  BY <1>24 DEF Logins!vars
<1> HIDE DEF LogNoneIsNoState, Logins!TypeOK, Logins!TokensAreLogged, Logins!None
<1> QED
  BY <1>1, <1>2, <1>3, <1>4, <1>5, <1>6, <1>7, <1>8, <1>9, <1>10, <1>11, <1>12,
     <1>13, <1>14, <1>15, <1>16, <1>17, <1>18, <1>19, <1>20, <1>21, <1>22, <1>23, <1>24 DEF Logins!Next

(* The provider does not open a session that exists here.                  *)
LEMMA LogSuccessStays ==
  ASSUME LogNoneIsNoState, Logins!TypeOK, Logins!SuccessEndsBoth, LogCallbacksOwn, LogSessionsAreStored, LogLogoutsHold,
         [Logins!Next]_(Logins!vars)
  PROVE  Logins!SuccessEndsBoth'
<1> USE DEF LogNoneIsNoState, Logins!TypeOK, Logins!SuccessEndsBoth, LogCallbacksOwn, LogSessionsAreStored,
          LogLogoutsHold, LogWorking, Logins!None
<1>1. ASSUME NEW s \in States, Logins!Start(s)
      PROVE  Logins!SuccessEndsBoth'
  BY <1>1 DEF Logins!Start
<1>2. ASSUME NEW s \in States, Logins!TransactionExpires(s)
      PROVE  Logins!SuccessEndsBoth'
  BY <1>2 DEF Logins!TransactionExpires
<1>3. ASSUME NEW c \in Callbacks, NEW s \in States, Logins!Consume(c, s)
      PROVE  Logins!SuccessEndsBoth'
  BY <1>3 DEF Logins!Consume
<1>4. ASSUME NEW c \in Callbacks, NEW i \in Sids, Logins!Exchange(c, i)
      PROVE  Logins!SuccessEndsBoth'
  BY <1>4 DEF Logins!Exchange
<1>5. ASSUME NEW c \in Callbacks, Logins!Resolve(c)
      PROVE  Logins!SuccessEndsBoth'
  BY <1>5 DEF Logins!Resolve
<1>6. ASSUME NEW c \in Callbacks, Logins!CreateSession(c)
      PROVE  Logins!SuccessEndsBoth'
  BY <1>6 DEF Logins!CreateSession
<1>7. ASSUME NEW c \in Callbacks, Logins!Issue(c)
      PROVE  Logins!SuccessEndsBoth'
  BY <1>7 DEF Logins!Issue, Logins!IdleCallback
<1>8. ASSUME NEW c \in Callbacks, Logins!CallbackFails(c)
      PROVE  Logins!SuccessEndsBoth'
  BY <1>8 DEF Logins!CallbackFails, Logins!IdleCallback
<1>9. ASSUME NEW r \in Requests, NEW i \in Sids, Logins!Arrive(r, i)
      PROVE  Logins!SuccessEndsBoth'
  BY <1>9 DEF Logins!Arrive
<1>10. ASSUME NEW r \in Requests, Logins!CheckUser(r)
      PROVE  Logins!SuccessEndsBoth'
  BY <1>10 DEF Logins!CheckUser, Logins!Check
<1>11. ASSUME NEW r \in Requests, Logins!CheckSession(r)
      PROVE  Logins!SuccessEndsBoth'
  BY <1>11 DEF Logins!CheckSession, Logins!Check
<1>12. ASSUME NEW r \in Requests, Logins!CheckPrincipal(r)
      PROVE  Logins!SuccessEndsBoth'
  BY <1>12 DEF Logins!CheckPrincipal, Logins!Check
<1>13. ASSUME NEW r \in Requests, Logins!Admit(r)
      PROVE  Logins!SuccessEndsBoth'
  BY <1>13 DEF Logins!Admit, Logins!Check
<1>14. ASSUME NEW r \in Requests, Logins!Leave(r)
      PROVE  Logins!SuccessEndsBoth'
  BY <1>14 DEF Logins!Leave, Logins!IdleRequest
<1>15. ASSUME NEW r \in Requests, Logins!FindSession(r)
      PROVE  Logins!SuccessEndsBoth'
  BY <1>15 DEF Logins!FindSession, Logins!Check
<1>16. ASSUME NEW r \in Requests, Logins!DeleteSession(r)
      PROVE  Logins!SuccessEndsBoth'
  BY <1>16 DEF Logins!DeleteSession
<1>17. ASSUME NEW r \in Requests, Logins!UpstreamFails(r)
      PROVE  Logins!SuccessEndsBoth'
  BY <1>17 DEF Logins!UpstreamFails, Logins!Check
<1>18. ASSUME NEW r \in Requests, NEW heard \in BOOLEAN, Logins!EndUpstream(r, heard)
      PROVE  Logins!SuccessEndsBoth'
  BY <1>18 DEF Logins!EndUpstream
<1>19. ASSUME NEW r \in Requests, Logins!Answer(r)
      PROVE  Logins!SuccessEndsBoth'
  BY <1>19 DEF Logins!Answer, Logins!IdleRequest
<1>20. ASSUME NEW r \in Requests, Logins!LogoutStops(r)
      PROVE  Logins!SuccessEndsBoth'
  BY <1>20 DEF Logins!LogoutStops, Logins!IdleRequest
<1>21. ASSUME NEW x \in {"user", "principal"}, Logins!SwitchOff(x)
      PROVE  Logins!SuccessEndsBoth'
  BY <1>21 DEF Logins!SwitchOff
<1>22. ASSUME NEW x \in {"user", "principal"}, Logins!SwitchOn(x)
      PROVE  Logins!SuccessEndsBoth'
  BY <1>22 DEF Logins!SwitchOn
<1>23. ASSUME NEW i \in Sids, Logins!SessionExpires(i)
      PROVE  Logins!SuccessEndsBoth'
  BY <1>23 DEF Logins!SessionExpires
<1>24. CASE UNCHANGED Logins!vars
  BY <1>24 DEF Logins!vars
<1> HIDE DEF LogNoneIsNoState, Logins!TypeOK, Logins!SuccessEndsBoth, LogCallbacksOwn, LogSessionsAreStored,
          LogLogoutsHold, LogWorking, Logins!None
<1> QED
  BY <1>1, <1>2, <1>3, <1>4, <1>5, <1>6, <1>7, <1>8, <1>9, <1>10, <1>11, <1>12,
     <1>13, <1>14, <1>15, <1>16, <1>17, <1>18, <1>19, <1>20, <1>21, <1>22, <1>23, <1>24 DEF Logins!Next

LEMMA LogNoState == LogNoneIsNoState
BY BusinessAssumption DEF LogNoneIsNoState, Logins!None

LEMMA LogInit == Logins!Init => LogInv
BY LogNoState
DEF LogNoneIsNoState, Logins!Init, LogInv, Logins!SessionsSafe, Logins!TypeOK, Logins!OneSessionPerLogin,
    Logins!TokensAreLogged, Logins!RevokedStaysOut, Logins!SuccessEndsBoth, LogCallbacksOwn,
    LogSessionsAreStored, LogLogoutsHold, LogChecksStop, Logins!IdleCallback, Logins!IdleRequest,
    Logins!Admitted, LogWorking, Logins!None

LEMMA LogStep == LogInv /\ [Logins!Next]_(Logins!vars) => LogInv'
<1> SUFFICES ASSUME LogInv, [Logins!Next]_(Logins!vars) PROVE LogInv' OBVIOUS
<1>1. Logins!TypeOK' /\ LogCallbacksOwn' /\ LogSessionsAreStored'
  BY LogNoState, LogTypesStay, LogOwnershipStays, LogStoredStays DEF LogInv, Logins!SessionsSafe
<1>2. LogLogoutsHold' /\ LogChecksStop'
  BY LogNoState, LogLogoutsStay, LogChecksStay DEF LogInv, Logins!SessionsSafe
<1>3. Logins!OneSessionPerLogin' /\ Logins!TokensAreLogged' /\ Logins!SuccessEndsBoth'
  BY LogNoState, LogOneSessionStays, LogLoggedStays, LogSuccessStays DEF LogInv, Logins!SessionsSafe
<1>4. Logins!RevokedStaysOut'
  BY <1>1, <1>2 DEF Logins!TypeOK, LogChecksStop, Logins!RevokedStaysOut
<1> QED BY <1>1, <1>2, <1>3, <1>4 DEF LogInv, Logins!SessionsSafe

LEMMA LogSafe == LogInv => Logins!SessionsSafe
BY DEF LogInv

LEMMA LogMoves == [MCNext]_allVars => [Logins!Next]_(Logins!vars)
<1> SUFFICES ASSUME MCNext PROVE [Logins!Next]_(Logins!vars)
  BY DEF allVars, LoginVars, Logins!vars
<1>1. CASE focus = "logins" BY <1>1 DEF MCNext
<1>2. CASE focus # "logins" BY <1>2 DEF MCNext, Keep, LoginVars, Logins!vars
<1> QED BY <1>1, <1>2

----------------------------------------------------------------------------
(* Reports.  A request that publishes has seen an approval of its version, *)
(* and approvals stay; a request that is alone commits on the version it   *)
(* has loaded, so that report and version move together.                   *)

RepRecord ==
  [op : {"idle", "new", "submit", "approve", "reject", "publish", "archive"},
   v : Reports!Versions, from : Reports!VersionStatus, report : Reports!ReportStatus \cup {"KEEP"}]

RepJobs == \A j \in Requests : rJob[j].op = "publish" => rJob[j].v \in rReviewed

(* The status of the report once the request x has been committed.         *)
RepAfter(x) == IF x.report = "KEEP" THEN rReport ELSE x.report

RepTarget ==
  [new |-> "VERSIONED", submit |-> "IN_REVIEW", approve |-> "APPROVED", reject |-> "DRAFT",
   publish |-> "PUBLISHED", archive |-> "ARCHIVED"]

(* What the only request under way has loaded and planned.                 *)
RepAlone(x) ==
  x.op # "idle" =>
    /\ x.from = rVersion[x.v]
    /\ x.op # "new" => x.v = rCurrent
    /\ RepAfter(x) = RepTarget[x.op]
    /\ x.op = "archive" <=> x.from = "PUBLISHED"

RepCalm ==
  rCalm =>
    /\ \A i, j \in Requests : rJob[i].op # "idle" /\ rJob[j].op # "idle" => i = j
    /\ \A j \in Requests : RepAlone(rJob[j])

RepInv ==
  /\ Reports!TypeOK /\ RepJobs /\ RepCalm
  /\ Reports!PublishedIsEvidenced /\ Reports!CalmReportFollowsVersion

LEMMA RepTypes ==
  ASSUME RepInv
  PROVE  /\ rReport \in Reports!ReportStatus /\ rCurrent \in Reports!Versions
         /\ rVersion \in [Reports!Versions -> Reports!VersionStatus]
         /\ rReviewed \subseteq Reports!Versions /\ rFrozen \subseteq Reports!Versions
         /\ rCalm \in BOOLEAN /\ rJob \in [Requests -> RepRecord]
BY DEF RepInv, Reports!TypeOK, RepRecord

LEMMA RepNoJob == Reports!NoJob \in RepRecord /\ Reports!NoJob.op = "idle" /\ 1 \in Reports!Versions
BY BusinessAssumption
DEF Reports!NoJob, RepRecord, Reports!Versions, Reports!VersionStatus, Reports!ReportStatus

(* What the report tells of its current version, status by status.         *)
LEMMA RepFollows ==
  ASSUME NEW s \in Reports!ReportStatus, NEW w
  PROVE  (w = CASE s \in {"DRAFT", "VERSIONED"} -> "DRAFT"
                [] s = "ARCHIVED" -> "PUBLISHED"
                [] OTHER -> s)
         <=> /\ s \in {"DRAFT", "VERSIONED"} => w = "DRAFT"
             /\ s = "ARCHIVED" => w = "PUBLISHED"
             /\ s \in {"IN_REVIEW", "APPROVED", "PUBLISHED"} => w = s
BY DEF Reports!ReportStatus

LEMMA RepInit == Reports!Init => RepInv
<1> SUFFICES ASSUME Reports!Init PROVE RepInv OBVIOUS
<1>1. Reports!TypeOK
  BY RepNoJob DEF Reports!Init, Reports!TypeOK, RepRecord, Reports!VersionStatus, Reports!ReportStatus
<1>2. RepJobs BY RepNoJob DEF Reports!Init, RepJobs
<1>3. RepCalm BY RepNoJob DEF Reports!Init, RepCalm, RepAlone
<1>4. Reports!PublishedIsEvidenced BY DEF Reports!Init, Reports!PublishedIsEvidenced
<1>5. Reports!CalmReportFollowsVersion
  BY RepNoJob, RepFollows DEF Reports!Init, Reports!CalmReportFollowsVersion, Reports!ReportStatus
<1> QED BY <1>1, <1>2, <1>3, <1>4, <1>5 DEF RepInv

LEMMA RepPlan ==
  ASSUME RepInv, NEW j \in Requests,
         NEW op \in {"new", "submit", "approve", "reject", "publish", "archive"},
         NEW v \in Reports!Versions, NEW to \in Reports!ReportStatus,
         Reports!Plan(j, op, v, to), to = RepTarget[op],
         op = "publish" => v \in rReviewed,
         op # "new" => v = rCurrent,
         rCalm => (op = "archive" <=> rVersion[v] = "PUBLISHED")
  PROVE  RepInv'
<1> USE DEF RepInv
<1>0. PICK x : x = [op |-> op, v |-> v, from |-> rVersion[v],
                    report |-> IF to = rReport THEN "KEEP" ELSE to]
  OBVIOUS
<1>1. /\ rJob' = [rJob EXCEPT ![j] = x]
      /\ UNCHANGED <<rReport, rCurrent, rVersion, rReviewed, rFrozen>>
      /\ rCalm' = (rCalm /\ \A k \in Requests : k # j => rJob[k].op = "idle")
  BY <1>0 DEF Reports!Plan
<1>2. x \in RepRecord /\ x.op = op /\ x.v = v /\ x.from = rVersion[v] BY <1>0, RepTypes DEF RepRecord
<1>3. \A k \in Requests : rJob'[k] = IF k = j THEN x ELSE rJob[k] BY <1>1, RepTypes
<1>4. Reports!TypeOK' BY <1>1, <1>2, RepTypes DEF Reports!TypeOK, RepRecord
<1>5. RepJobs' BY <1>1, <1>2, <1>3 DEF RepJobs
<1>6. RepCalm'
  <2> SUFFICES ASSUME rCalm' PROVE RepCalm' BY DEF RepCalm
  <2>1. rCalm /\ \A k \in Requests : k # j => rJob[k].op = "idle" BY <1>1, RepTypes
  <2>2. RepAfter(x) = to BY <1>0, RepTypes DEF RepAfter, Reports!ReportStatus
  <2>3. RepAlone(x) BY <1>2, <2>1, <2>2 DEF RepAlone
  <2>4. RepAlone(x)' BY <1>1, <2>3 DEF RepAlone, RepAfter
  <2>5. \A k \in Requests : rJob'[k].op # "idle" => k = j BY <1>3, <2>1
  <2>6. ASSUME NEW k \in Requests PROVE RepAlone(rJob[k])'
    <3>1. CASE k = j
      <4>1. rJob'[k] = x BY <1>3, <3>1
      <4> QED BY <2>4, <4>1 DEF RepAlone, RepAfter
    <3>2. CASE k # j BY <2>5, <3>2 DEF RepAlone
    <3> QED BY <3>1, <3>2
  <2> QED BY <2>5, <2>6 DEF RepCalm
<1>7. Reports!PublishedIsEvidenced' BY <1>1 DEF Reports!PublishedIsEvidenced
<1>8. Reports!CalmReportFollowsVersion' BY <1>1 DEF Reports!CalmReportFollowsVersion
<1> QED BY <1>4, <1>5, <1>6, <1>7, <1>8

LEMMA RepHandlers ==
  ASSUME RepInv, NEW j \in Requests,
         \/ \E v \in Reports!Versions : Reports!NewVersion(j, v)
         \/ Reports!Submit(j) \/ Reports!Approve(j) \/ Reports!Reject(j)
         \/ Reports!Publish(j) \/ Reports!Archive(j)
  PROVE  RepInv'
<1> USE DEF RepTarget, Reports!ReportStatus
<1>0. rCurrent \in Reports!Versions BY RepTypes
<1>1. ASSUME NEW v \in Reports!Versions, Reports!NewVersion(j, v) PROVE RepInv'
  <2>1. rVersion[v] = "NONE" /\ Reports!Plan(j, "new", v, "VERSIONED") BY <1>1 DEF Reports!NewVersion
  <2> QED BY <2>1, RepPlan
<1>2. CASE Reports!Submit(j)
  <2>1. rVersion[rCurrent] = "DRAFT" /\ Reports!Plan(j, "submit", rCurrent, "IN_REVIEW")
    BY <1>2 DEF Reports!Submit
  <2> QED BY <1>0, <2>1, RepPlan
<1>3. CASE Reports!Approve(j)
  <2>1. rVersion[rCurrent] = "IN_REVIEW" /\ Reports!Plan(j, "approve", rCurrent, "APPROVED")
    BY <1>3 DEF Reports!Approve
  <2> QED BY <1>0, <2>1, RepPlan
<1>4. CASE Reports!Reject(j)
  <2>1. rVersion[rCurrent] = "IN_REVIEW" /\ Reports!Plan(j, "reject", rCurrent, "DRAFT")
    BY <1>4 DEF Reports!Reject
  <2> QED BY <1>0, <2>1, RepPlan
<1>5. CASE Reports!Publish(j)
  <2>1. /\ rVersion[rCurrent] = "APPROVED" /\ rCurrent \in rReviewed
        /\ Reports!Plan(j, "publish", rCurrent, "PUBLISHED")
    BY <1>5 DEF Reports!Publish
  <2> QED BY <1>0, <2>1, RepPlan
<1>6. CASE Reports!Archive(j)
  <2>1. rReport = "PUBLISHED" /\ Reports!Plan(j, "archive", rCurrent, "ARCHIVED")
    BY <1>6 DEF Reports!Archive
  <2>2. rCalm => rVersion[rCurrent] = "PUBLISHED"
    BY <2>1, RepFollows DEF RepInv, Reports!CalmReportFollowsVersion
  <2> QED BY <1>0, <2>1, <2>2, RepPlan
<1> QED BY <1>1, <1>2, <1>3, <1>4, <1>5, <1>6

LEMMA RepCommit ==
  ASSUME RepInv, NEW j \in Requests, Reports!Commit(j)
  PROVE  RepInv' /\ (rCalm => \A v \in Reports!Versions :
                                rVersion[v] = "PUBLISHED" => rVersion'[v] = "PUBLISHED")
<1> USE DEF RepInv
<1>0. PICK x : x = rJob[j] OBVIOUS
<1> DEFINE to == Reports!VersionAfter(x.op, x.from)
<1>1. /\ x.op # "idle"
      /\ rReport' = RepAfter(x)
      /\ rCurrent' = IF x.op = "new" THEN x.v ELSE rCurrent
      /\ rVersion' = [rVersion EXCEPT ![x.v] = IF to = x.from THEN @ ELSE to]
      /\ rReviewed' = IF x.op = "approve" THEN rReviewed \cup {x.v} ELSE rReviewed
      /\ rFrozen' = IF x.op = "publish" THEN rFrozen \cup {x.v} ELSE rFrozen
      /\ rJob' = [rJob EXCEPT ![j] = Reports!NoJob] /\ rCalm' = rCalm
  BY <1>0 DEF Reports!Commit, RepAfter
<1>2. x \in RepRecord /\ x.v \in Reports!Versions /\ x.from \in Reports!VersionStatus
  BY <1>0, RepTypes DEF RepRecord
<1>3. /\ to \in Reports!VersionStatus
      /\ x.op \in {"new", "reject"} => to = "DRAFT"
      /\ x.op = "submit" => to = "IN_REVIEW"
      /\ x.op = "approve" => to = "APPROVED"
      /\ x.op = "publish" => to = "PUBLISHED"
      /\ x.op = "archive" => to = x.from
  BY <1>1, <1>2 DEF Reports!VersionAfter, RepRecord, Reports!VersionStatus
<1> HIDE DEF to
<1>4. \A v \in Reports!Versions :
        rVersion'[v] = IF v = x.v /\ to # x.from THEN to ELSE rVersion[v]
  BY <1>1, <1>2, RepTypes
<1>5. \A k \in Requests : rJob'[k] = IF k = j THEN Reports!NoJob ELSE rJob[k] BY <1>1, RepTypes
<1>6. Reports!TypeOK'
  <2>1. rVersion' \in [Reports!Versions -> Reports!VersionStatus]
    BY <1>1, <1>2, <1>3, RepTypes
  <2>2. rJob' \in [Requests -> RepRecord] BY <1>1, RepNoJob, RepTypes
  <2>3. rReport' \in Reports!ReportStatus /\ rCurrent' \in Reports!Versions
    BY <1>1, <1>2, RepTypes DEF RepAfter, RepRecord
  <2>4. rReviewed' \subseteq Reports!Versions /\ rFrozen' \subseteq Reports!Versions
    BY <1>1, <1>2, RepTypes
  <2> QED BY <1>1, <2>1, <2>2, <2>3, <2>4, RepTypes DEF Reports!TypeOK, RepRecord
<1>7. RepJobs' BY <1>1, <1>5, RepNoJob DEF RepJobs
<1>8. rCalm => /\ RepAlone(x) /\ \A k \in Requests : k # j => rJob[k].op = "idle"
  BY <1>0, <1>1 DEF RepCalm
<1>9. rCalm => \A k \in Requests : rJob'[k].op = "idle" BY <1>5, <1>8, RepNoJob
<1>10. RepCalm' BY <1>1, <1>9 DEF RepCalm, RepAlone
<1>11. Reports!PublishedIsEvidenced'
  <2> SUFFICES ASSUME NEW v \in Reports!Versions, rVersion'[v] = "PUBLISHED"
               PROVE  v \in rReviewed' /\ v \in rFrozen'
    BY DEF Reports!PublishedIsEvidenced
  <2>1. CASE rVersion[v] = "PUBLISHED" BY <1>1, <2>1 DEF Reports!PublishedIsEvidenced
  <2>2. CASE rVersion[v] # "PUBLISHED"
    <3>1. v = x.v /\ to = "PUBLISHED" /\ to # x.from BY <1>4, <2>2
    <3>2. x.op = "publish" BY <1>1, <1>2, <1>3, <3>1 DEF RepRecord
    <3> QED BY <1>0, <1>1, <3>1, <3>2 DEF RepJobs
  <2> QED BY <2>1, <2>2
<1>12. Reports!CalmReportFollowsVersion'
  <2> SUFFICES ASSUME rCalm PROVE Reports!CalmReportFollowsVersion'
    BY <1>1 DEF Reports!CalmReportFollowsVersion
  <2>1. /\ x.from = rVersion[x.v]
        /\ x.op # "new" => x.v = rCurrent
        /\ rReport' = RepTarget[x.op] /\ (x.op = "archive" => x.from = "PUBLISHED")
    BY <1>1, <1>8 DEF RepAlone
  <2>2. rCurrent' = x.v BY <1>1, <2>1
  <2>3. rVersion'[x.v] = to BY <1>2, <1>4, <2>1
  <2>4. rReport' \in Reports!ReportStatus BY <1>6 DEF Reports!TypeOK
  <2>5. /\ rReport' \in {"DRAFT", "VERSIONED"} => to = "DRAFT"
        /\ rReport' = "ARCHIVED" => to = "PUBLISHED"
        /\ rReport' \in {"IN_REVIEW", "APPROVED", "PUBLISHED"} => to = rReport'
    BY <1>1, <1>2, <1>3, <2>1 DEF RepRecord, RepTarget
  <2>6. rVersion'[rCurrent'] = CASE rReport' \in {"DRAFT", "VERSIONED"} -> "DRAFT"
                                 [] rReport' = "ARCHIVED" -> "PUBLISHED"
                                 [] OTHER -> rReport'
    BY <2>2, <2>3, <2>4, <2>5, RepFollows
  <2> QED BY <2>6 DEF Reports!CalmReportFollowsVersion
<1>13. ASSUME rCalm, NEW v \in Reports!Versions, rVersion[v] = "PUBLISHED"
       PROVE  rVersion'[v] = "PUBLISHED"
  <2>1. x.from = rVersion[x.v] /\ (x.op = "archive" <=> x.from = "PUBLISHED")
    BY <1>1, <1>8, <1>13 DEF RepAlone
  <2> QED BY <1>3, <1>4, <1>13, <2>1
<1> QED BY <1>6, <1>7, <1>10, <1>11, <1>12, <1>13

LEMMA RepAbandon ==
  ASSUME RepInv, NEW j \in Requests, Reports!Abandon(j)
  PROVE  RepInv'
<1> USE DEF RepInv
<1>1. /\ rJob' = [rJob EXCEPT ![j] = Reports!NoJob]
      /\ UNCHANGED <<rReport, rCurrent, rVersion, rReviewed, rFrozen, rCalm>>
  BY DEF Reports!Abandon
<1>2. \A k \in Requests : rJob'[k] = IF k = j THEN Reports!NoJob ELSE rJob[k] BY <1>1, RepTypes
<1>3. Reports!TypeOK' BY <1>1, RepNoJob, RepTypes DEF Reports!TypeOK, RepRecord
<1>4. RepJobs' BY <1>1, <1>2, RepNoJob DEF RepJobs
<1>5. RepCalm' BY <1>1, <1>2, RepNoJob DEF RepCalm, RepAlone, RepAfter
<1>6. Reports!PublishedIsEvidenced' BY <1>1 DEF Reports!PublishedIsEvidenced
<1>7. Reports!CalmReportFollowsVersion' BY <1>1 DEF Reports!CalmReportFollowsVersion
<1> QED BY <1>3, <1>4, <1>5, <1>6, <1>7

LEMMA RepStep == RepInv /\ [Reports!Next]_(Reports!vars) => RepInv'
<1> SUFFICES ASSUME RepInv, [Reports!Next]_(Reports!vars) PROVE RepInv' OBVIOUS
<1>1. CASE UNCHANGED Reports!vars
  BY <1>1 DEF RepInv, Reports!vars, Reports!TypeOK, RepJobs, RepCalm, RepAlone, RepAfter,
     Reports!PublishedIsEvidenced, Reports!CalmReportFollowsVersion
<1> QED BY <1>1, RepHandlers, RepCommit, RepAbandon DEF Reports!Next, Reports!Handle

LEMMA RepSafe == RepInv => Reports!ReportsSafe
BY DEF RepInv, Reports!ReportsSafe

(* Without overlaps a published version stays as it is.                    *)
LEMMA RepFinal ==
  ASSUME RepInv, [Reports!Next]_(Reports!vars), NEW v \in Reports!Versions, rCalm, rVersion[v] = "PUBLISHED"
  PROVE  rVersion'[v] = "PUBLISHED"
<1>1. CASE UNCHANGED rVersion BY <1>1
<1>2. CASE ~UNCHANGED rVersion
  <2>1. PICK j \in Requests : Reports!Commit(j)
    BY <1>2 DEF Reports!Next, Reports!vars, Reports!Handle, Reports!NewVersion, Reports!Submit,
       Reports!Approve, Reports!Reject, Reports!Publish, Reports!Archive, Reports!Plan, Reports!Abandon
  <2> QED BY <2>1, RepCommit
<1> QED BY <1>1, <1>2

LEMMA RepMoves == [MCNext]_allVars => [Reports!Next]_(Reports!vars)
<1> SUFFICES ASSUME MCNext PROVE [Reports!Next]_(Reports!vars)
  BY DEF allVars, ReportsVars, Reports!vars
<1>1. CASE focus = "reports" BY <1>1 DEF MCNext
<1>2. CASE focus # "reports" BY <1>2 DEF MCNext, Keep, ReportsVars, Reports!vars
<1> QED BY <1>1, <1>2

----------------------------------------------------------------------------
(* Metrics.  Whatever a request that is alone has planned, the versions    *)
(* and the catalog are in order once it has been committed.                *)

MetKnown == Definitions \cup {"none"}
MetRecord ==
  [op : {"idle", "busy"}, v : Metrics!Versions, plan : [Metrics!Versions -> Metrics!Status \cup {"KEEP"}],
   def : MetKnown \cup {"KEEP"}, ana : MetKnown \cup {"KEEP"}, cat : MetKnown \cup {"KEEP"}]

(* A version that does not exist has no analysis, and no request is about  *)
(* it.                                                                     *)
MetExists(x) ==
  x.op # "idle" => /\ mStatus[x.v] # "NONE"
                   /\ \A q \in Metrics!Versions : /\ x.plan[q] # "NONE"
                                                  /\ x.plan[q] # "KEEP" => mStatus[q] # "NONE"

MetJobs ==
  /\ \A v \in Metrics!Versions : mStatus[v] = "NONE" => mAnalysed[v] = "none"
  /\ \A j \in Requests : MetExists(mJob[j])

(* Versions with the statuses s, the definitions d and the analyses a, and *)
(* a catalog row c, that are in order.                                     *)
MetOrder(s, d, a, c) ==
  /\ \A v \in Metrics!Versions :
       /\ a[v] # "none" => a[v] = d[v]
       /\ s[v] \notin {"NONE", "DRAFT"} => a[v] = d[v]
       /\ s[v] = "PUBLISHED" => c = d[v]
  /\ \A v, w \in Metrics!Versions : s[v] = "PUBLISHED" /\ s[w] = "PUBLISHED" => v = w

(* What a request leaves.                                                  *)
MetStatus(x)     == Metrics!Applied(mStatus, x.plan)
MetDefinition(x) == IF x.def = "KEEP" THEN mDefinition ELSE [mDefinition EXCEPT ![x.v] = x.def]
MetAnalysed(x)   == IF x.ana = "KEEP" THEN mAnalysed ELSE [mAnalysed EXCEPT ![x.v] = x.ana]
MetCatalog(x)    == IF x.cat = "KEEP" THEN mCatalog ELSE x.cat

MetAlone(x) ==
  x.op # "idle" => MetOrder(MetStatus(x), MetDefinition(x), MetAnalysed(x), MetCatalog(x))

MetCalm ==
  mCalm =>
    /\ MetOrder(mStatus, mDefinition, mAnalysed, mCatalog)
    /\ \A i, j \in Requests : mJob[i].op # "idle" /\ mJob[j].op # "idle" => i = j
    /\ \A j \in Requests : MetAlone(mJob[j])

MetInv == Metrics!TypeOK /\ MetJobs /\ MetCalm

LEMMA MetTypes ==
  ASSUME MetInv
  PROVE  /\ mStatus \in [Metrics!Versions -> Metrics!Status]
         /\ mDefinition \in [Metrics!Versions -> MetKnown]
         /\ mAnalysed \in [Metrics!Versions -> MetKnown]
         /\ mCatalog \in MetKnown /\ mCalm \in BOOLEAN /\ mJob \in [Requests -> MetRecord]
         /\ "KEEP" \notin MetKnown
BY BusinessAssumption
DEF MetInv, Metrics!TypeOK, MetRecord, MetKnown, Metrics!Known, Metrics!Keep

LEMMA MetNoJob == Metrics!NoJob \in MetRecord /\ Metrics!NoJob.op = "idle"
<1>1. Metrics!NoPlan(Metrics!Versions) \in [Metrics!Versions -> Metrics!Status \cup {"KEEP"}]
  BY DEF Metrics!NoPlan
<1>2. 1 \in Metrics!Versions BY BusinessAssumption DEF Metrics!Versions
<1> QED BY <1>1, <1>2 DEF Metrics!NoJob, MetRecord, Metrics!Keep

LEMMA MetInit == Metrics!Init => MetInv
<1> SUFFICES ASSUME Metrics!Init PROVE MetInv OBVIOUS
<1>1. PICK d \in Metrics!Known :
        /\ mCatalog = d
        /\ mStatus = [v \in Metrics!Versions |-> IF v = 1 /\ d # "none" THEN "PUBLISHED" ELSE "NONE"]
        /\ mDefinition = [v \in Metrics!Versions |-> IF v = 1 THEN d ELSE "none"]
        /\ mAnalysed = mDefinition
  BY DEF Metrics!Init
<1>2. mCalm = TRUE /\ mJob = [j \in Requests |-> Metrics!NoJob] BY DEF Metrics!Init
<1>3. Metrics!TypeOK
  <2>1. mJob \in [Requests -> MetRecord] BY <1>2, MetNoJob
  <2> QED BY <1>1, <1>2, <2>1 DEF Metrics!TypeOK, MetRecord, MetKnown, Metrics!Known, Metrics!Keep,
             Metrics!Status
<1>4. MetJobs BY <1>1, <1>2, MetNoJob DEF MetJobs, MetExists
<1>5. MetCalm BY <1>1, <1>2, MetNoJob DEF MetCalm, MetOrder, MetAlone
<1> QED BY <1>3, <1>4, <1>5 DEF MetInv

LEMMA MetPlan ==
  ASSUME MetInv, NEW j \in Requests, NEW x \in MetRecord, x.op = "busy",
         Metrics!Plan(j, x.v, x.plan, x.def, x.ana, x.cat),
         MetExists(x), mCalm => MetAlone(x)
  PROVE  MetInv'
<1> USE DEF MetInv
<1>0. x = [op |-> "busy", v |-> x.v, plan |-> x.plan, def |-> x.def, ana |-> x.ana, cat |-> x.cat]
  BY DEF MetRecord
<1>1. /\ mJob' = [mJob EXCEPT ![j] = x] /\ UNCHANGED <<mStatus, mDefinition, mAnalysed, mCatalog>>
      /\ mCalm' = (mCalm /\ \A k \in DOMAIN mJob : k # j => mJob[k].op = "idle")
  BY <1>0 DEF Metrics!Plan, Metrics!Alone
<1>2. \A k \in Requests : mJob'[k] = IF k = j THEN x ELSE mJob[k] BY <1>1, MetTypes
<1>3. Metrics!TypeOK'
  <2>1. mJob' \in [Requests -> MetRecord] BY <1>1, MetTypes
  <2> QED BY <1>1, <2>1, MetTypes
          DEF Metrics!TypeOK, MetRecord, MetKnown, Metrics!Known, Metrics!Keep
<1>4. MetJobs'
  <2>1. MetExists(x)' BY <1>1 DEF MetExists
  <2>2. ASSUME NEW k \in Requests PROVE MetExists(mJob[k])'
    <3>1. CASE k = j
      <4>1. mJob'[k] = x BY <1>2, <3>1
      <4> QED BY <2>1, <4>1 DEF MetExists
    <3>2. CASE k # j BY <1>1, <1>2, <3>2 DEF MetJobs, MetExists
    <3> QED BY <3>1, <3>2
  <2> QED BY <1>1, <2>2 DEF MetJobs
<1>5. MetCalm'
  <2> SUFFICES ASSUME mCalm' PROVE MetCalm' BY DEF MetCalm
  <2>1. mCalm /\ \A k \in Requests : k # j => mJob[k].op = "idle" BY <1>1, MetTypes
  <2>2. MetAlone(x)' BY <1>1, <2>1 DEF MetAlone, MetStatus, MetDefinition, MetAnalysed, MetCatalog
  <2>3. \A k \in Requests : mJob'[k].op # "idle" => k = j BY <1>2, <2>1
  <2>4. ASSUME NEW k \in Requests PROVE MetAlone(mJob[k])'
    <3>1. CASE k = j
      <4>1. mJob'[k] = x BY <1>2, <3>1
      <4> QED BY <2>2, <4>1 DEF MetAlone, MetStatus, MetDefinition, MetAnalysed, MetCatalog
    <3>2. CASE k # j BY <2>3, <3>2 DEF MetAlone
    <3> QED BY <3>1, <3>2
  <2>5. MetOrder(mStatus, mDefinition, mAnalysed, mCatalog)' BY <1>1, <2>1 DEF MetCalm
  <2> QED BY <2>3, <2>4, <2>5 DEF MetCalm
<1> QED BY <1>3, <1>4, <1>5

(* A handler that plans a status for one version.                          *)
LEMMA MetMove ==
  ASSUME MetInv, NEW j \in Requests, NEW v \in Metrics!Versions,
         NEW to \in {"DRAFT", "REVIEW", "APPROVED", "DEPRECATED"}, Metrics!Move(j, v, to),
         mStatus[v] # "NONE", mStatus[v] = "DRAFT" => mAnalysed[v] # "none"
  PROVE  MetInv'
<1>0. PICK plan : plan = Metrics!Writes(mStatus, {}, "", {v}, to) OBVIOUS
<1>1. plan = [q \in Metrics!Versions |-> IF q = v THEN IF mStatus[q] = to THEN "KEEP" ELSE to ELSE "KEEP"]
  BY <1>0, MetTypes DEF Metrics!Writes
<1>2. plan \in [Metrics!Versions -> Metrics!Status \cup {"KEEP"}] BY <1>1 DEF Metrics!Status
<1>3. PICK x : x = [op |-> "busy", v |-> v, plan |-> plan, def |-> "KEEP", ana |-> "KEEP", cat |-> "KEEP"]
  OBVIOUS
<1>4. /\ x \in MetRecord /\ x.op = "busy" /\ x.v = v /\ x.plan = plan
      /\ x.def = "KEEP" /\ x.ana = "KEEP" /\ x.cat = "KEEP"
  BY <1>2, <1>3 DEF MetRecord
<1>5. Metrics!Plan(j, x.v, x.plan, x.def, x.ana, x.cat)
  BY <1>0, <1>4 DEF Metrics!Move, Metrics!Keep
<1>6. MetExists(x) BY <1>1, <1>4 DEF MetExists
<1>7. ASSUME mCalm PROVE MetAlone(x)
  <2>1. MetOrder(mStatus, mDefinition, mAnalysed, mCatalog) BY <1>7 DEF MetInv, MetCalm
  <2>2. \A q \in Metrics!Versions : MetStatus(x)[q] = IF q = v THEN to ELSE mStatus[q]
    BY <1>1, <1>4, MetTypes DEF MetStatus, Metrics!Applied
  <2>3. MetDefinition(x) = mDefinition /\ MetAnalysed(x) = mAnalysed /\ MetCatalog(x) = mCatalog
    BY <1>4 DEF MetDefinition, MetAnalysed, MetCatalog
  <2>4. mAnalysed[v] = mDefinition[v] BY <2>1 DEF MetOrder
  <2>5. MetOrder(MetStatus(x), mDefinition, mAnalysed, mCatalog) BY <2>1, <2>2, <2>4 DEF MetOrder
  <2> QED BY <2>3, <2>5 DEF MetAlone
<1> QED BY <1>4, <1>5, <1>6, <1>7, MetPlan

(* A handler that changes the columns of a draft.                          *)
LEMMA MetDraft ==
  ASSUME MetInv, NEW j \in Requests, NEW v \in Metrics!Versions, mStatus[v] = "DRAFT",
         NEW def \in MetKnown \cup {"KEEP"}, NEW ana \in MetKnown \cup {"KEEP"},
         Metrics!Plan(j, v, Metrics!NoPlan(Metrics!Versions), def, ana, "KEEP"),
         \/ def = "KEEP" /\ ana = mDefinition[v]
         \/ ana = IF mAnalysed[v] = "none" THEN "KEEP" ELSE "none"
  PROVE  MetInv'
<1>0. PICK plan : plan = Metrics!NoPlan(Metrics!Versions) OBVIOUS
<1>1. plan = [q \in Metrics!Versions |-> "KEEP"] BY <1>0 DEF Metrics!NoPlan
<1>2. plan \in [Metrics!Versions -> Metrics!Status \cup {"KEEP"}] BY <1>1
<1>3. PICK x : x = [op |-> "busy", v |-> v, plan |-> plan, def |-> def, ana |-> ana, cat |-> "KEEP"]
  OBVIOUS
<1>4. /\ x \in MetRecord /\ x.op = "busy" /\ x.v = v /\ x.plan = plan
      /\ x.def = def /\ x.ana = ana /\ x.cat = "KEEP"
  BY <1>2, <1>3 DEF MetRecord
<1>5. Metrics!Plan(j, x.v, x.plan, x.def, x.ana, x.cat) BY <1>0, <1>4
<1>6. MetExists(x) BY <1>1, <1>4 DEF MetExists
<1>7. ASSUME mCalm PROVE MetAlone(x)
  <2>1. MetOrder(mStatus, mDefinition, mAnalysed, mCatalog) BY <1>7 DEF MetInv, MetCalm
  <2>2. \A q \in Metrics!Versions : MetStatus(x)[q] = mStatus[q]
    BY <1>1, <1>4, MetTypes DEF MetStatus, Metrics!Applied
  <2>3. \A q \in Metrics!Versions \ {v} :
          MetDefinition(x)[q] = mDefinition[q] /\ MetAnalysed(x)[q] = mAnalysed[q]
    BY <1>4, MetTypes DEF MetDefinition, MetAnalysed
  <2>4. MetCatalog(x) = mCatalog BY <1>4 DEF MetCatalog
  <2>5. MetAnalysed(x)[v] = "none" \/ MetAnalysed(x)[v] = MetDefinition(x)[v]
    BY <1>4, MetTypes DEF MetDefinition, MetAnalysed
  <2>6. MetOrder(MetStatus(x), MetDefinition(x), MetAnalysed(x), mCatalog)
    <3> USE DEF MetOrder
    <3>1. \A q \in Metrics!Versions :
            /\ MetAnalysed(x)[q] # "none" => MetAnalysed(x)[q] = MetDefinition(x)[q]
            /\ MetStatus(x)[q] \notin {"NONE", "DRAFT"} => MetAnalysed(x)[q] = MetDefinition(x)[q]
            /\ MetStatus(x)[q] = "PUBLISHED" => mCatalog = MetDefinition(x)[q]
      BY <2>1, <2>2, <2>3, <2>5
    <3> QED BY <2>1, <2>2, <3>1
  <2> QED BY <2>4, <2>6 DEF MetAlone
<1> QED BY <1>4, <1>5, <1>6, <1>7, MetPlan

LEMMA MetPublish ==
  ASSUME MetInv, NEW j \in Requests, NEW v \in Metrics!Versions, Metrics!Publish(j, v)
  PROVE  MetInv'
<1>0. PICK old \in SUBSET Metrics!Published :
        /\ IF Metrics!Published = {} THEN old = {} ELSE Metrics!Cardinality(old) = 1
        /\ Metrics!Plan(j, v, Metrics!Writes(mStatus, old, "DEPRECATED", {v}, "PUBLISHED"),
                        "KEEP", "KEEP", Metrics!Column(mCatalog, mDefinition[v]))
  BY DEF Metrics!Publish, Metrics!Keep
<1>1. mStatus[v] = "APPROVED" BY DEF Metrics!Publish
<1>2. PICK plan : plan = Metrics!Writes(mStatus, old, "DEPRECATED", {v}, "PUBLISHED") OBVIOUS
<1>3. old \subseteq Metrics!Versions /\ \A q \in old : mStatus[q] = "PUBLISHED"
  BY DEF Metrics!Published
<1>4. plan = [q \in Metrics!Versions |->
                IF q = v THEN "PUBLISHED" ELSE IF q \in old THEN "DEPRECATED" ELSE "KEEP"]
  BY <1>1, <1>2, <1>3, MetTypes DEF Metrics!Writes
<1>5. plan \in [Metrics!Versions -> Metrics!Status \cup {"KEEP"}] BY <1>4 DEF Metrics!Status
<1>6. PICK x : x = [op |-> "busy", v |-> v, plan |-> plan, def |-> "KEEP", ana |-> "KEEP",
                    cat |-> Metrics!Column(mCatalog, mDefinition[v])]
  OBVIOUS
<1>7. Metrics!Column(mCatalog, mDefinition[v]) \in MetKnown \cup {"KEEP"}
  BY MetTypes DEF Metrics!Column, Metrics!Keep
<1>8. /\ x \in MetRecord /\ x.op = "busy" /\ x.v = v /\ x.plan = plan
      /\ x.def = "KEEP" /\ x.ana = "KEEP" /\ x.cat = Metrics!Column(mCatalog, mDefinition[v])
  BY <1>5, <1>6, <1>7 DEF MetRecord
<1>9. Metrics!Plan(j, x.v, x.plan, x.def, x.ana, x.cat) BY <1>0, <1>2, <1>8
<1>10. MetExists(x) BY <1>1, <1>3, <1>4, <1>8 DEF MetExists
<1>11. ASSUME mCalm PROVE MetAlone(x)
  <2>1. MetOrder(mStatus, mDefinition, mAnalysed, mCatalog) BY <1>11 DEF MetInv, MetCalm
  <2>2. \A q \in Metrics!Versions : mStatus[q] = "PUBLISHED" => q \in old
    <3> SUFFICES ASSUME NEW q \in Metrics!Versions, mStatus[q] = "PUBLISHED" PROVE q \in old OBVIOUS
    <3>1. q \in Metrics!Published BY DEF Metrics!Published
    <3>2. Metrics!Cardinality(old) = Cardinality(old)
      BY Zenon DEF Metrics!Cardinality, Cardinality
    <3>3. Cardinality({}) = 0 BY FS_EmptySet
    <3>4. old # {} BY <1>0, <3>1, <3>2, <3>3
    <3> QED BY <1>3, <2>1, <3>4 DEF MetOrder
  <2>3. \A q \in Metrics!Versions :
          MetStatus(x)[q] = IF q = v THEN "PUBLISHED" ELSE IF q \in old THEN "DEPRECATED" ELSE mStatus[q]
    BY <1>4, <1>8, MetTypes DEF MetStatus, Metrics!Applied
  <2>4. MetDefinition(x) = mDefinition /\ MetAnalysed(x) = mAnalysed
    BY <1>8 DEF MetDefinition, MetAnalysed
  <2>5. MetCatalog(x) = mDefinition[v]
    BY <1>8, MetTypes DEF MetCatalog, Metrics!Column, Metrics!Keep
  <2>6. MetOrder(MetStatus(x), mDefinition, mAnalysed, mDefinition[v])
    <3>1. \A q \in Metrics!Versions : MetStatus(x)[q] = "PUBLISHED" => q = v BY <1>3, <2>2, <2>3
    <3>2. \A q \in Metrics!Versions : MetStatus(x)[q] \notin {"NONE", "DRAFT"} =>
                                        mStatus[q] \notin {"NONE", "DRAFT"}
      BY <1>1, <1>3, <2>3
    <3> QED BY <2>1, <3>1, <3>2 DEF MetOrder
  <2> QED BY <2>4, <2>5, <2>6 DEF MetAlone
<1> QED BY <1>8, <1>9, <1>10, <1>11, MetPlan

LEMMA MetHandlers ==
  ASSUME MetInv, NEW j \in Requests, NEW v \in Metrics!Versions,
         \/ Metrics!ImpactAnalysis(j, v) \/ Metrics!Submit(j, v) \/ Metrics!Approve(j, v)
         \/ Metrics!Reject(j, v) \/ Metrics!Publish(j, v) \/ Metrics!Deprecate(j, v)
         \/ \E d \in Definitions : Metrics!UpdateDraft(j, v, d)
  PROVE  MetInv'
<1>1. CASE Metrics!ImpactAnalysis(j, v)
  <2>1. mStatus[v] = "DRAFT" /\ mDefinition[v] \in MetKnown
    BY <1>1, MetTypes DEF Metrics!ImpactAnalysis
  <2>2. Metrics!Plan(j, v, Metrics!NoPlan(Metrics!Versions), "KEEP", mDefinition[v], "KEEP")
    BY <1>1 DEF Metrics!ImpactAnalysis, Metrics!Keep
  <2> QED BY <2>1, <2>2, MetDraft
<1>2. CASE Metrics!Submit(j, v) BY <1>2, MetMove DEF Metrics!Submit
<1>3. CASE Metrics!Approve(j, v) BY <1>3, MetMove DEF Metrics!Approve
<1>4. CASE Metrics!Reject(j, v) BY <1>4, MetMove DEF Metrics!Reject
<1>5. CASE Metrics!Publish(j, v) BY <1>5, MetPublish
<1>6. CASE Metrics!Deprecate(j, v) BY <1>6, MetMove DEF Metrics!Deprecate
<1>7. ASSUME NEW d \in Definitions, Metrics!UpdateDraft(j, v, d) PROVE MetInv'
  <2>1. mStatus[v] = "DRAFT" /\ mDefinition[v] \in MetKnown /\ mAnalysed[v] \in MetKnown
    BY <1>7, MetTypes DEF Metrics!UpdateDraft
  <2>2. PICK def, ana : /\ def = Metrics!Column(mDefinition[v], d)
                        /\ ana = Metrics!Column(mAnalysed[v], "none")
    OBVIOUS
  <2>3. /\ def \in MetKnown \cup {"KEEP"} /\ ana \in MetKnown \cup {"KEEP"}
        /\ ana = IF mAnalysed[v] = "none" THEN "KEEP" ELSE "none"
    BY <2>2 DEF Metrics!Column, Metrics!Keep, MetKnown
  <2>4. Metrics!Plan(j, v, Metrics!NoPlan(Metrics!Versions), def, ana, "KEEP")
    BY <1>7, <2>2 DEF Metrics!UpdateDraft, Metrics!Keep
  <2> QED BY <2>1, <2>3, <2>4, MetDraft
<1> QED BY <1>1, <1>2, <1>3, <1>4, <1>5, <1>6, <1>7

LEMMA MetCreate ==
  ASSUME MetInv, NEW v \in Metrics!Versions, NEW d \in Definitions, Metrics!CreateDraft(v, d)
  PROVE  MetInv'
<1> USE DEF MetInv
<1>1. /\ mStatus[v] = "NONE" /\ mStatus' = [mStatus EXCEPT ![v] = "DRAFT"]
      /\ mDefinition' = [mDefinition EXCEPT ![v] = d] /\ UNCHANGED <<mAnalysed, mCatalog, mCalm, mJob>>
  BY DEF Metrics!CreateDraft
<1>2. \A q \in Metrics!Versions : /\ mStatus'[q] = IF q = v THEN "DRAFT" ELSE mStatus[q]
                                  /\ mDefinition'[q] = IF q = v THEN d ELSE mDefinition[q]
  BY <1>1, MetTypes
<1>3. Metrics!TypeOK'
  BY <1>1, MetTypes DEF Metrics!TypeOK, Metrics!Status, MetKnown, Metrics!Known
<1>4. MetJobs' BY <1>1, <1>2 DEF MetJobs, MetExists
<1>5. MetCalm'
  <2> SUFFICES ASSUME mCalm PROVE MetCalm' BY <1>1 DEF MetCalm
  <2>0. mAnalysed[v] = "none" BY <1>1 DEF MetJobs
  <2>1. MetOrder(mStatus, mDefinition, mAnalysed, mCatalog)'
    BY <1>1, <1>2, <2>0 DEF MetCalm, MetOrder
  <2>2. ASSUME NEW j \in Requests, mJob[j].op # "idle" PROVE MetAlone(mJob[j])'
    <3>0. PICK x : x = mJob[j] OBVIOUS
    <3>1. x \in MetRecord /\ MetExists(x) BY <2>2, <3>0, MetTypes DEF MetJobs
    <3>2. x.v # v /\ x.plan[v] = "KEEP" BY <1>1, <2>2, <3>0, <3>1 DEF MetExists
    <3>3. MetOrder(MetStatus(x), MetDefinition(x), MetAnalysed(x), MetCatalog(x))
      BY <2>2, <3>0 DEF MetCalm, MetAlone
    <3>4. \A q \in Metrics!Versions : MetStatus(x)'[q] = IF q = v THEN "DRAFT" ELSE MetStatus(x)[q]
      BY <1>1, <1>2, <3>2, MetTypes DEF MetStatus, Metrics!Applied
    <3>5. \A q \in Metrics!Versions :
            MetDefinition(x)'[q] = IF q = v THEN d ELSE MetDefinition(x)[q]
      BY <1>1, <1>2, <3>1, <3>2, MetTypes DEF MetDefinition, MetRecord
    <3>6. MetAnalysed(x)' = MetAnalysed(x) /\ MetCatalog(x)' = MetCatalog(x)
      BY <1>1 DEF MetAnalysed, MetCatalog
    <3>7. MetAnalysed(x)[v] = "none" BY <2>0, <3>1, <3>2, MetTypes DEF MetAnalysed, MetRecord
    <3>8. MetOrder(MetStatus(x)', MetDefinition(x)', MetAnalysed(x), MetCatalog(x))
      BY <3>3, <3>4, <3>5, <3>7 DEF MetOrder
    <3>9. MetAlone(x)' BY <3>6, <3>8 DEF MetAlone
    <3> QED BY <1>1, <3>0, <3>9 DEF MetAlone, MetStatus, MetDefinition, MetAnalysed, MetCatalog
  <2>3. \A j \in Requests : MetAlone(mJob[j])' BY <1>1, <2>2 DEF MetAlone
  <2> QED BY <1>1, <2>1, <2>3 DEF MetCalm
<1> QED BY <1>3, <1>4, <1>5

LEMMA MetCommit ==
  ASSUME MetInv, NEW j \in Requests, Metrics!Commit(j)
  PROVE  MetInv'
<1> USE DEF MetInv
<1>0. PICK x : x = mJob[j] OBVIOUS
<1>1. /\ x.op = "busy" /\ mJob' = [mJob EXCEPT ![j] = Metrics!NoJob] /\ UNCHANGED mCalm
      /\ mStatus' = MetStatus(x) /\ mDefinition' = MetDefinition(x)
      /\ mAnalysed' = MetAnalysed(x) /\ mCatalog' = MetCatalog(x)
  BY <1>0 DEF Metrics!Commit, Metrics!Keep, MetStatus, MetDefinition, MetAnalysed, MetCatalog
<1>2. x \in MetRecord /\ MetExists(x) BY <1>0, MetTypes DEF MetJobs
<1>3. \A k \in Requests : mJob'[k] = IF k = j THEN Metrics!NoJob ELSE mJob[k] BY <1>1, MetTypes
<1>4. \A q \in Metrics!Versions :
        /\ mStatus'[q] = IF x.plan[q] = "KEEP" THEN mStatus[q] ELSE x.plan[q]
        /\ mAnalysed'[q] = IF x.ana # "KEEP" /\ q = x.v THEN x.ana ELSE mAnalysed[q]
  BY <1>1, <1>2, MetTypes DEF MetStatus, Metrics!Applied, MetAnalysed, MetRecord
<1>5. Metrics!TypeOK'
  <2>1. mStatus' \in [Metrics!Versions -> Metrics!Status]
    <3>1. mStatus' = [q \in Metrics!Versions |-> IF x.plan[q] = "KEEP" THEN mStatus[q] ELSE x.plan[q]]
      BY <1>1, MetTypes DEF MetStatus, Metrics!Applied
    <3>2. \A q \in Metrics!Versions : x.plan[q] \in Metrics!Status \cup {"KEEP"} BY <1>2 DEF MetRecord
    <3> QED BY <3>1, <3>2, MetTypes
  <2>2. mJob' \in [Requests -> MetRecord] BY <1>1, MetNoJob, MetTypes
  <2>3. /\ mDefinition' \in [Metrics!Versions -> MetKnown] /\ mAnalysed' \in [Metrics!Versions -> MetKnown]
        /\ mCatalog' \in MetKnown
    BY <1>1, <1>2, MetTypes DEF MetDefinition, MetAnalysed, MetCatalog, MetRecord
  <2> QED BY <1>1, <2>1, <2>2, <2>3, MetTypes
          DEF Metrics!TypeOK, MetRecord, MetKnown, Metrics!Known, Metrics!Keep
<1>6. \A q \in Metrics!Versions : mStatus'[q] = "NONE" <=> mStatus[q] = "NONE"
  BY <1>1, <1>2, <1>4 DEF MetExists
<1>7. MetJobs'
  <2>1. \A q \in Metrics!Versions : mStatus'[q] = "NONE" => mAnalysed'[q] = "none"
    BY <1>1, <1>2, <1>4, <1>6 DEF MetJobs, MetExists
  <2>2. ASSUME NEW k \in Requests, mJob'[k].op # "idle" PROVE MetExists(mJob[k])'
    <3>1. mJob'[k] = mJob[k] /\ mJob[k].op # "idle" BY <1>3, <2>2, MetNoJob
    <3>2. MetExists(mJob[k]) /\ mJob[k].v \in Metrics!Versions BY MetTypes DEF MetJobs, MetRecord
    <3> QED BY <1>6, <3>1, <3>2 DEF MetExists
  <2>3. \A k \in Requests : MetExists(mJob[k])' BY <2>2 DEF MetExists
  <2> QED BY <2>1, <2>3 DEF MetJobs
<1>8. MetCalm'
  <2> SUFFICES ASSUME mCalm PROVE MetCalm' BY <1>1 DEF MetCalm
  <2>1. MetAlone(x) /\ \A k \in Requests : k # j => mJob[k].op = "idle" BY <1>0, <1>1 DEF MetCalm
  <2>2. \A k \in Requests : mJob'[k].op = "idle" BY <1>3, <2>1, MetNoJob
  <2>3. MetOrder(mStatus, mDefinition, mAnalysed, mCatalog)' BY <1>1, <2>1 DEF MetAlone
  <2> QED BY <2>2, <2>3 DEF MetCalm, MetAlone
<1> QED BY <1>5, <1>7, <1>8

LEMMA MetAbandon ==
  ASSUME MetInv, NEW j \in Requests, Metrics!Abandon(j)
  PROVE  MetInv'
<1> USE DEF MetInv
<1>1. /\ mJob' = [mJob EXCEPT ![j] = Metrics!NoJob]
      /\ UNCHANGED <<mStatus, mDefinition, mAnalysed, mCatalog, mCalm>>
  BY DEF Metrics!Abandon
<1>2. \A k \in Requests : mJob'[k] = IF k = j THEN Metrics!NoJob ELSE mJob[k] BY <1>1, MetTypes
<1>3. Metrics!TypeOK'
  <2>1. mJob' \in [Requests -> MetRecord] BY <1>1, MetNoJob, MetTypes
  <2> QED BY <1>1, <2>1, MetTypes DEF Metrics!TypeOK, MetRecord, MetKnown, Metrics!Known, Metrics!Keep
<1>4. MetJobs' BY <1>1, <1>2, MetNoJob DEF MetJobs, MetExists
<1>5. MetCalm'
  BY <1>1, <1>2, MetNoJob DEF MetCalm, MetAlone, MetStatus, MetDefinition, MetAnalysed, MetCatalog
<1> QED BY <1>3, <1>4, <1>5

LEMMA MetStep == MetInv /\ [Metrics!Next]_(Metrics!vars) => MetInv'
<1> SUFFICES ASSUME MetInv, [Metrics!Next]_(Metrics!vars) PROVE MetInv' OBVIOUS
<1>1. CASE UNCHANGED Metrics!vars
  BY <1>1 DEF MetInv, Metrics!vars, Metrics!TypeOK, MetJobs, MetExists, MetCalm, MetAlone, MetStatus,
     MetDefinition, MetAnalysed, MetCatalog
<1> QED BY <1>1, MetHandlers, MetCreate, MetCommit, MetAbandon DEF Metrics!Next, Metrics!Handle

LEMMA MetSafe == MetInv => Metrics!MetricsSafe
<1> SUFFICES ASSUME MetInv PROVE Metrics!MetricsSafe OBVIOUS
<1> USE DEF MetInv
<1>1. Metrics!CalmReviewedWasAnalysed BY DEF MetCalm, MetOrder, Metrics!CalmReviewedWasAnalysed
<1>2. Metrics!CalmCatalogIsPublished
  <2> SUFFICES ASSUME mCalm
               PROVE  /\ Metrics!Cardinality(Metrics!Published) <= 1
                      /\ \A v \in Metrics!Published : mCatalog = mDefinition[v]
    BY DEF Metrics!CalmCatalogIsPublished
  <2>1. \A v, w \in Metrics!Published : v = w BY DEF Metrics!Published, MetCalm, MetOrder
  <2>2. Cardinality(Metrics!Published) <= 1 BY <2>1, AtMostOne
  <2>3. Metrics!Cardinality(Metrics!Published) = Cardinality(Metrics!Published)
    BY Zenon DEF Metrics!Cardinality, Cardinality
  <2>4. \A v \in Metrics!Published : mCatalog = mDefinition[v]
    BY DEF Metrics!Published, MetCalm, MetOrder
  <2> QED BY <2>2, <2>3, <2>4
<1> QED BY <1>1, <1>2 DEF Metrics!MetricsSafe

LEMMA MetMoves == [MCNext]_allVars => [Metrics!Next]_(Metrics!vars)
<1> SUFFICES ASSUME MCNext PROVE [Metrics!Next]_(Metrics!vars)
  BY DEF allVars, MetricsVars, Metrics!vars
<1>1. CASE focus = "metrics" BY <1>1 DEF MCNext
<1>2. CASE focus # "metrics" BY <1>2 DEF MCNext, Keep, MetricsVars, Metrics!vars
<1> QED BY <1>1, <1>2

----------------------------------------------------------------------------
(* Knowledge documents.  A publication and a rollback plan a published     *)
(* version; a request that is alone plans one at most, and nothing for     *)
(* versions that are retired.                                              *)

KnoRecord ==
  [op : {"idle", "publish", "withdraw", "rollback"},
   plan : [Knowledge!Versions -> Knowledge!Status \cup {"KEEP"}]]

KnoReplaces(x) ==
  x.op \in {"publish", "rollback"} => \E v \in Knowledge!Versions : x.plan[v] = "PUBLISHED"

KnoJobs == \A j \in Requests : KnoReplaces(kJob[j])

(* The status of a version once the request x has been committed.          *)
KnoAfter(x, v) == IF x.plan[v] = "KEEP" THEN kStatus[v] ELSE x.plan[v]

KnoAlone(x) ==
  x.op # "idle" =>
    /\ \A v \in Knowledge!Versions : kStatus[v] \in {"NONE", "RETIRED"} => x.plan[v] = "KEEP"
    /\ \A v, w \in Knowledge!Versions :
         KnoAfter(x, v) = "PUBLISHED" /\ KnoAfter(x, w) = "PUBLISHED" => v = w

KnoOne ==
  \A v, w \in Knowledge!Versions : kStatus[v] = "PUBLISHED" /\ kStatus[w] = "PUBLISHED" => v = w

KnoCalm ==
  kCalm =>
    /\ KnoOne
    /\ \A i, j \in Requests : kJob[i].op # "idle" /\ kJob[j].op # "idle" => i = j
    /\ \A j \in Requests : KnoAlone(kJob[j])

KnoInv == Knowledge!TypeOK /\ KnoJobs /\ KnoCalm

LEMMA KnoTypes ==
  ASSUME KnoInv
  PROVE  /\ kStatus \in [Knowledge!Versions -> Knowledge!Status]
         /\ kWithdrawn \in BOOLEAN /\ kCalm \in BOOLEAN /\ kJob \in [Requests -> KnoRecord]
BY DEF KnoInv, Knowledge!TypeOK, KnoRecord

LEMMA KnoNoJob == Knowledge!NoJob \in KnoRecord /\ Knowledge!NoJob.op = "idle"
<1>1. Knowledge!NoPlan(Knowledge!Versions) \in [Knowledge!Versions -> Knowledge!Status \cup {"KEEP"}]
  BY DEF Knowledge!NoPlan
<1> QED BY <1>1 DEF Knowledge!NoJob, KnoRecord

LEMMA KnoInit == Knowledge!Init => KnoInv
<1> SUFFICES ASSUME Knowledge!Init PROVE KnoInv OBVIOUS
<1>1. Knowledge!TypeOK
  BY KnoNoJob DEF Knowledge!Init, Knowledge!TypeOK, KnoRecord, Knowledge!Status
<1>2. KnoJobs BY KnoNoJob DEF Knowledge!Init, KnoJobs, KnoReplaces
<1>3. KnoCalm BY KnoNoJob DEF Knowledge!Init, KnoCalm, KnoOne, KnoAlone
<1> QED BY <1>1, <1>2, <1>3 DEF KnoInv

LEMMA KnoPlan ==
  ASSUME KnoInv, NEW j \in Requests, NEW op \in {"publish", "withdraw", "rollback"},
         NEW plan \in [Knowledge!Versions -> Knowledge!Status \cup {"KEEP"}],
         Knowledge!Plan(j, op, plan),
         NEW x, x = [op |-> op, plan |-> plan], KnoReplaces(x), kCalm => KnoAlone(x)
  PROVE  KnoInv'
<1> USE DEF KnoInv
<1>1. /\ kJob' = [kJob EXCEPT ![j] = x] /\ UNCHANGED <<kStatus, kWithdrawn>>
      /\ kCalm' = (kCalm /\ \A k \in DOMAIN kJob : k # j => kJob[k].op = "idle")
  BY DEF Knowledge!Plan, Knowledge!Alone
<1>2. x \in KnoRecord BY DEF KnoRecord
<1>3. \A k \in Requests : kJob'[k] = IF k = j THEN x ELSE kJob[k] BY <1>1, KnoTypes
<1>4. Knowledge!TypeOK' BY <1>1, <1>2, KnoTypes DEF Knowledge!TypeOK, KnoRecord
<1>5. KnoJobs'
  <2> SUFFICES ASSUME NEW k \in Requests PROVE KnoReplaces(kJob[k])' BY DEF KnoJobs
  <2>1. CASE k = j
    <3>1. kJob'[k] = x BY <1>3, <2>1
    <3> QED BY <3>1 DEF KnoReplaces
  <2>2. CASE k # j
    <3>1. kJob'[k] = kJob[k] BY <1>3, <2>2
    <3> QED BY <3>1 DEF KnoJobs, KnoReplaces
  <2> QED BY <2>1, <2>2
<1>6. KnoCalm'
  <2> SUFFICES ASSUME kCalm' PROVE KnoCalm' BY DEF KnoCalm
  <2>1. kCalm /\ \A k \in Requests : k # j => kJob[k].op = "idle" BY <1>1, KnoTypes
  <2>2. \A k \in Requests : kJob'[k].op # "idle" => k = j BY <1>3, <2>1
  <2>3. KnoAlone(x)' BY <1>1, <2>1 DEF KnoAlone, KnoAfter
  <2>4. ASSUME NEW k \in Requests PROVE KnoAlone(kJob[k])'
    <3>1. CASE k = j
      <4>1. kJob'[k] = x BY <1>3, <3>1
      <4> QED BY <2>3, <4>1 DEF KnoAlone, KnoAfter
    <3>2. CASE k # j BY <2>2, <3>2 DEF KnoAlone
    <3> QED BY <3>1, <3>2
  <2>5. KnoOne' BY <1>1, <2>1 DEF KnoCalm, KnoOne
  <2> QED BY <2>2, <2>4, <2>5 DEF KnoCalm
<1> QED BY <1>4, <1>5, <1>6

(* One version is planned to be published, and c to be superseded if it is *)
(* the published one.                                                      *)
LEMMA KnoPublishes ==
  ASSUME KnoInv, NEW j \in Requests, NEW op \in {"publish", "rollback"},
         NEW C \in SUBSET Knowledge!Versions, NEW v \in Knowledge!Versions,
         kStatus[v] \in {"READY", "SUPERSEDED"},
         \A c \in C : kStatus[c] = "PUBLISHED",
         C = {} => \A w \in Knowledge!Versions : kStatus[w] # "PUBLISHED",
         Knowledge!Plan(j, op, Knowledge!Writes(kStatus, C, "SUPERSEDED", {v}, "PUBLISHED"))
  PROVE  KnoInv'
<1>0. PICK plan : plan = Knowledge!Writes(kStatus, C, "SUPERSEDED", {v}, "PUBLISHED") OBVIOUS
<1>1. plan = [w \in Knowledge!Versions |-> IF w = v THEN "PUBLISHED"
                                           ELSE IF w \in C THEN "SUPERSEDED" ELSE "KEEP"]
  BY <1>0, KnoTypes DEF Knowledge!Writes
<1>2. plan \in [Knowledge!Versions -> Knowledge!Status \cup {"KEEP"}] BY <1>1 DEF Knowledge!Status
<1>3. PICK x : x = [op |-> op, plan |-> plan] OBVIOUS
<1>4. KnoReplaces(x) BY <1>1, <1>3 DEF KnoReplaces
<1>5. ASSUME kCalm PROVE KnoAlone(x)
  <2>1. \A w \in Knowledge!Versions : kStatus[w] = "PUBLISHED" => w \in C
    BY <1>5 DEF KnoInv, KnoCalm, KnoOne
  <2>2. \A w \in Knowledge!Versions : KnoAfter(x, w) = "PUBLISHED" => w = v
    BY <1>1, <1>3, <2>1 DEF KnoAfter
  <2> QED BY <1>1, <1>3, <2>2 DEF KnoAlone
<1> QED BY <1>0, <1>2, <1>3, <1>4, <1>5, KnoPlan

LEMMA KnoWithdraws ==
  ASSUME KnoInv, NEW j \in Requests, NEW v \in Knowledge!Versions, kStatus[v] # "NONE",
         Knowledge!Plan(j, "withdraw", Knowledge!Writes(kStatus, {}, "", {v}, "RETIRED"))
  PROVE  KnoInv'
<1>0. PICK plan : plan = Knowledge!Writes(kStatus, {}, "", {v}, "RETIRED") OBVIOUS
<1>1. plan = [w \in Knowledge!Versions |-> IF w = v /\ kStatus[w] # "RETIRED" THEN "RETIRED" ELSE "KEEP"]
  BY <1>0, KnoTypes DEF Knowledge!Writes
<1>2. plan \in [Knowledge!Versions -> Knowledge!Status \cup {"KEEP"}] BY <1>1 DEF Knowledge!Status
<1>3. PICK x : x = [op |-> "withdraw", plan |-> plan] OBVIOUS
<1>4. KnoReplaces(x) BY <1>3 DEF KnoReplaces
<1>5. ASSUME kCalm PROVE KnoAlone(x)
  <2>1. KnoOne BY <1>5 DEF KnoInv, KnoCalm
  <2>2. \A w \in Knowledge!Versions : KnoAfter(x, w) = "PUBLISHED" => kStatus[w] = "PUBLISHED"
    BY <1>1, <1>3 DEF KnoAfter
  <2> QED BY <1>1, <1>3, <2>1, <2>2 DEF KnoAlone, KnoOne
<1> QED BY <1>0, <1>2, <1>3, <1>4, <1>5, KnoPlan

LEMMA KnoHandlers ==
  ASSUME KnoInv, NEW j \in Requests,
         \/ \E v \in Knowledge!Versions :
              Knowledge!Publish(j, v) \/ Knowledge!Retire(j, v) \/ Knowledge!SoftDelete(j, v)
         \/ \E c, t \in Knowledge!Versions : Knowledge!Rollback(j, c, t)
  PROVE  KnoInv'
<1>1. ASSUME NEW v \in Knowledge!Versions, Knowledge!Publish(j, v) PROVE KnoInv'
  <2>0. kStatus[v] = "READY" BY <1>1 DEF Knowledge!Publish
  <2>1. CASE Knowledge!Published = {}
    <3>1. Knowledge!Plan(j, "publish", Knowledge!Writes(kStatus, {}, "", {v}, "PUBLISHED"))
      BY <1>1, <2>1 DEF Knowledge!Publish
    <3>2. Knowledge!Writes(kStatus, {}, "", {v}, "PUBLISHED")
            = Knowledge!Writes(kStatus, {}, "SUPERSEDED", {v}, "PUBLISHED")
      BY DEF Knowledge!Writes
    <3>3. \A w \in Knowledge!Versions : kStatus[w] # "PUBLISHED" BY <2>1 DEF Knowledge!Published
    <3>4. Knowledge!Plan(j, "publish", Knowledge!Writes(kStatus, {}, "SUPERSEDED", {v}, "PUBLISHED"))
      BY <3>1, <3>2
    <3>5. {} \in SUBSET Knowledge!Versions /\ \A w \in {} : kStatus[w] = "PUBLISHED" OBVIOUS
    <3> QED BY <2>0, <3>3, <3>4, <3>5, KnoPublishes
  <2>2. CASE Knowledge!Published # {}
    <3>1. PICK c \in Knowledge!Published :
            Knowledge!Plan(j, "publish", Knowledge!Writes(kStatus, {c}, "SUPERSEDED", {v}, "PUBLISHED"))
      BY <1>1, <2>2 DEF Knowledge!Publish
    <3>2. c \in Knowledge!Versions /\ kStatus[c] = "PUBLISHED" BY DEF Knowledge!Published
    <3>3. {c} \in SUBSET Knowledge!Versions /\ {c} # {} /\ \A w \in {c} : kStatus[w] = "PUBLISHED"
      BY <3>2
    <3> QED BY <2>0, <3>1, <3>3, KnoPublishes
  <2> QED BY <2>1, <2>2
<1>2. ASSUME NEW v \in Knowledge!Versions, Knowledge!Retire(j, v) \/ Knowledge!SoftDelete(j, v)
      PROVE  KnoInv'
  BY <1>2, KnoWithdraws DEF Knowledge!Retire, Knowledge!SoftDelete
<1>3. ASSUME NEW c \in Knowledge!Versions, NEW t \in Knowledge!Versions, Knowledge!Rollback(j, c, t)
      PROVE  KnoInv'
  <2>1. /\ kStatus[c] = "PUBLISHED" /\ kStatus[t] = "SUPERSEDED"
        /\ Knowledge!Plan(j, "rollback", Knowledge!Writes(kStatus, {c}, "SUPERSEDED", {t}, "PUBLISHED"))
    BY <1>3 DEF Knowledge!Rollback
  <2>2. {c} \in SUBSET Knowledge!Versions /\ {c} # {} /\ \A w \in {c} : kStatus[w] = "PUBLISHED"
    BY <2>1
  <2> QED BY <2>1, <2>2, KnoPublishes
<1> QED BY <1>1, <1>2, <1>3

LEMMA KnoIngest ==
  ASSUME KnoInv, NEW v \in Knowledge!Versions, Knowledge!Ingest(v)
  PROVE  KnoInv'
<1> USE DEF KnoInv
<1>1. /\ kStatus[v] = "NONE" /\ kStatus' = [kStatus EXCEPT ![v] = "READY"]
      /\ UNCHANGED <<kWithdrawn, kCalm, kJob>>
  BY DEF Knowledge!Ingest
<1>2. \A w \in Knowledge!Versions : kStatus'[w] = IF w = v THEN "READY" ELSE kStatus[w]
  BY <1>1, KnoTypes
<1>3. Knowledge!TypeOK' BY <1>1, KnoTypes DEF Knowledge!TypeOK, Knowledge!Status
<1>4. KnoJobs' BY <1>1 DEF KnoJobs, KnoReplaces
<1>5. KnoCalm'
  <2> SUFFICES ASSUME kCalm PROVE KnoCalm' BY <1>1 DEF KnoCalm
  <2>1. KnoOne' BY <1>2 DEF KnoCalm, KnoOne
  <2>2. ASSUME NEW j \in Requests, kJob[j].op # "idle" PROVE KnoAlone(kJob[j])'
    <3>1. KnoAlone(kJob[j]) BY DEF KnoCalm
    <3> QED BY <1>1, <1>2, <2>2, <3>1 DEF KnoAlone, KnoAfter
  <2>3. \A j \in Requests : KnoAlone(kJob[j])' BY <1>1, <2>2 DEF KnoAlone
  <2> QED BY <1>1, <2>1, <2>3 DEF KnoCalm
<1> QED BY <1>3, <1>4, <1>5

(* A commit replaces or withdraws, and brings back nothing retired.        *)
LEMMA KnoCommit ==
  ASSUME KnoInv, NEW j \in Requests, Knowledge!Commit(j)
  PROVE  /\ KnoInv'
         /\ \/ kWithdrawn' = TRUE
            \/ \E v \in Knowledge!Versions : kStatus'[v] = "PUBLISHED"
         /\ kCalm => \A v \in Knowledge!Versions : kStatus[v] = "RETIRED" => kStatus'[v] = "RETIRED"
<1> USE DEF KnoInv
<1>0. PICK x : x = kJob[j] OBVIOUS
<1>1. /\ x.op # "idle" /\ kStatus' = Knowledge!Applied(kStatus, x.plan)
      /\ kWithdrawn' = (kWithdrawn \/ x.op = "withdraw")
      /\ kJob' = [kJob EXCEPT ![j] = Knowledge!NoJob] /\ UNCHANGED kCalm
  BY <1>0 DEF Knowledge!Commit
<1>2. x \in KnoRecord BY <1>0, KnoTypes
<1>3. kStatus' = [v \in Knowledge!Versions |-> KnoAfter(x, v)]
  BY <1>1, KnoTypes DEF Knowledge!Applied, KnoAfter
<1>4. \A k \in Requests : kJob'[k] = IF k = j THEN Knowledge!NoJob ELSE kJob[k] BY <1>1, KnoTypes
<1>5. Knowledge!TypeOK'
  <2>1. \A v \in Knowledge!Versions : KnoAfter(x, v) \in Knowledge!Status
    BY <1>2, KnoTypes DEF KnoAfter, KnoRecord
  <2>2. kStatus' \in [Knowledge!Versions -> Knowledge!Status] BY <1>3, <2>1
  <2>3. kJob' \in [Requests -> KnoRecord] BY <1>1, KnoNoJob, KnoTypes
  <2> QED BY <1>1, <2>2, <2>3, KnoTypes DEF Knowledge!TypeOK, KnoRecord
<1>6. KnoJobs'
  <2> SUFFICES ASSUME NEW k \in Requests PROVE KnoReplaces(kJob[k])' BY DEF KnoJobs
  <2> QED BY <1>4, KnoNoJob DEF KnoJobs, KnoReplaces
<1>7. kCalm => KnoAlone(x) /\ \A k \in Requests : k # j => kJob[k].op = "idle"
  BY <1>0, <1>1 DEF KnoCalm
<1>8. KnoCalm'
  <2> SUFFICES ASSUME kCalm PROVE KnoCalm' BY <1>1 DEF KnoCalm
  <2>1. \A k \in Requests : kJob'[k].op = "idle" BY <1>4, <1>7, KnoNoJob
  <2>2. KnoOne' BY <1>1, <1>3, <1>7 DEF KnoOne, KnoAlone
  <2> QED BY <2>1, <2>2 DEF KnoCalm, KnoAlone
<1>9. kWithdrawn' = TRUE \/ \E v \in Knowledge!Versions : kStatus'[v] = "PUBLISHED"
  <2>1. CASE x.op = "withdraw" BY <1>1, <2>1
  <2>2. CASE x.op # "withdraw"
    <3>1. PICK v \in Knowledge!Versions : x.plan[v] = "PUBLISHED"
      BY <1>0, <1>1, <1>2, <2>2 DEF KnoJobs, KnoReplaces, KnoRecord
    <3> QED BY <1>3, <3>1 DEF KnoAfter
  <2> QED BY <2>1, <2>2
<1>10. kCalm => \A v \in Knowledge!Versions : kStatus[v] = "RETIRED" => kStatus'[v] = "RETIRED"
  BY <1>1, <1>3, <1>7 DEF KnoAlone, KnoAfter
<1> QED BY <1>5, <1>6, <1>8, <1>9, <1>10

LEMMA KnoAbandon ==
  ASSUME KnoInv, NEW j \in Requests, Knowledge!Abandon(j)
  PROVE  KnoInv'
<1> USE DEF KnoInv
<1>1. kJob' = [kJob EXCEPT ![j] = Knowledge!NoJob] /\ UNCHANGED <<kStatus, kWithdrawn, kCalm>>
  BY DEF Knowledge!Abandon
<1>2. \A k \in Requests : kJob'[k] = IF k = j THEN Knowledge!NoJob ELSE kJob[k] BY <1>1, KnoTypes
<1>3. Knowledge!TypeOK' BY <1>1, KnoNoJob, KnoTypes DEF Knowledge!TypeOK, KnoRecord
<1>4. KnoJobs' BY <1>2, KnoNoJob DEF KnoJobs, KnoReplaces
<1>5. KnoCalm' BY <1>1, <1>2, KnoNoJob DEF KnoCalm, KnoOne, KnoAlone, KnoAfter
<1> QED BY <1>3, <1>4, <1>5

LEMMA KnoStep == KnoInv /\ [Knowledge!Next]_(Knowledge!vars) => KnoInv'
<1> SUFFICES ASSUME KnoInv, [Knowledge!Next]_(Knowledge!vars) PROVE KnoInv' OBVIOUS
<1>1. CASE UNCHANGED Knowledge!vars
  BY <1>1 DEF KnoInv, Knowledge!vars, Knowledge!TypeOK, KnoJobs, KnoReplaces, KnoCalm, KnoOne, KnoAlone, KnoAfter
<1> QED BY <1>1, KnoHandlers, KnoIngest, KnoCommit, KnoAbandon DEF Knowledge!Next, Knowledge!Handle

LEMMA KnoSafe == KnoInv => Knowledge!TypeOK /\ Knowledge!CalmOnePublished
<1> SUFFICES ASSUME KnoInv, kCalm PROVE Knowledge!Cardinality(Knowledge!Published) <= 1
  BY DEF KnoInv, Knowledge!CalmOnePublished
<1>1. \A v, w \in Knowledge!Published : v = w BY DEF Knowledge!Published, KnoInv, KnoCalm, KnoOne
<1>2. Cardinality(Knowledge!Published) <= 1 BY <1>1, AtMostOne
<1>3. Knowledge!Cardinality(Knowledge!Published) = Cardinality(Knowledge!Published)
  BY Zenon DEF Knowledge!Cardinality, Cardinality
<1> QED BY <1>2, <1>3

(* A step that changes a status is an ingestion or a commit.               *)
LEMMA KnoChanges ==
  ASSUME KnoInv, [Knowledge!Next]_(Knowledge!vars), ~UNCHANGED kStatus
  PROVE  \/ \E v \in Knowledge!Versions :
              kStatus[v] = "NONE" /\ \A w \in Knowledge!Versions \ {v} : kStatus'[w] = kStatus[w]
         \/ \E j \in Requests : Knowledge!Commit(j)
<1>1. ASSUME NEW v \in Knowledge!Versions, Knowledge!Ingest(v)
      PROVE  kStatus[v] = "NONE" /\ \A w \in Knowledge!Versions \ {v} : kStatus'[w] = kStatus[w]
  BY <1>1, KnoTypes DEF Knowledge!Ingest
<1> QED
  BY <1>1 DEF Knowledge!Next, Knowledge!vars, Knowledge!Handle, Knowledge!Publish, Knowledge!Retire,
     Knowledge!SoftDelete, Knowledge!Rollback, Knowledge!Plan, Knowledge!Abandon

(* A document stays published until it is withdrawn ...                    *)
LEMMA KnoStays ==
  ASSUME KnoInv, [Knowledge!Next]_(Knowledge!vars), Knowledge!Published # {}, Knowledge!Published' = {}
  PROVE  kWithdrawn'
<1>1. PICK p \in Knowledge!Versions : kStatus[p] = "PUBLISHED" BY DEF Knowledge!Published
<1>2. \A v \in Knowledge!Versions : kStatus'[v] # "PUBLISHED" BY DEF Knowledge!Published
<1>3. ~UNCHANGED kStatus BY <1>1, <1>2
<1>4. PICK j \in Requests : Knowledge!Commit(j) BY <1>1, <1>2, <1>3, KnoChanges
<1> QED BY <1>2, <1>4, KnoCommit

(* ... and without overlaps a retired version never comes back.            *)
LEMMA KnoFinal ==
  ASSUME KnoInv, [Knowledge!Next]_(Knowledge!vars), NEW v \in Knowledge!Versions, kCalm, kStatus[v] = "RETIRED"
  PROVE  kStatus'[v] = "RETIRED"
<1>1. CASE UNCHANGED kStatus BY <1>1
<1>2. CASE ~UNCHANGED kStatus BY <1>2, KnoChanges, KnoCommit
<1> QED BY <1>1, <1>2

LEMMA KnoMoves == [MCNext]_allVars => [Knowledge!Next]_(Knowledge!vars)
<1> SUFFICES ASSUME MCNext PROVE [Knowledge!Next]_(Knowledge!vars)
  BY DEF allVars, KnowledgeVars, Knowledge!vars
<1>1. CASE focus = "knowledge" BY <1>1 DEF MCNext
<1>2. CASE focus # "knowledge" BY <1>2 DEF MCNext, Keep, KnowledgeVars, Knowledge!vars
<1> QED BY <1>1, <1>2

----------------------------------------------------------------------------
(* Alerts.  The timeline begins with the alert, and no request plans to    *)
(* bring the alert back to no status; a request that is alone plans times  *)
(* that fit the status it plans.                                           *)

AleOps == {"assign", "acknowledge", "in_progress", "resolve", "verify", "close", "reopen"}

AleRecord ==
  [op : {"idle", "generate", "comment"} \cup AleOps, from : Alerts!Status,
   to : Alerts!Status \cup {"KEEP"}, set : SUBSET Alerts!Times, clear : SUBSET Alerts!Times]

AleRequest(x) ==
  /\ x.to # "NONE"
  /\ x.op # "idle" => MaxTimeline > 0
  /\ x.op = "generate" => x.to = "OPEN" /\ x.set = {} /\ x.clear = {}
  /\ x.op \notin {"idle", "generate"} => x.from # "NONE" /\ aStatus # "NONE"

AleJobs == \A j \in Requests : AleRequest(aJob[j])

AleBorn == aTimeline = <<>> <=> aStatus = "NONE"

AleFit(s, t) ==
  /\ s = "CLOSED" <=> "closed" \in t
  /\ s \in {"VERIFIED", "CLOSED"} <=> "verified" \in t
  /\ s \in {"RESOLVED", "VERIFIED", "CLOSED"} <=> "resolved" \in t

(* The status and the times once the request x has been committed.         *)
AleStatus(x) == IF x.to = "KEEP" THEN aStatus ELSE x.to
AleTimes(x) == (aTimes \ x.clear) \cup x.set

AleAlone(x) == x.op # "idle" => x.from = aStatus /\ AleFit(AleStatus(x), AleTimes(x))

AleCalm ==
  aCalm =>
    /\ AleFit(aStatus, aTimes)
    /\ \A i, j \in Requests : aJob[i].op # "idle" /\ aJob[j].op # "idle" => i = j
    /\ \A j \in Requests : AleAlone(aJob[j])

AleInv ==
  /\ Alerts!TypeOK /\ AleJobs /\ AleBorn /\ AleCalm
  /\ Alerts!CalmTimelineIsChain /\ Alerts!GeneratedOnce

LEMMA AleOperations == DOMAIN Alerts!TRANSITIONS = AleOps
BY DEF Alerts!TRANSITIONS, AleOps

LEMMA AleTypes ==
  ASSUME AleInv
  PROVE  /\ aStatus \in Alerts!Status /\ aTimes \subseteq Alerts!Times /\ aCalm \in BOOLEAN
         /\ aAttempts \in UNION {[1 .. n -> {"ACKNOWLEDGED", "FAILED"}] : n \in 0 .. 2}
         /\ aTimeline \in Seq([before : Alerts!Status, after : Alerts!Status])
         /\ Len(aTimeline) \in Nat /\ Len(aTimeline) <= MaxTimeline
         /\ aJob \in [Requests -> AleRecord]
BY AleOperations DEF AleInv, Alerts!TypeOK, AleRecord

LEMMA AleNoJob ==
  /\ Alerts!NoJob \in AleRecord /\ Alerts!NoJob.op = "idle" /\ Alerts!NoJob.to # "NONE"
BY DEF Alerts!NoJob, AleRecord, Alerts!Status

LEMMA AleInit == Alerts!Init => AleInv
<1> SUFFICES ASSUME Alerts!Init PROVE AleInv OBVIOUS
<1>1. /\ aStatus = "NONE" /\ aTimes = {} /\ aAttempts = <<>> /\ aTimeline = <<>> /\ aCalm = TRUE
      /\ aJob = [j \in Requests |-> Alerts!NoJob]
  BY DEF Alerts!Init
<1>2. Alerts!TypeOK
  <2>1. aAttempts \in [1 .. 0 -> {"ACKNOWLEDGED", "FAILED"}] /\ 0 \in 0 .. 2 BY <1>1
  <2>2. Len(aTimeline) = 0 BY <1>1
  <2>3. aTimeline \in Seq([before : Alerts!Status, after : Alerts!Status]) BY <1>1
  <2>4. aJob \in [Requests -> AleRecord] BY <1>1, AleNoJob
  <2>5. aAttempts \in UNION {[1 .. n -> {"ACKNOWLEDGED", "FAILED"}] : n \in 0 .. 2} BY <2>1
  <2> QED BY <1>1, <2>2, <2>3, <2>4, <2>5, AleOperations, BusinessAssumption
      DEF Alerts!TypeOK, AleRecord, Alerts!Status
<1>3. AleJobs BY <1>1, AleNoJob DEF AleJobs, AleRequest
<1>4. AleBorn BY <1>1 DEF AleBorn
<1>5. AleCalm BY <1>1, AleNoJob DEF AleCalm, AleFit, AleAlone
<1>6. Alerts!CalmTimelineIsChain BY <1>1 DEF Alerts!CalmTimelineIsChain
<1>7. Alerts!GeneratedOnce
  <2>1. Len(aTimeline) = 0 BY <1>1
  <2>2. 1 .. Len(aTimeline) = {} BY <2>1
  <2> QED BY <2>2 DEF Alerts!GeneratedOnce
<1> QED BY <1>2, <1>3, <1>4, <1>5, <1>6, <1>7 DEF AleInv

LEMMA AlePlan ==
  ASSUME AleInv, NEW j \in Requests, NEW op \in {"generate", "comment"} \cup AleOps,
         NEW to \in Alerts!Status \ {"NONE"}, NEW set \in SUBSET Alerts!Times,
         NEW clear \in SUBSET Alerts!Times, Alerts!Plan(j, op, to, set, clear),
         op = "generate" => aStatus = "NONE" /\ to = "OPEN" /\ set = {} /\ clear = {},
         op # "generate" => aStatus # "NONE",
         aCalm => AleFit(to, (aTimes \ clear) \cup set)
  PROVE  AleInv'
<1> USE DEF AleInv
<1>0. PICK x : x = [op |-> op, from |-> aStatus, set |-> set, clear |-> clear,
                    to |-> IF to = aStatus THEN "KEEP" ELSE to]
  OBVIOUS
<1>1. /\ aJob' = [aJob EXCEPT ![j] = x] /\ Len(aTimeline) < MaxTimeline
      /\ UNCHANGED <<aStatus, aTimes, aAttempts, aTimeline>>
      /\ aCalm' = (aCalm /\ \A k \in Requests : k # j => aJob[k].op = "idle")
  BY <1>0 DEF Alerts!Plan
<1>2. /\ x \in AleRecord /\ x.op = op /\ x.from = aStatus /\ x.set = set /\ x.clear = clear
      /\ x.to = IF to = aStatus THEN "KEEP" ELSE to
  BY <1>0, AleTypes DEF AleRecord
<1>3. \A k \in Requests : aJob'[k] = IF k = j THEN x ELSE aJob[k] BY <1>1, AleTypes
<1>4. Alerts!TypeOK'
  <2>1. aJob' \in [Requests -> AleRecord] BY <1>1, <1>2, AleTypes
  <2>2. aCalm' \in BOOLEAN BY <1>1
  <2> QED BY <1>1, <2>1, <2>2, AleTypes, AleOperations DEF Alerts!TypeOK, AleRecord
<1>5. AleJobs'
  <2>1. AleRequest(x) BY <1>1, <1>2, AleTypes, BusinessAssumption DEF AleRequest, Alerts!Status
  <2> SUFFICES ASSUME NEW k \in Requests PROVE AleRequest(aJob[k])' BY DEF AleJobs
  <2>2. AleRequest(aJob[k]) BY DEF AleJobs
  <2> QED BY <1>1, <1>3, <2>1, <2>2 DEF AleRequest
<1>6. AleCalm'
  <2> SUFFICES ASSUME aCalm' PROVE AleCalm' BY DEF AleCalm
  <2>1. aCalm /\ \A k \in Requests : k # j => aJob[k].op = "idle" BY <1>1, AleTypes
  <2>2. AleStatus(x) = to /\ AleTimes(x) = (aTimes \ clear) \cup set
    BY <1>2, AleTypes DEF AleStatus, AleTimes, Alerts!Status
  <2>3. AleAlone(x) BY <1>2, <2>1, <2>2 DEF AleAlone
  <2>4. \A k \in Requests : aJob'[k].op # "idle" => k = j BY <1>3, <2>1
  <2>5. AleFit(aStatus, aTimes)' BY <1>1, <2>1 DEF AleCalm, AleFit
  <2>6. ASSUME NEW k \in Requests PROVE AleAlone(aJob[k])'
    <3>1. CASE k = j
      <4>1. aJob'[k] = x BY <1>3, <3>1
      <4> QED BY <1>1, <2>3, <4>1 DEF AleAlone, AleStatus, AleTimes, AleFit
    <3>2. CASE k # j BY <2>4, <3>2 DEF AleAlone
    <3> QED BY <3>1, <3>2
  <2> QED BY <2>4, <2>5, <2>6 DEF AleCalm
<1>7. AleBorn' BY <1>1 DEF AleBorn
<1>8. Alerts!CalmTimelineIsChain' BY <1>1 DEF Alerts!CalmTimelineIsChain
<1>9. Alerts!GeneratedOnce' BY <1>1 DEF Alerts!GeneratedOnce
<1> QED BY <1>4, <1>5, <1>6, <1>7, <1>8, <1>9

(* A transition plans times that fit the status it plans.                  *)
LEMMA AleStamps ==
  ASSUME NEW op \in AleOps, NEW s \in Alerts!TRANSITIONS[op].from, NEW t \in SUBSET Alerts!Times
  PROVE  /\ s \in Alerts!Status \ {"NONE"} /\ Alerts!TRANSITIONS[op].to \in Alerts!Status \ {"NONE"}
         /\ Alerts!Stamps(op).set \in SUBSET Alerts!Times
         /\ Alerts!Stamps(op).clear \cap t \in SUBSET Alerts!Times
         /\ AleFit(s, t) => AleFit(Alerts!TRANSITIONS[op].to,
                                   (t \ (Alerts!Stamps(op).clear \cap t)) \cup Alerts!Stamps(op).set)
<1> USE DEF Alerts!TRANSITIONS, Alerts!Stamps, Alerts!Status, Alerts!Times, AleFit
<1>1. CASE op = "assign" BY <1>1
<1>2. CASE op = "acknowledge" BY <1>2
<1>3. CASE op = "in_progress" BY <1>3
<1>4. CASE op = "resolve" BY <1>4
<1>5. CASE op = "verify" BY <1>5
<1>6. CASE op = "close" BY <1>6
<1>7. CASE op = "reopen" BY <1>7
<1> QED BY <1>1, <1>2, <1>3, <1>4, <1>5, <1>6, <1>7 DEF AleOps

LEMMA AleHandlers ==
  ASSUME AleInv, NEW j \in Requests,
         \/ Alerts!Generate(j) \/ Alerts!Comment(j)
         \/ \E op \in DOMAIN Alerts!TRANSITIONS : Alerts!Transition(j, op)
  PROVE  AleInv'
<1>0. aCalm => AleFit(aStatus, aTimes) BY DEF AleInv, AleCalm
<1>1. CASE Alerts!Generate(j)
  <2>1. aStatus = "NONE" /\ Alerts!Plan(j, "generate", "OPEN", {}, {}) BY <1>1 DEF Alerts!Generate
  <2>2. aCalm => AleFit("OPEN", (aTimes \ {}) \cup {}) BY <1>0, <2>1 DEF AleFit
  <2>3. {} \in SUBSET Alerts!Times /\ "OPEN" \in Alerts!Status \ {"NONE"} BY DEF Alerts!Status
  <2> QED BY <2>1, <2>2, <2>3, AlePlan
<1>2. CASE Alerts!Comment(j)
  <2>1. aStatus # "NONE" /\ Alerts!Plan(j, "comment", aStatus, {}, {}) BY <1>2 DEF Alerts!Comment
  <2>2. aCalm => AleFit(aStatus, (aTimes \ {}) \cup {}) BY <1>0 DEF AleFit
  <2>3. {} \in SUBSET Alerts!Times /\ aStatus \in Alerts!Status \ {"NONE"} BY <2>1, AleTypes
  <2> QED BY <2>1, <2>2, <2>3, AlePlan
<1>3. ASSUME NEW op \in AleOps, Alerts!Transition(j, op) PROVE AleInv'
  <2>1. /\ aStatus \in Alerts!TRANSITIONS[op].from
        /\ Alerts!Plan(j, op, Alerts!TRANSITIONS[op].to, Alerts!Stamps(op).set,
                       Alerts!Stamps(op).clear \cap aTimes)
    BY <1>3 DEF Alerts!Transition
  <2>2. aTimes \in SUBSET Alerts!Times BY AleTypes
  <2>3. /\ aStatus # "NONE" /\ Alerts!TRANSITIONS[op].to \in Alerts!Status \ {"NONE"}
        /\ Alerts!Stamps(op).set \in SUBSET Alerts!Times
        /\ Alerts!Stamps(op).clear \cap aTimes \in SUBSET Alerts!Times
        /\ aCalm => AleFit(Alerts!TRANSITIONS[op].to,
                           (aTimes \ (Alerts!Stamps(op).clear \cap aTimes)) \cup Alerts!Stamps(op).set)
    BY <1>0, <2>1, <2>2, AleStamps
  <2>4. op # "generate" BY DEF AleOps
  <2> QED BY <2>1, <2>3, <2>4, AlePlan
<1> QED BY <1>1, <1>2, <1>3, AleOperations

(* An event is added at the end of the timeline.                           *)
LEMMA AleAppend ==
  ASSUME AleInv, NEW e \in [before : Alerts!Status, after : Alerts!Status],
         aTimeline' = Append(aTimeline, e), aStatus' # "NONE",
         e.before = "NONE" <=> aStatus = "NONE",
         aCalm' => e.before = aStatus /\ e.after = aStatus',
         aCalm' => aCalm
  PROVE  /\ aTimeline' \in Seq([before : Alerts!Status, after : Alerts!Status])
         /\ Len(aTimeline') = Len(aTimeline) + 1
         /\ AleBorn' /\ Alerts!CalmTimelineIsChain' /\ Alerts!GeneratedOnce'
<1> USE DEF AleInv
<1>1. PICK n \in Nat : n = Len(aTimeline) BY AleTypes
<1>2. /\ aTimeline' \in Seq([before : Alerts!Status, after : Alerts!Status])
      /\ Len(aTimeline') = n + 1 /\ aTimeline'[n + 1] = e
      /\ \A i \in 1 .. n : aTimeline'[i] = aTimeline[i]
  BY <1>1, AleTypes
<1>3. n = 0 <=> aStatus = "NONE" BY <1>1, AleTypes DEF AleBorn
<1>4. AleBorn'
  <2>1. aTimeline' # <<>> BY <1>2
  <2> QED BY <2>1 DEF AleBorn
<1>5. Alerts!GeneratedOnce'
  <2> SUFFICES ASSUME NEW i \in 1 .. n + 1 PROVE aTimeline'[i].before = "NONE" <=> i = 1
    BY <1>2 DEF Alerts!GeneratedOnce
  <2>1. CASE i \in 1 .. n
    <3>1. \A k \in 1 .. n : aTimeline[k].before = "NONE" <=> k = 1
      BY <1>1 DEF Alerts!GeneratedOnce
    <3>2. aTimeline'[i] = aTimeline[i] BY <1>2, <2>1
    <3> QED BY <2>1, <3>1, <3>2
  <2>2. CASE i = n + 1
    <3>1. aTimeline'[i] = e BY <1>2, <2>2
    <3>2. i = 1 <=> n = 0 BY <2>2
    <3>3. e.before = "NONE" <=> aStatus = "NONE" OBVIOUS
    <3> QED BY <1>3, <3>1, <3>2, <3>3
  <2>3. i \in 1 .. n \/ i = n + 1 BY <1>1
  <2> QED BY <2>1, <2>2, <2>3
<1>6. Alerts!CalmTimelineIsChain'
  <2> SUFFICES ASSUME aCalm'
               PROVE  /\ aTimeline'[1].before = "NONE" /\ aTimeline'[n + 1].after = aStatus'
                      /\ \A i \in 1 .. n : aTimeline'[i + 1].before = aTimeline'[i].after
    BY <1>2 DEF Alerts!CalmTimelineIsChain
  <2>1. aTimeline'[1].before = "NONE" BY <1>2, <1>5 DEF Alerts!GeneratedOnce
  <2>2. aTimeline'[n + 1].after = aStatus' BY <1>2
  <2>3. ASSUME NEW i \in 1 .. n PROVE aTimeline'[i + 1].before = aTimeline'[i].after
    <3>1. aTimeline # <<>> BY <1>1
    <3>2. /\ aTimeline[n].after = aStatus
          /\ \A k \in 1 .. n - 1 : aTimeline[k + 1].before = aTimeline[k].after
      BY <1>1, <3>1 DEF Alerts!CalmTimelineIsChain
    <3>3. CASE i = n BY <1>2, <3>2, <3>3
    <3>4. CASE i # n
      <4>1. i \in 1 .. n - 1 /\ i + 1 \in 1 .. n BY <3>4
      <4> QED BY <1>2, <3>2, <4>1
    <3> QED BY <3>3, <3>4
  <2> QED BY <2>1, <2>2, <2>3
<1> QED BY <1>1, <1>2, <1>4, <1>5, <1>6

(* A request ends, committed or not.                                       *)
LEMMA AleEnds ==
  ASSUME AleInv, NEW j \in Requests, aJob[j].op # "idle", aJob' = [aJob EXCEPT ![j] = Alerts!NoJob],
         aCalm' = aCalm, aStatus # "NONE" => aStatus' # "NONE",
         aCalm => AleFit(aStatus', aTimes')
  PROVE  aJob' \in [Requests -> AleRecord] /\ AleJobs' /\ AleCalm'
<1> USE DEF AleInv
<1>1. \A k \in Requests : aJob'[k] = IF k = j THEN Alerts!NoJob ELSE aJob[k] BY AleTypes
<1>2. aJob' \in [Requests -> AleRecord] BY AleNoJob, AleTypes
<1>3. AleJobs' BY <1>1, AleNoJob DEF AleJobs, AleRequest
<1>4. AleCalm'
  <2> SUFFICES ASSUME aCalm PROVE AleCalm' BY DEF AleCalm
  <2>1. \A k \in Requests : aJob'[k].op = "idle" BY <1>1, AleNoJob DEF AleCalm
  <2>2. AleFit(aStatus, aTimes)' BY DEF AleFit
  <2> QED BY <2>1, <2>2 DEF AleCalm, AleAlone
<1> QED BY <1>2, <1>3, <1>4

LEMMA AleGenerated ==
  ASSUME AleInv, NEW j \in Requests, NEW outcomes \in Alerts!Deliveries,
         Alerts!CommitGenerate(j, outcomes)
  PROVE  AleInv'
<1>0. PICK x : x = aJob[j] OBVIOUS
<1>1. /\ x.op = "generate" /\ aStatus = "NONE" /\ aStatus' = "OPEN" /\ aAttempts' = outcomes
      /\ aTimeline' = Append(aTimeline, [before |-> "NONE", after |-> "OPEN"])
      /\ aJob' = [aJob EXCEPT ![j] = Alerts!NoJob] /\ aTimes' = aTimes /\ aCalm' = aCalm
  BY <1>0 DEF Alerts!CommitGenerate
<1>a. PICK e : e = [before |-> "NONE", after |-> "OPEN"] OBVIOUS
<1>2. e \in [before : Alerts!Status, after : Alerts!Status] /\ e.before = "NONE" /\ e.after = "OPEN"
  BY <1>a DEF Alerts!Status
<1>3. /\ aTimeline' \in Seq([before : Alerts!Status, after : Alerts!Status])
      /\ Len(aTimeline') = Len(aTimeline) + 1
      /\ AleBorn' /\ Alerts!CalmTimelineIsChain' /\ Alerts!GeneratedOnce'
  BY <1>1, <1>a, <1>2, AleAppend
<1>4. aCalm => AleFit("OPEN", aTimes)
  BY <1>1 DEF AleInv, AleCalm, AleFit
<1>5. aJob' \in [Requests -> AleRecord] /\ AleJobs' /\ AleCalm'
  BY <1>0, <1>1, <1>4, AleEnds
<1>6. outcomes \in UNION {[1 .. n -> {"ACKNOWLEDGED", "FAILED"}] : n \in 0 .. 2}
  <2>1. outcomes \in [1 .. 1 -> {"ACKNOWLEDGED", "FAILED"}] \cup [1 .. 2 -> {"ACKNOWLEDGED", "FAILED"}]
    BY DEF Alerts!Deliveries
  <2>2. 1 \in 0 .. 2 /\ 2 \in 0 .. 2 OBVIOUS
  <2> QED BY <2>1, <2>2
<1>7. Len(aTimeline) = 0 BY <1>1 DEF AleInv, AleBorn
<1>8. MaxTimeline > 0 BY <1>0, <1>1 DEF AleInv, AleJobs, AleRequest
<1>9. Alerts!TypeOK'
  BY <1>1, <1>3, <1>5, <1>6, <1>7, <1>8, AleTypes, AleOperations, BusinessAssumption
  DEF Alerts!TypeOK, AleRecord, Alerts!Status
<1> QED BY <1>3, <1>5, <1>9 DEF AleInv

LEMMA AleCommit ==
  ASSUME AleInv, NEW j \in Requests, Alerts!Commit(j)
  PROVE  AleInv'
<1>0. PICK x : x = aJob[j] OBVIOUS
<1>1. /\ x.op \notin {"idle", "generate"} /\ Len(aTimeline) < MaxTimeline
      /\ aStatus' = AleStatus(x) /\ aTimes' = AleTimes(x)
      /\ aTimeline' = Append(aTimeline, [before |-> x.from, after |-> IF x.to = "KEEP" THEN x.from ELSE x.to])
      /\ aJob' = [aJob EXCEPT ![j] = Alerts!NoJob] /\ aAttempts' = aAttempts /\ aCalm' = aCalm
  BY <1>0 DEF Alerts!Commit, AleStatus, AleTimes
<1>2. x \in AleRecord BY <1>0, AleTypes
<1>3. x.to # "NONE" /\ x.from # "NONE" /\ aStatus # "NONE"
  BY <1>0, <1>1 DEF AleInv, AleJobs, AleRequest
<1>a. PICK e : e = [before |-> x.from, after |-> IF x.to = "KEEP" THEN x.from ELSE x.to] OBVIOUS
<1>4. /\ e \in [before : Alerts!Status, after : Alerts!Status]
      /\ e.before = x.from /\ e.after = IF x.to = "KEEP" THEN x.from ELSE x.to
  BY <1>a, <1>2 DEF AleRecord
<1>5. aCalm => AleAlone(x) BY <1>0 DEF AleInv, AleCalm
<1>6. AleStatus(x) \in Alerts!Status \ {"NONE"} /\ AleTimes(x) \subseteq Alerts!Times
  BY <1>2, <1>3, AleTypes DEF AleStatus, AleTimes, AleRecord
<1>7. aCalm => e.before = aStatus /\ e.after = AleStatus(x)
  BY <1>1, <1>4, <1>5 DEF AleAlone, AleStatus
<1>8. /\ aTimeline' \in Seq([before : Alerts!Status, after : Alerts!Status])
      /\ Len(aTimeline') = Len(aTimeline) + 1
      /\ AleBorn' /\ Alerts!CalmTimelineIsChain' /\ Alerts!GeneratedOnce'
  BY <1>1, <1>3, <1>a, <1>4, <1>6, <1>7, AleAppend
<1>9. aJob' \in [Requests -> AleRecord] /\ AleJobs' /\ AleCalm'
  <2>1. aCalm => AleFit(aStatus', aTimes') BY <1>1, <1>5 DEF AleAlone
  <2> QED BY <1>0, <1>1, <1>6, <2>1, AleEnds
<1>10. Alerts!TypeOK'
  BY <1>1, <1>6, <1>8, <1>9, AleTypes, AleOperations, BusinessAssumption DEF Alerts!TypeOK, AleRecord
<1> QED BY <1>8, <1>9, <1>10 DEF AleInv

LEMMA AleAbandon ==
  ASSUME AleInv, NEW j \in Requests, Alerts!Abandon(j)
  PROVE  AleInv'
<1>1. /\ aJob[j].op # "idle" /\ aJob' = [aJob EXCEPT ![j] = Alerts!NoJob]
      /\ UNCHANGED <<aStatus, aTimes, aAttempts, aTimeline, aCalm>>
  BY DEF Alerts!Abandon
<1>2. aJob' \in [Requests -> AleRecord] /\ AleJobs' /\ AleCalm'
  <2>1. aCalm => AleFit(aStatus', aTimes') BY <1>1 DEF AleInv, AleCalm
  <2> QED BY <1>1, <2>1, AleEnds
<1>3. Alerts!TypeOK' BY <1>1, <1>2, AleTypes, AleOperations DEF Alerts!TypeOK, AleRecord
<1> QED BY <1>1, <1>2, <1>3
    DEF AleInv, AleBorn, Alerts!CalmTimelineIsChain, Alerts!GeneratedOnce

LEMMA AleStep == AleInv /\ [Alerts!Next]_(Alerts!vars) => AleInv'
<1> SUFFICES ASSUME AleInv, [Alerts!Next]_(Alerts!vars) PROVE AleInv' OBVIOUS
<1>1. CASE UNCHANGED Alerts!vars
  BY <1>1 DEF AleInv, Alerts!vars, Alerts!TypeOK, AleJobs, AleRequest, AleBorn, AleCalm, AleFit,
     AleAlone, AleStatus, AleTimes, Alerts!CalmTimelineIsChain, Alerts!GeneratedOnce
<1> QED BY <1>1, AleHandlers, AleGenerated, AleCommit, AleAbandon DEF Alerts!Next, Alerts!Handle

LEMMA AleSafe == AleInv => Alerts!AlertSafe
BY DEF AleInv, AleCalm, AleFit, Alerts!AlertSafe, Alerts!CalmTimesFitStatus

LEMMA AleMoves == [MCNext]_allVars => [Alerts!Next]_(Alerts!vars)
<1> SUFFICES ASSUME MCNext PROVE [Alerts!Next]_(Alerts!vars)
  BY DEF allVars, AlertsVars, Alerts!vars
<1>1. CASE focus = "alerts" BY <1>1 DEF MCNext
<1>2. CASE focus # "alerts" BY <1>2 DEF MCNext, Keep, AlertsVars, Alerts!vars
<1> QED BY <1>1, <1>2

----------------------------------------------------------------------------
(* Installations.  What is active has its activation on record, and so has *)
(* what an installer has loaded as active.  An installer that is alone     *)
(* holds all the active packages before it disables them, has the only     *)
(* active one from then on, and registers and publishes a semantic version *)
(* that nobody else touches.                                               *)

InsPhases ==
  {"idle", "insert", "validate", "publish", "activate", "query", "lock",
   "data", "create", "release", "semantic", "register", "review", "point"}
InsActivated == {"data", "create", "release", "semantic", "register", "review", "point"}

InsRecord ==
  [at : InsPhases, v : Packages \cup {Install!None}, pkg : Install!PackageStatus,
   dat : Install!DataStatus, sem : Install!SemanticStatus,
   todo : SUBSET Packages, held : SUBSET Packages, cur : SUBSET Packages]

InsJob(x) ==
  /\ x.at # "idle" => x.v \in Packages
  /\ x.at \in {"activate", "query", "lock"} => x.pkg = "PUBLISHED"
  /\ x.dat = "ACTIVE" \/ x.sem = "ACTIVE" => x.v \in iUsed

InsJobs == \A j \in Requests : InsJob(iJob[j])

InsUsed == \A v \in Packages : iData[v] = "ACTIVE" \/ iSemantic[v] = "ACTIVE" => v \in iUsed

InsOnlyActive(v) == \A w \in Packages : iPackage[w] = "ACTIVE" <=> w = v

InsAlone(x) ==
  /\ x.at = "lock" => \A w \in Packages : iPackage[w] = "ACTIVE" => w \in x.todo \cup x.cur
  /\ x.at \in InsActivated => InsOnlyActive(x.v)
  /\ x.at = "register" => iSemantic[x.v] = "ABSENT"
  /\ x.at = "review" => iSemantic[x.v] = "DRAFT" /\ x.sem = "DRAFT"

InsReturned ==
  iLast # Install!None =>
    /\ \A j \in Requests : iJob[j].at = "idle"
    /\ InsOnlyActive(iLast) /\ iPointer = iLast
    /\ iData[iLast] = "ACTIVE" /\ iSemantic[iLast] = "ACTIVE"

InsPointed == iPointer # Install!None => iSemantic[iPointer] = "ACTIVE"

InsOne == \A v, w \in Packages : iPackage[v] = "ACTIVE" /\ iPackage[w] = "ACTIVE" => v = w

InsCalm ==
  iCalm =>
    /\ \A i, j \in Requests : iJob[i].at # "idle" /\ iJob[j].at # "idle" => i = j
    /\ \A j \in Requests : InsAlone(iJob[j])
    /\ InsReturned /\ InsPointed /\ InsOne

(* What is half-way is so by an installer under way.                       *)
InsMoving ==
  iCalm /\ ~iStopped =>
    \A v \in Packages :
      /\ iData[v] \in Install!Pipeline => \E j \in Requests : iJob[j].at = "release" /\ iJob[j].v = v
      /\ iSemantic[v] = "DRAFT" => \E j \in Requests : iJob[j].at = "review" /\ iJob[j].v = v

InsInv ==
  /\ Install!TypeOK /\ InsJobs /\ InsUsed /\ Install!PointedIsReleased
  /\ InsCalm /\ InsMoving

LEMMA InsTypes ==
  ASSUME Install!TypeOK
  PROVE  /\ iPackage \in [Packages -> Install!PackageStatus]
         /\ iData \in [Packages -> Install!DataStatus]
         /\ iSemantic \in [Packages -> Install!SemanticStatus]
         /\ iPointer \in Packages \cup {Install!None} /\ iUsed \subseteq Packages
         /\ iInstalls \in 0 .. MaxInstalls /\ iJob \in [Requests -> InsRecord]
         /\ iLast \in Packages \cup {Install!None} /\ iCalm \in BOOLEAN /\ iStopped \in BOOLEAN
BY DEF Install!TypeOK, InsRecord, InsPhases

LEMMA InsTyped ==
  ASSUME iPackage' \in [Packages -> Install!PackageStatus],
         iData' \in [Packages -> Install!DataStatus],
         iSemantic' \in [Packages -> Install!SemanticStatus],
         iPointer' \in Packages \cup {Install!None}, iUsed' \subseteq Packages,
         iInstalls' \in 0 .. MaxInstalls, iJob' \in [Requests -> InsRecord],
         iLast' \in Packages \cup {Install!None}, iCalm' \in BOOLEAN, iStopped' \in BOOLEAN
  PROVE  Install!TypeOK'
BY DEF Install!TypeOK, InsRecord, InsPhases

LEMMA InsIdle ==
  /\ Install!Idle \in InsRecord /\ Install!Idle.at = "idle"
  /\ Install!Idle.dat = "ABSENT" /\ Install!Idle.sem = "ABSENT"
BY DEF Install!Idle, InsRecord, InsPhases, Install!PackageStatus, Install!DataStatus,
   Install!SemanticStatus

LEMMA InsIdleJob == InsJob(Install!Idle) /\ InsAlone(Install!Idle)
BY InsIdle DEF InsJob, InsAlone, InsActivated

LEMMA InsInit == Install!Init => InsInv
<1> SUFFICES ASSUME Install!Init PROVE InsInv OBVIOUS
<1>1. Install!TypeOK
  <2>1. iJob \in [Requests -> InsRecord] BY InsIdle DEF Install!Init
  <2>2. /\ iPackage \in [Packages -> Install!PackageStatus]
        /\ iData \in [Packages -> Install!DataStatus]
        /\ iSemantic \in [Packages -> Install!SemanticStatus]
    BY DEF Install!Init, Install!PackageStatus, Install!DataStatus, Install!SemanticStatus
  <2>3. iInstalls \in 0 .. MaxInstalls BY BusinessAssumption DEF Install!Init
  <2> QED BY <2>1, <2>2, <2>3 DEF Install!Init, Install!TypeOK, InsRecord, InsPhases
<1>2. \A j \in Requests : iJob[j] = Install!Idle BY DEF Install!Init
<1>3. InsJobs BY <1>2, InsIdleJob DEF InsJobs
<1>4. InsUsed BY DEF Install!Init, InsUsed
<1>5. Install!PointedIsReleased BY DEF Install!Init, Install!PointedIsReleased
<1>6. InsCalm BY <1>2, InsIdle, InsIdleJob DEF Install!Init, InsCalm, InsReturned, InsPointed, InsOne
<1>7. InsMoving BY DEF Install!Init, InsMoving, Install!Pipeline
<1> QED BY <1>1, <1>3, <1>4, <1>5, <1>6, <1>7 DEF InsInv

(* An installer goes on: its step is x, and the rows change as they may.   *)
LEMMA InsGoes ==
  ASSUME InsInv, NEW j \in Requests, NEW x \in InsRecord,
         iJob' = [iJob EXCEPT ![j] = x], iJob[j].at # "idle", x.at # "idle", x.v = iJob[j].v,
         UNCHANGED <<iPointer, iUsed, iInstalls, iLast, iCalm, iStopped>>,
         iPackage' \in [Packages -> Install!PackageStatus],
         iData' \in [Packages -> Install!DataStatus],
         iSemantic' \in [Packages -> Install!SemanticStatus],
         InsJob(x), iCalm => InsAlone(x)' /\ InsOne' /\ InsPointed',
         \A w \in Packages : iData'[w] = "ACTIVE" <=> iData[w] = "ACTIVE",
         \A w \in Packages : iSemantic'[w] = "ACTIVE" => iSemantic[w] = "ACTIVE",
         \A w \in Packages : iSemantic[w] \in Install!Usable => iSemantic'[w] \in Install!Usable,
         iCalm => \A w \in Packages :
           /\ iData'[w] \in Install!Pipeline =>
                (w = x.v /\ x.at = "release") \/
                (iData[w] \in Install!Pipeline /\ (iJob[j].at = "release" => w # x.v))
           /\ iSemantic'[w] = "DRAFT" =>
                (w = x.v /\ x.at = "review") \/
                (iSemantic[w] = "DRAFT" /\ (iJob[j].at = "review" => w # x.v))
  PROVE  InsInv'
<1> USE DEF InsInv
<1>1. \A k \in Requests : iJob'[k] = IF k = j THEN x ELSE iJob[k] BY InsTypes
<1>2. Install!TypeOK'
  <2>1. iJob' \in [Requests -> InsRecord] BY InsTypes
  <2> QED BY <2>1, InsTypes, InsTyped
<1>3. InsJobs'
  <2> SUFFICES ASSUME NEW k \in Requests PROVE InsJob(iJob[k])' BY DEF InsJobs
  <2>1. InsJob(iJob[k]) BY DEF InsJobs
  <2> QED BY <1>1, <2>1 DEF InsJob
<1>4. InsUsed' BY DEF InsUsed
<1>5. Install!PointedIsReleased'
  <2> SUFFICES ASSUME iPointer # Install!None
               PROVE  iData'[iPointer] = "ACTIVE" /\ iPointer \in iUsed /\ iSemantic'[iPointer] \in Install!Usable
    BY DEF Install!PointedIsReleased
  <2>1. /\ iPointer \in Packages /\ iData[iPointer] = "ACTIVE" /\ iPointer \in iUsed
        /\ iSemantic[iPointer] \in Install!Usable
    BY InsTypes DEF Install!PointedIsReleased
  <2> QED BY <2>1
<1>6. InsCalm'
  <2> SUFFICES ASSUME iCalm PROVE InsCalm' BY DEF InsCalm
  <2>1. \A k \in Requests : iJob[k].at # "idle" => k = j BY DEF InsCalm
  <2>2. \A k \in Requests : iJob'[k].at # "idle" => k = j BY <1>1, <2>1
  <2>3. ASSUME NEW k \in Requests PROVE InsAlone(iJob[k])'
    <3>1. CASE k = j
      <4>1. iJob'[k] = x BY <1>1, <3>1
      <4> QED BY <4>1 DEF InsAlone, InsOnlyActive
    <3>2. CASE k # j BY <2>2, <3>2 DEF InsAlone, InsActivated
    <3> QED BY <3>1, <3>2
  <2>4. iLast = Install!None BY DEF InsCalm, InsReturned
  <2>5. InsReturned' BY <2>4 DEF InsReturned
  <2> QED BY <2>2, <2>3, <2>5 DEF InsCalm
<1>7. InsMoving'
  <2> SUFFICES ASSUME iCalm, ~iStopped, NEW w \in Packages
               PROVE  /\ iData'[w] \in Install!Pipeline =>
                           \E k \in Requests : iJob'[k].at = "release" /\ iJob'[k].v = w
                      /\ iSemantic'[w] = "DRAFT" =>
                           \E k \in Requests : iJob'[k].at = "review" /\ iJob'[k].v = w
    BY DEF InsMoving
  <2>1. ASSUME iData'[w] \in Install!Pipeline
        PROVE  \E k \in Requests : iJob'[k].at = "release" /\ iJob'[k].v = w
    <3>1. CASE w = x.v /\ x.at = "release" BY <1>1, <3>1
    <3>2. CASE iData[w] \in Install!Pipeline /\ (iJob[j].at = "release" => w # x.v)
      <4>1. PICK k \in Requests : iJob[k].at = "release" /\ iJob[k].v = w BY <3>2 DEF InsMoving
      <4>2. k # j BY <3>2, <4>1
      <4> QED BY <1>1, <4>1, <4>2
    <3> QED BY <2>1, <3>1, <3>2
  <2>2. ASSUME iSemantic'[w] = "DRAFT"
        PROVE  \E k \in Requests : iJob'[k].at = "review" /\ iJob'[k].v = w
    <3>1. CASE w = x.v /\ x.at = "review" BY <1>1, <3>1
    <3>2. CASE iSemantic[w] = "DRAFT" /\ (iJob[j].at = "review" => w # x.v)
      <4>1. PICK k \in Requests : iJob[k].at = "review" /\ iJob[k].v = w BY <3>2 DEF InsMoving
      <4>2. k # j BY <3>2, <4>1
      <4> QED BY <1>1, <4>1, <4>2
    <3> QED BY <2>2, <3>1, <3>2
  <2> QED BY <2>1, <2>2
<1> QED BY <1>2, <1>3, <1>4, <1>5, <1>6, <1>7

(* What an installer under way has loaded.                                 *)
LEMMA InsAt ==
  ASSUME InsInv, NEW j \in Requests, NEW x, x = iJob[j], x.at # "idle"
  PROVE  /\ x \in InsRecord /\ InsJob(x) /\ x.v \in Packages
         /\ iCalm => InsAlone(x) /\ InsOne /\ InsPointed /\ iLast = Install!None
                     /\ \A k \in Requests : k # j => iJob[k].at = "idle"
BY InsTypes DEF InsInv, InsJobs, InsJob, InsCalm, InsReturned

(* An installer goes on, and no row changes.                               *)
LEMMA InsReads ==
  ASSUME InsInv, NEW j \in Requests, NEW x \in InsRecord,
         iJob' = [iJob EXCEPT ![j] = x], iJob[j].at \notin {"idle", "release", "review"},
         x.at # "idle", x.v = iJob[j].v,
         UNCHANGED <<iPackage, iData, iSemantic, iPointer, iUsed, iInstalls, iLast, iCalm, iStopped>>,
         InsJob(x), iCalm => InsAlone(x)
  PROVE  InsInv'
<1>1. iCalm => InsAlone(x)' /\ InsOne' /\ InsPointed'
  BY DEF InsInv, InsCalm, InsAlone, InsOnlyActive, InsOne, InsPointed
<1>2. /\ iPackage' \in [Packages -> Install!PackageStatus]
      /\ iData' \in [Packages -> Install!DataStatus]
      /\ iSemantic' \in [Packages -> Install!SemanticStatus]
  BY InsTypes DEF InsInv
<1> QED BY <1>1, <1>2, InsGoes

LEMMA InsLockRelease ==
  ASSUME InsInv, NEW j \in Requests, Install!LockRelease(j)
  PROVE  InsInv'
<1>0. PICK y : y = iJob[j] OBVIOUS
<1>1. /\ y.at = "activate"
      /\ iJob' = [iJob EXCEPT ![j].at = "query", ![j].held = {y.v}]
      /\ UNCHANGED <<iPackage, iData, iSemantic, iPointer, iUsed, iInstalls, iLast, iCalm, iStopped>>
  BY <1>0 DEF Install!LockRelease
<1>2. y \in InsRecord /\ InsJob(y) /\ y.v \in Packages BY <1>0, <1>1, InsAt
<1>3. PICK x : x = [y EXCEPT !.at = "query", !.held = {y.v}] OBVIOUS
<1>4. /\ x \in InsRecord /\ x.at = "query" /\ x.v = y.v /\ x.pkg = y.pkg
      /\ x.dat = y.dat /\ x.sem = y.sem
  BY <1>2, <1>3 DEF InsRecord, InsPhases
<1>5. iJob' = [iJob EXCEPT ![j] = x] BY <1>0, <1>1, <1>3, InsTypes DEF InsInv
<1>6. InsJob(x) /\ InsAlone(x) BY <1>1, <1>2, <1>4 DEF InsJob, InsAlone, InsActivated
<1> QED BY <1>0, <1>1, <1>4, <1>5, <1>6, InsReads

LEMMA InsQueryActive ==
  ASSUME InsInv, NEW j \in Requests, Install!QueryActive(j)
  PROVE  InsInv'
<1>0. PICK y : y = iJob[j] OBVIOUS
<1>a. PICK T \in SUBSET Packages : T = {v \in Packages : iPackage[v] = "ACTIVE"} OBVIOUS
<1>1. /\ y.at = "query" /\ iJob' = [iJob EXCEPT ![j].at = "lock", ![j].todo = T]
      /\ UNCHANGED <<iPackage, iData, iSemantic, iPointer, iUsed, iInstalls, iLast, iCalm, iStopped>>
  BY <1>0, <1>a DEF Install!QueryActive
<1>2. y \in InsRecord /\ InsJob(y) BY <1>0, <1>1, InsAt
<1>3. PICK x : x = [y EXCEPT !.at = "lock", !.todo = T] OBVIOUS
<1>4. /\ x \in InsRecord /\ x.at = "lock" /\ x.v = y.v /\ x.pkg = y.pkg /\ x.todo = T
      /\ x.dat = y.dat /\ x.sem = y.sem
  BY <1>2, <1>3 DEF InsRecord, InsPhases
<1>5. iJob' = [iJob EXCEPT ![j] = x] BY <1>0, <1>1, <1>3, InsTypes DEF InsInv
<1>6. InsJob(x) BY <1>1, <1>2, <1>4 DEF InsJob
<1>7. InsAlone(x) BY <1>a, <1>4 DEF InsAlone, InsActivated
<1> QED BY <1>0, <1>1, <1>4, <1>5, <1>6, <1>7, InsReads

LEMMA InsLockActive ==
  ASSUME InsInv, NEW j \in Requests, NEW w \in Packages, Install!LockActive(j, w)
  PROVE  InsInv'
<1>0. PICK y : y = iJob[j] OBVIOUS
<1>a. PICK c : c = {z \in {w} : iPackage[z] = "ACTIVE"} OBVIOUS
<1>1. /\ y.at = "lock" /\ w \in y.todo
      /\ iJob' = [iJob EXCEPT ![j].todo = @ \ {w}, ![j].held = @ \cup {w}, ![j].cur = @ \cup c]
      /\ UNCHANGED <<iPackage, iData, iSemantic, iPointer, iUsed, iInstalls, iLast, iCalm, iStopped>>
  BY <1>0, <1>a DEF Install!LockActive
<1>2. y \in InsRecord /\ InsJob(y) /\ (iCalm => InsAlone(y)) BY <1>0, <1>1, InsAt
<1>3. PICK x : x = [y EXCEPT !.todo = y.todo \ {w}, !.held = y.held \cup {w}, !.cur = y.cur \cup c] OBVIOUS
<1>4. /\ x \in InsRecord /\ x.at = "lock" /\ x.v = y.v /\ x.pkg = y.pkg
      /\ x.dat = y.dat /\ x.sem = y.sem /\ x.todo = y.todo \ {w} /\ x.cur = y.cur \cup c
  BY <1>a, <1>1, <1>2, <1>3 DEF InsRecord, InsPhases
<1>5. iJob' = [iJob EXCEPT ![j] = x] BY <1>0, <1>1, <1>3, InsTypes DEF InsInv
<1>6. InsJob(x) BY <1>1, <1>2, <1>4 DEF InsJob
<1>7. iCalm => InsAlone(x) BY <1>a, <1>1, <1>2, <1>4 DEF InsAlone, InsActivated
<1> QED BY <1>0, <1>1, <1>4, <1>5, <1>6, <1>7, InsReads

LEMMA InsFindData ==
  ASSUME InsInv, NEW j \in Requests, Install!FindData(j)
  PROVE  InsInv'
<1>0. PICK y : y = iJob[j] OBVIOUS
<1>a. PICK s : s = IF iData[y.v] = "ABSENT" THEN "create" ELSE "semantic" OBVIOUS
<1>1. /\ y.at = "data" /\ iJob' = [iJob EXCEPT ![j].dat = iData[y.v], ![j].at = s]
      /\ UNCHANGED <<iPackage, iData, iSemantic, iPointer, iUsed, iInstalls, iLast, iCalm, iStopped>>
  BY <1>0, <1>a DEF Install!FindData
<1>2. y \in InsRecord /\ InsJob(y) /\ y.v \in Packages /\ (iCalm => InsAlone(y)) BY <1>0, <1>1, InsAt
<1>3. PICK x : x = [y EXCEPT !.dat = iData[y.v], !.at = s] OBVIOUS
<1>4. /\ x \in InsRecord /\ x.at \in {"create", "semantic"} /\ x.v = y.v /\ x.pkg = y.pkg
      /\ x.dat = iData[y.v] /\ x.sem = y.sem
  BY <1>a, <1>2, <1>3, InsTypes DEF InsInv, InsRecord, InsPhases
<1>5. iJob' = [iJob EXCEPT ![j] = x] BY <1>0, <1>1, <1>3, InsTypes DEF InsInv
<1>6. InsJob(x) BY <1>1, <1>2, <1>4 DEF InsJob, InsInv, InsUsed
<1>7. iCalm => InsAlone(x) BY <1>1, <1>2, <1>4 DEF InsAlone, InsActivated
<1> QED BY <1>0, <1>1, <1>4, <1>5, <1>6, <1>7, InsReads

LEMMA InsFindSemantic ==
  ASSUME InsInv, NEW j \in Requests, Install!FindSemantic(j)
  PROVE  InsInv'
<1>0. PICK y : y = iJob[j] OBVIOUS
<1>a. PICK s : s = IF iSemantic[y.v] = "ABSENT" THEN "register" ELSE "point" OBVIOUS
<1>1. /\ y.at = "semantic" /\ iJob' = [iJob EXCEPT ![j].sem = iSemantic[y.v], ![j].at = s]
      /\ UNCHANGED <<iPackage, iData, iSemantic, iPointer, iUsed, iInstalls, iLast, iCalm, iStopped>>
  BY <1>0, <1>a DEF Install!FindSemantic
<1>2. y \in InsRecord /\ InsJob(y) /\ y.v \in Packages /\ (iCalm => InsAlone(y)) BY <1>0, <1>1, InsAt
<1>3. PICK x : x = [y EXCEPT !.sem = iSemantic[y.v], !.at = s] OBVIOUS
<1>4. /\ x \in InsRecord /\ x.at = s /\ x.v = y.v /\ x.pkg = y.pkg
      /\ x.dat = y.dat /\ x.sem = iSemantic[y.v] /\ s \in {"register", "point"}
  BY <1>a, <1>2, <1>3, InsTypes DEF InsInv, InsRecord, InsPhases
<1>5. iJob' = [iJob EXCEPT ![j] = x] BY <1>0, <1>1, <1>3, InsTypes DEF InsInv
<1>6. InsJob(x) BY <1>1, <1>2, <1>4 DEF InsJob, InsInv, InsUsed
<1>7. iCalm => InsAlone(x) BY <1>a, <1>1, <1>2, <1>4 DEF InsAlone, InsActivated
<1> QED BY <1>0, <1>1, <1>4, <1>5, <1>6, <1>7, InsReads

(* An installer changes its package, or the activation changes others.     *)
LEMMA InsPackages ==
  ASSUME InsInv, NEW j \in Requests, NEW x \in InsRecord,
         iJob' = [iJob EXCEPT ![j] = x], iJob[j].at \notin {"idle", "release", "review"},
         x.at # "idle", x.v = iJob[j].v,
         UNCHANGED <<iData, iSemantic, iPointer, iUsed, iInstalls, iLast, iCalm, iStopped>>,
         iPackage' \in [Packages -> Install!PackageStatus],
         InsJob(x), iCalm => InsAlone(x)' /\ InsOne'
  PROVE  InsInv'
<1>1. iCalm => InsPointed' BY DEF InsInv, InsCalm, InsPointed
<1>2. iData' \in [Packages -> Install!DataStatus] /\ iSemantic' \in [Packages -> Install!SemanticStatus]
  BY InsTypes DEF InsInv
<1> QED BY <1>1, <1>2, InsGoes

LEMMA InsPromote ==
  ASSUME InsInv, NEW j \in Requests,
         NEW from \in {"insert", "validate", "publish"},
         NEW status \in {"INSTALLED", "VALIDATED", "PUBLISHED"},
         NEW to \in {"validate", "publish", "activate"},
         to = "activate" => status = "PUBLISHED",
         iJob[j].at = from, iJob' = [iJob EXCEPT ![j].at = to, ![j].pkg = status],
         \A w \in Packages : iPackage'[w] \in {iPackage[w], status},
         iPackage' \in [Packages -> Install!PackageStatus],
         UNCHANGED <<iData, iSemantic, iPointer, iUsed, iInstalls, iLast, iCalm, iStopped>>
  PROVE  InsInv'
<1>0. PICK y : y = iJob[j] OBVIOUS
<1>1. y \in InsRecord /\ InsJob(y) BY <1>0, InsAt
<1>2. PICK x : x = [y EXCEPT !.at = to, !.pkg = status] OBVIOUS
<1>3. /\ x \in InsRecord /\ x.at = to /\ x.v = y.v /\ x.pkg = status
      /\ x.dat = y.dat /\ x.sem = y.sem
  BY <1>1, <1>2 DEF InsRecord, InsPhases, Install!PackageStatus
<1>4. iJob' = [iJob EXCEPT ![j] = x] BY <1>0, <1>2, InsTypes DEF InsInv
<1>5. InsJob(x) BY <1>0, <1>1, <1>3 DEF InsJob
<1>6. InsAlone(x)' BY <1>3 DEF InsAlone, InsActivated
<1>7. iCalm => InsOne' BY DEF InsInv, InsCalm, InsOne
<1> QED BY <1>0, <1>3, <1>4, <1>5, <1>6, <1>7, InsPackages

LEMMA InsRegisters ==
  ASSUME InsInv, NEW j \in Requests,
         Install!Insert(j) \/ Install!Validate(j) \/ Install!Publish(j)
  PROVE  InsInv'
<1> USE DEF Install!Flush, Install!PackageStatus
<1>0. iPackage \in [Packages -> Install!PackageStatus] BY InsTypes DEF InsInv
<1>1. CASE Install!Insert(j)
  <2>1. /\ iPackage' = [iPackage EXCEPT ![iJob[j].v] = "INSTALLED"] /\ iJob[j].at = "insert"
        /\ iJob' = [iJob EXCEPT ![j].at = "validate", ![j].pkg = "INSTALLED"]
        /\ UNCHANGED <<iData, iSemantic, iPointer, iUsed, iInstalls, iLast, iCalm, iStopped>>
    BY <1>1 DEF Install!Insert
  <2>2. iPackage' \in [Packages -> Install!PackageStatus] BY <1>0, <2>1
  <2>3. \A w \in Packages : iPackage'[w] \in {iPackage[w], "INSTALLED"} BY <1>0, <2>1
  <2> QED BY <2>1, <2>2, <2>3, InsPromote
<1>2. CASE Install!Validate(j)
  <2>1. /\ iPackage' = [iPackage EXCEPT ![iJob[j].v] = Install!Flush(@, iJob[j].pkg, "VALIDATED")]
        /\ iJob[j].at = "validate" /\ iJob' = [iJob EXCEPT ![j].at = "publish", ![j].pkg = "VALIDATED"]
        /\ UNCHANGED <<iData, iSemantic, iPointer, iUsed, iInstalls, iLast, iCalm, iStopped>>
    BY <1>2 DEF Install!Validate, Install!Promote
  <2>2. iPackage' \in [Packages -> Install!PackageStatus] BY <1>0, <2>1
  <2>3. \A w \in Packages : iPackage'[w] \in {iPackage[w], "VALIDATED"} BY <1>0, <2>1
  <2> QED BY <2>1, <2>2, <2>3, InsPromote
<1>3. CASE Install!Publish(j)
  <2>1. /\ iPackage' = [iPackage EXCEPT ![iJob[j].v] = Install!Flush(@, iJob[j].pkg, "PUBLISHED")]
        /\ iJob[j].at = "publish" /\ iJob' = [iJob EXCEPT ![j].at = "activate", ![j].pkg = "PUBLISHED"]
        /\ UNCHANGED <<iData, iSemantic, iPointer, iUsed, iInstalls, iLast, iCalm, iStopped>>
    BY <1>3 DEF Install!Publish, Install!Promote
  <2>2. iPackage' \in [Packages -> Install!PackageStatus] BY <1>0, <2>1
  <2>3. \A w \in Packages : iPackage'[w] \in {iPackage[w], "PUBLISHED"} BY <1>0, <2>1
  <2> QED BY <2>1, <2>2, <2>3, InsPromote
<1> QED BY <1>1, <1>2, <1>3

(* The commit of an activation: this package is active, and the others are *)
(* if the installer did not find them so.                                  *)
LEMMA InsActivate ==
  ASSUME InsInv, NEW j \in Requests, Install!Activate(j)
  PROVE  /\ InsInv'
         /\ iPackage'[iJob[j].v] = "ACTIVE" /\ iJob[j].v \in Packages
<1>0. PICK y : y = iJob[j] OBVIOUS
<1>1. /\ y.at = "lock" /\ y.todo = {}
      /\ iPackage' = [w \in Packages |->
           IF w = y.v THEN Install!Flush(iPackage[w], y.pkg, "ACTIVE")
           ELSE IF w \in y.cur THEN "DISABLED" ELSE iPackage[w]]
      /\ iJob' = [iJob EXCEPT ![j].at = "data", ![j].pkg = "ACTIVE", ![j].held = {}, ![j].cur = {}]
      /\ UNCHANGED <<iData, iSemantic, iPointer, iUsed, iInstalls, iLast, iCalm, iStopped>>
  BY <1>0 DEF Install!Activate
<1>2. y \in InsRecord /\ InsJob(y) /\ y.v \in Packages /\ (iCalm => InsAlone(y)) BY <1>0, <1>1, InsAt
<1>3. PICK x : x = [y EXCEPT !.at = "data", !.pkg = "ACTIVE", !.held = {}, !.cur = {}] OBVIOUS
<1>4. /\ x \in InsRecord /\ x.at = "data" /\ x.v = y.v /\ x.dat = y.dat /\ x.sem = y.sem
  BY <1>2, <1>3 DEF InsRecord, InsPhases, Install!PackageStatus
<1>5. iJob' = [iJob EXCEPT ![j] = x] BY <1>0, <1>1, <1>3, InsTypes DEF InsInv
<1>6. InsJob(x) BY <1>2, <1>4 DEF InsJob
<1>7. \A w \in Packages : iPackage'[w] = IF w = y.v THEN "ACTIVE"
                                         ELSE IF w \in y.cur THEN "DISABLED" ELSE iPackage[w]
  BY <1>1, <1>2 DEF InsJob, Install!Flush
<1>8. iPackage' \in [Packages -> Install!PackageStatus]
  BY <1>1, <1>7, InsTypes DEF InsInv, Install!PackageStatus
<1>9. iCalm => InsOnlyActive(y.v)'
  BY <1>1, <1>2, <1>7 DEF InsAlone, InsOnlyActive
<1>10. iCalm => InsAlone(x)' /\ InsOne'
  BY <1>4, <1>9 DEF InsAlone, InsActivated, InsOnlyActive, InsOne
<1>11. InsInv' BY <1>0, <1>1, <1>4, <1>5, <1>6, <1>8, <1>10, InsPackages
<1> QED BY <1>0, <1>2, <1>7, <1>11

(* The data set version of an installer changes.                           *)
LEMMA InsDataset ==
  ASSUME InsInv, NEW j \in Requests, NEW x \in InsRecord,
         iJob' = [iJob EXCEPT ![j] = x], iJob[j].at \in {"create", "release"},
         x.at \in {"release", "semantic"}, x.v = iJob[j].v,
         x.dat # "ACTIVE", x.sem = iJob[j].sem,
         iData[x.v] \notin {"ACTIVE"}, iData' = [iData EXCEPT ![x.v] = x.dat],
         x.dat \in Install!Pipeline => x.at = "release",
         UNCHANGED <<iPackage, iSemantic, iPointer, iUsed, iInstalls, iLast, iCalm, iStopped>>
  PROVE  InsInv'
<1>1. InsJob(iJob[j]) /\ x.v \in Packages /\ (iCalm => InsAlone(iJob[j])) BY InsAt
<1>2. iData' \in [Packages -> Install!DataStatus]
      /\ \A w \in Packages : iData'[w] = IF w = x.v THEN x.dat ELSE iData[w]
  BY <1>1, InsTypes DEF InsInv, InsRecord
<1>3. InsJob(x) BY <1>1 DEF InsJob
<1>4. iCalm => InsAlone(x)' /\ InsOne' /\ InsPointed'
  BY <1>1 DEF InsInv, InsCalm, InsAlone, InsActivated, InsOnlyActive, InsOne, InsPointed
<1>5. /\ iPackage' \in [Packages -> Install!PackageStatus]
      /\ iSemantic' \in [Packages -> Install!SemanticStatus]
  BY InsTypes DEF InsInv
<1>6. \A w \in Packages : iData'[w] = "ACTIVE" <=> iData[w] = "ACTIVE" BY <1>2
<1>7. \A w \in Packages :
        /\ iData'[w] \in Install!Pipeline =>
             (w = x.v /\ x.at = "release") \/
             (iData[w] \in Install!Pipeline /\ (iJob[j].at = "release" => w # x.v))
        /\ iSemantic'[w] = "DRAFT" => iSemantic[w] = "DRAFT" /\ iJob[j].at # "review"
  BY <1>2
<1> QED BY <1>3, <1>4, <1>2, <1>5, <1>6, <1>7, InsGoes

LEMMA InsCreateData ==
  ASSUME InsInv, NEW j \in Requests, Install!CreateData(j)
  PROVE  InsInv'
<1>0. PICK y : y = iJob[j] OBVIOUS
<1>a. PICK s : s = IF iData[y.v] = "ABSENT" THEN "QUALITY_PASSED" ELSE iData[y.v] OBVIOUS
<1>1. /\ y.at = "create" /\ iData[y.v] \in {"ABSENT", "QUALITY_PASSED", "PENDING_APPROVAL"}
      /\ iData' = [iData EXCEPT ![y.v] = s]
      /\ iJob' = [iJob EXCEPT ![j].at = "release", ![j].dat = iData'[y.v]]
      /\ UNCHANGED <<iPackage, iSemantic, iPointer, iUsed, iInstalls, iLast, iCalm, iStopped>>
  BY <1>0, <1>a DEF Install!CreateData
<1>2. y \in InsRecord /\ y.v \in Packages BY <1>0, <1>1, InsAt
<1>3. iData'[y.v] = s /\ s \in {"QUALITY_PASSED", "PENDING_APPROVAL"}
  BY <1>a, <1>1, <1>2, InsTypes DEF InsInv
<1>4. PICK x : x = [y EXCEPT !.at = "release", !.dat = s] OBVIOUS
<1>5. /\ x \in InsRecord /\ x.at = "release" /\ x.v = y.v /\ x.dat = s /\ x.sem = y.sem
  BY <1>2, <1>3, <1>4 DEF InsRecord, InsPhases, Install!DataStatus, Install!Pipeline
<1>6. iJob' = [iJob EXCEPT ![j] = x] BY <1>0, <1>1, <1>3, <1>4, InsTypes DEF InsInv
<1> QED BY <1>0, <1>1, <1>3, <1>5, <1>6, InsDataset

LEMMA InsReleaseData ==
  ASSUME InsInv, NEW j \in Requests, Install!ReleaseData(j)
  PROVE  InsInv'
<1>0. PICK y : y = iJob[j] OBVIOUS
<1>a. PICK s : s = CASE iData[y.v] = "QUALITY_PASSED" -> "PENDING_APPROVAL"
                     [] iData[y.v] = "PENDING_APPROVAL" -> "APPROVED"
                     [] OTHER -> "PUBLISHED"
  OBVIOUS
<1>b. PICK at : at = IF s = "PUBLISHED" THEN "semantic" ELSE "release" OBVIOUS
<1>1. /\ y.at = "release" /\ iData[y.v] \in Install!Pipeline
      /\ iData' = [iData EXCEPT ![y.v] = s]
      /\ iJob' = [iJob EXCEPT ![j].dat = s, ![j].at = at]
      /\ UNCHANGED <<iPackage, iSemantic, iPointer, iUsed, iInstalls, iLast, iCalm, iStopped>>
  BY <1>0, <1>a, <1>b DEF Install!ReleaseData
<1>2. y \in InsRecord BY <1>0, <1>1, InsAt
<1>3. s \in {"PENDING_APPROVAL", "APPROVED", "PUBLISHED"} BY <1>a
<1>4. PICK x : x = [y EXCEPT !.dat = s, !.at = at] OBVIOUS
<1>5. /\ x \in InsRecord /\ x.at = at /\ x.v = y.v /\ x.dat = s /\ x.sem = y.sem
  BY <1>b, <1>2, <1>3, <1>4 DEF InsRecord, InsPhases, Install!DataStatus, Install!Pipeline, Install!Usable
<1>6. iJob' = [iJob EXCEPT ![j] = x] BY <1>0, <1>1, <1>4, InsTypes DEF InsInv
<1>7. iData[y.v] # "ACTIVE" BY <1>1 DEF Install!Pipeline
<1>8. s \in Install!Pipeline => at = "release" BY <1>b, <1>3 DEF Install!Pipeline
<1> QED BY <1>0, <1>b, <1>1, <1>3, <1>5, <1>6, <1>7, <1>8, InsDataset

(* The semantic version of an installer changes; one that is alone leaves  *)
(* the one in force.                                                       *)
LEMMA InsSemantic ==
  ASSUME InsInv, NEW j \in Requests, NEW x \in InsRecord, NEW s \in Install!SemanticStatus,
         iJob' = [iJob EXCEPT ![j] = x], iJob[j].at \in {"register", "review"},
         x.at \in {"review", "point"}, x.v = iJob[j].v,
         x.dat = iJob[j].dat, x.sem = "ACTIVE" => iSemantic[x.v] = "ACTIVE",
         iSemantic' = [iSemantic EXCEPT ![x.v] = s],
         s = "ACTIVE" => iSemantic[x.v] = "ACTIVE",
         iSemantic[x.v] \in Install!Usable => s \in Install!Usable,
         iCalm => (s = "DRAFT" => x.at = "review"),
         iCalm => (x.at = "review" => s = "DRAFT" /\ x.sem = "DRAFT"),
         UNCHANGED <<iPackage, iData, iPointer, iUsed, iInstalls, iLast, iCalm, iStopped>>
  PROVE  InsInv'
<1>1. InsJob(iJob[j]) /\ x.v \in Packages
      /\ (iCalm => InsAlone(iJob[j]) /\ InsOne /\ InsPointed)
  BY InsAt
<1>2. iSemantic' \in [Packages -> Install!SemanticStatus]
      /\ \A w \in Packages : iSemantic'[w] = IF w = x.v THEN s ELSE iSemantic[w]
  BY <1>1, InsTypes DEF InsInv
<1>3. InsJob(x) BY <1>1 DEF InsJob, InsInv, InsUsed
<1>4. iCalm => InsAlone(x)' BY <1>1, <1>2 DEF InsAlone, InsActivated, InsOnlyActive
<1>5. iCalm => InsOne' BY <1>1 DEF InsOne
<1>6. iCalm => InsPointed'
  <2> SUFFICES ASSUME iCalm, iPointer # Install!None PROVE iSemantic'[iPointer] = "ACTIVE"
    BY DEF InsPointed
  <2>1. iPointer \in Packages /\ iSemantic[iPointer] = "ACTIVE" BY <1>1, InsTypes DEF InsInv, InsPointed
  <2>2. iSemantic[x.v] \in {"ABSENT", "DRAFT"} BY <1>1 DEF InsAlone
  <2> QED BY <1>2, <2>1, <2>2
<1>7. /\ iPackage' \in [Packages -> Install!PackageStatus] /\ iData' \in [Packages -> Install!DataStatus]
  BY InsTypes DEF InsInv
<1>8. \A w \in Packages : iSemantic'[w] = "ACTIVE" => iSemantic[w] = "ACTIVE" BY <1>2
<1>9. \A w \in Packages : iSemantic[w] \in Install!Usable => iSemantic'[w] \in Install!Usable BY <1>2
<1>10. iCalm => \A w \in Packages :
         /\ iData'[w] \in Install!Pipeline => iData[w] \in Install!Pipeline /\ iJob[j].at # "release"
         /\ iSemantic'[w] = "DRAFT" =>
              (w = x.v /\ x.at = "review") \/
              (iSemantic[w] = "DRAFT" /\ (iJob[j].at = "review" => w # x.v))
  BY <1>2
<1> QED BY <1>2, <1>3, <1>4, <1>5, <1>6, <1>7, <1>8, <1>9, <1>10, InsGoes

LEMMA InsRegisterSemantic ==
  ASSUME InsInv, NEW j \in Requests, Install!RegisterSemantic(j)
  PROVE  InsInv'
<1>0. PICK y : y = iJob[j] OBVIOUS
<1>a. PICK s : s = IF iSemantic[y.v] = "ABSENT" THEN "DRAFT" ELSE iSemantic[y.v] OBVIOUS
<1>1. /\ y.at = "register" /\ iSemantic' = [iSemantic EXCEPT ![y.v] = s]
      /\ iJob' = [iJob EXCEPT ![j].at = "review", ![j].sem = iSemantic'[y.v]]
      /\ UNCHANGED <<iPackage, iData, iPointer, iUsed, iInstalls, iLast, iCalm, iStopped>>
  BY <1>0, <1>a DEF Install!RegisterSemantic
<1>2. y \in InsRecord /\ y.v \in Packages /\ (iCalm => InsAlone(y)) BY <1>0, <1>1, InsAt
<1>3. iSemantic'[y.v] = s /\ s \in Install!SemanticStatus
  BY <1>a, <1>1, <1>2, InsTypes DEF InsInv, Install!SemanticStatus
<1>4. PICK x : x = [y EXCEPT !.at = "review", !.sem = s] OBVIOUS
<1>5. /\ x \in InsRecord /\ x.at = "review" /\ x.v = y.v /\ x.dat = y.dat /\ x.sem = s
  BY <1>2, <1>3, <1>4 DEF InsRecord, InsPhases
<1>6. iJob' = [iJob EXCEPT ![j] = x] BY <1>0, <1>1, <1>3, <1>4, InsTypes DEF InsInv
<1>7. iCalm => s = "DRAFT" BY <1>a, <1>1, <1>2 DEF InsAlone
<1>8. s = "ACTIVE" => iSemantic[y.v] = "ACTIVE" BY <1>a
<1>9. iSemantic[y.v] \in Install!Usable => s \in Install!Usable BY <1>a DEF Install!Usable
<1>10. /\ iJob[j].at \in {"register", "review"} /\ x.at \in {"review", "point"} /\ x.v = iJob[j].v
       /\ x.dat = iJob[j].dat /\ iSemantic' = [iSemantic EXCEPT ![x.v] = s]
       /\ x.sem = "ACTIVE" => iSemantic[x.v] = "ACTIVE"
       /\ s = "ACTIVE" => iSemantic[x.v] = "ACTIVE"
       /\ iSemantic[x.v] \in Install!Usable => s \in Install!Usable
       /\ UNCHANGED <<iPackage, iData, iPointer, iUsed, iInstalls, iLast, iCalm, iStopped>>
  BY <1>0, <1>1, <1>5, <1>8, <1>9
<1>11. /\ iCalm => (s = "DRAFT" => x.at = "review")
       /\ iCalm => (x.at = "review" => s = "DRAFT" /\ x.sem = "DRAFT")
  BY <1>5, <1>7
<1> QED BY <1>3, <1>5, <1>6, <1>10, <1>11, InsSemantic

LEMMA InsPublishSemantic ==
  ASSUME InsInv, NEW j \in Requests, Install!PublishSemantic(j)
  PROVE  InsInv'
<1>0. PICK y : y = iJob[j] OBVIOUS
<1>a. PICK s : s = Install!Flush(iSemantic[y.v], y.sem, "PUBLISHED") OBVIOUS
<1>1. /\ y.at = "review" /\ y.sem \in {"DRAFT", "PUBLISHED"}
      /\ iSemantic' = [iSemantic EXCEPT ![y.v] = s]
      /\ iJob' = [iJob EXCEPT ![j].at = "point", ![j].sem = "PUBLISHED"]
      /\ UNCHANGED <<iPackage, iData, iPointer, iUsed, iInstalls, iLast, iCalm, iStopped>>
  BY <1>0, <1>a DEF Install!PublishSemantic
<1>2. y \in InsRecord /\ y.v \in Packages /\ (iCalm => InsAlone(y)) BY <1>0, <1>1, InsAt
<1>3. s \in {iSemantic[y.v], "PUBLISHED"} /\ (y.sem = "DRAFT" => s = "PUBLISHED")
  BY <1>a DEF Install!Flush
<1>4. s \in Install!SemanticStatus
  BY <1>2, <1>3, InsTypes DEF InsInv, Install!SemanticStatus, Install!Usable
<1>5. PICK x : x = [y EXCEPT !.at = "point", !.sem = "PUBLISHED"] OBVIOUS
<1>6. /\ x \in InsRecord /\ x.at = "point" /\ x.v = y.v /\ x.dat = y.dat /\ x.sem = "PUBLISHED"
  BY <1>2, <1>5 DEF InsRecord, InsPhases, Install!SemanticStatus, Install!Usable
<1>7. iJob' = [iJob EXCEPT ![j] = x] BY <1>0, <1>1, <1>5, InsTypes DEF InsInv
<1>8. iCalm => s = "PUBLISHED" BY <1>1, <1>2, <1>3 DEF InsAlone
<1>9. s = "ACTIVE" => iSemantic[y.v] = "ACTIVE" BY <1>3
<1>10. iSemantic[y.v] \in Install!Usable => s \in Install!Usable BY <1>3 DEF Install!Usable
<1> QED BY <1>0, <1>1, <1>4, <1>6, <1>7, <1>8, <1>9, <1>10, InsSemantic

(* An installation ends: nothing of it is half-way, unless it was stopped. *)
LEMMA InsEnds ==
  ASSUME InsInv, NEW j \in Requests, iJob[j].at # "idle",
         iJob' = [iJob EXCEPT ![j] = Install!Idle],
         UNCHANGED <<iPackage, iInstalls, iCalm>>,
         iData' \in [Packages -> Install!DataStatus],
         iSemantic' \in [Packages -> Install!SemanticStatus],
         iPointer' \in Packages \cup {Install!None}, iUsed' \subseteq Packages,
         iLast' \in Packages \cup {Install!None}, iStopped' \in BOOLEAN,
         iUsed \subseteq iUsed', InsUsed', Install!PointedIsReleased',
         iCalm => InsPointed',
         iCalm /\ iLast' # Install!None =>
           /\ InsOnlyActive(iLast') /\ iPointer' = iLast'
           /\ iData'[iLast'] = "ACTIVE" /\ iSemantic'[iLast'] = "ACTIVE",
         iCalm /\ ~iStopped' => iJob[j].at \notin {"release", "review"} /\ ~iStopped,
         \A w \in Packages : iData'[w] \in Install!Pipeline => iData[w] \in Install!Pipeline,
         \A w \in Packages : iSemantic'[w] = "DRAFT" => iSemantic[w] = "DRAFT"
  PROVE  InsInv'
<1> USE DEF InsInv
<1>1. \A k \in Requests : iJob'[k] = IF k = j THEN Install!Idle ELSE iJob[k] BY InsTypes
<1>2. Install!TypeOK'
  <2>1. iJob' \in [Requests -> InsRecord] BY InsIdle, InsTypes
  <2> QED BY <2>1, InsTypes, InsTyped
<1>3. InsJobs'
  <2> SUFFICES ASSUME NEW k \in Requests PROVE InsJob(iJob[k])' BY DEF InsJobs
  <2>1. InsJob(iJob[k]) BY DEF InsJobs
  <2> QED BY <1>1, <2>1, InsIdle DEF InsJob
<1>4. InsCalm'
  <2> SUFFICES ASSUME iCalm PROVE InsCalm' BY DEF InsCalm
  <2>1. \A k \in Requests : iJob'[k].at = "idle" BY <1>1, InsIdle DEF InsCalm
  <2>2. InsReturned'
    <3>1. iLast' # Install!None => InsOnlyActive(iLast)' BY DEF InsOnlyActive
    <3> QED BY <2>1, <3>1 DEF InsReturned
  <2>3. InsOne' BY DEF InsCalm, InsOne
  <2> QED BY <2>1, <2>2, <2>3 DEF InsCalm, InsAlone, InsActivated
<1>5. InsMoving'
  <2> SUFFICES ASSUME iCalm, ~iStopped', NEW w \in Packages
               PROVE  iData'[w] \notin Install!Pipeline /\ iSemantic'[w] # "DRAFT"
    BY DEF InsMoving
  <2>1. \A k \in Requests : iJob[k].at \notin {"release", "review"} BY DEF InsCalm
  <2> QED BY <2>1 DEF InsMoving
<1> QED BY <1>2, <1>3, <1>4, <1>5

LEMMA InsStop ==
  ASSUME InsInv, NEW j \in Requests, Install!Stop(j)
  PROVE  InsInv'
<1>1. /\ iJob[j].at # "idle" /\ iJob' = [iJob EXCEPT ![j] = Install!Idle] /\ iStopped' = TRUE
      /\ UNCHANGED <<iPackage, iData, iSemantic, iPointer, iUsed, iInstalls, iLast, iCalm>>
  BY DEF Install!Stop
<1>2. /\ iData' \in [Packages -> Install!DataStatus]
      /\ iSemantic' \in [Packages -> Install!SemanticStatus]
      /\ iPointer' \in Packages \cup {Install!None} /\ iUsed' \subseteq Packages
      /\ iLast' \in Packages \cup {Install!None}
  BY <1>1, InsTypes DEF InsInv
<1>3. InsUsed' /\ Install!PointedIsReleased'
  BY <1>1 DEF InsInv, InsUsed, Install!PointedIsReleased
<1>4. iCalm => InsPointed' /\ iLast' = Install!None
  BY <1>1 DEF InsInv, InsCalm, InsPointed, InsReturned
<1> QED BY <1>1, <1>2, <1>3, <1>4, InsEnds

LEMMA InsKeyRefused ==
  ASSUME InsInv, NEW j \in Requests, Install!KeyRefused(j)
  PROVE  InsInv'
<1>1. /\ iJob[j].at = "point" /\ iJob' = [iJob EXCEPT ![j] = Install!Idle]
      /\ UNCHANGED <<iPackage, iData, iSemantic, iPointer, iUsed, iInstalls, iLast, iCalm, iStopped>>
  BY DEF Install!KeyRefused
<1>2. /\ iData' \in [Packages -> Install!DataStatus]
      /\ iSemantic' \in [Packages -> Install!SemanticStatus]
      /\ iPointer' \in Packages \cup {Install!None} /\ iUsed' \subseteq Packages
      /\ iLast' \in Packages \cup {Install!None} /\ iStopped' \in BOOLEAN
  BY <1>1, InsTypes DEF InsInv
<1>3. InsUsed' /\ Install!PointedIsReleased'
  BY <1>1 DEF InsInv, InsUsed, Install!PointedIsReleased
<1>4. iCalm => InsPointed' /\ iLast' = Install!None
  BY <1>1 DEF InsInv, InsCalm, InsPointed, InsReturned
<1> QED BY <1>1, <1>2, <1>3, <1>4, InsEnds

(* The pointer stands where this installation wants it.                    *)
LEMMA InsPointerStands ==
  ASSUME InsInv, NEW j \in Requests, Install!PointerStands(j)
  PROVE  InsInv'
<1>0. PICK y : y = iJob[j] OBVIOUS
<1>1. /\ y.at = "point" /\ iPointer = y.v /\ iLast' = y.v
      /\ iJob' = [iJob EXCEPT ![j] = Install!Idle]
      /\ UNCHANGED <<iPackage, iData, iSemantic, iPointer, iUsed, iInstalls, iCalm, iStopped>>
  BY <1>0 DEF Install!PointerStands
<1>2. y.v \in Packages /\ (iCalm => InsAlone(y) /\ InsPointed) BY <1>0, <1>1, InsAt
<1>3. /\ iData' \in [Packages -> Install!DataStatus]
      /\ iSemantic' \in [Packages -> Install!SemanticStatus]
      /\ iPointer' \in Packages \cup {Install!None} /\ iUsed' \subseteq Packages
      /\ iLast' \in Packages \cup {Install!None} /\ iStopped' \in BOOLEAN
  BY <1>1, <1>2, InsTypes DEF InsInv
<1>4. InsUsed' /\ Install!PointedIsReleased'
  BY <1>1 DEF InsInv, InsUsed, Install!PointedIsReleased
<1>5. iCalm => InsPointed' BY <1>1, <1>2 DEF InsPointed
<1>6. y.v # Install!None BY <1>2, BusinessAssumption DEF Install!None
<1>7. iCalm => /\ InsOnlyActive(y.v) /\ iPointer' = y.v
               /\ iData'[y.v] = "ACTIVE" /\ iSemantic'[y.v] = "ACTIVE"
  BY <1>1, <1>2, <1>6 DEF InsInv, InsAlone, InsActivated, InsPointed, Install!PointedIsReleased
<1> QED BY <1>0, <1>1, <1>3, <1>4, <1>5, <1>7, InsEnds

(* The pointer moves: what it pointed to is superseded, and nothing else   *)
(* was active.                                                             *)
LEMMA InsMovePointer ==
  ASSUME InsInv, NEW j \in Requests, Install!MovePointer(j)
  PROVE  InsInv'
<1>0. PICK y : y = iJob[j] OBVIOUS
<1>1. /\ y.at = "point" /\ iPointer # y.v /\ y.v \notin iUsed
      /\ y.dat \in Install!Usable /\ y.sem \in Install!Usable
      /\ iPointer' = y.v /\ iUsed' = iUsed \cup {y.v} /\ iLast' = y.v
      /\ iData' = [w \in Packages |->
           IF w = y.v THEN Install!Flush(iData[w], y.dat, "ACTIVE")
           ELSE IF w = iPointer THEN "SUPERSEDED" ELSE iData[w]]
      /\ iSemantic' = [w \in Packages |->
           IF w = y.v THEN Install!Flush(iSemantic[w], y.sem, "ACTIVE")
           ELSE IF w = iPointer THEN "SUPERSEDED" ELSE iSemantic[w]]
      /\ iJob' = [iJob EXCEPT ![j] = Install!Idle]
      /\ UNCHANGED <<iPackage, iInstalls, iCalm, iStopped>>
  BY <1>0 DEF Install!MovePointer
<1>2. InsJob(y) /\ y.v \in Packages /\ (iCalm => InsAlone(y)) BY <1>0, <1>1, InsAt
<1>3. y.dat # "ACTIVE" /\ y.sem # "ACTIVE" BY <1>1, <1>2 DEF InsJob
<1>4. \A w \in Packages :
        /\ iData'[w] = IF w = y.v THEN "ACTIVE" ELSE IF w = iPointer THEN "SUPERSEDED" ELSE iData[w]
        /\ iSemantic'[w] = IF w = y.v THEN "ACTIVE" ELSE IF w = iPointer THEN "SUPERSEDED" ELSE iSemantic[w]
  BY <1>1, <1>3 DEF Install!Flush
<1>5. /\ iData' \in [Packages -> Install!DataStatus]
      /\ iSemantic' \in [Packages -> Install!SemanticStatus]
  BY <1>1, <1>4, InsTypes DEF InsInv, Install!DataStatus, Install!SemanticStatus, Install!Usable
<1>6. /\ iPointer' \in Packages \cup {Install!None} /\ iUsed' \subseteq Packages
      /\ iLast' \in Packages \cup {Install!None} /\ iStopped' \in BOOLEAN
      /\ iUsed \subseteq iUsed'
  BY <1>1, <1>2, InsTypes DEF InsInv
<1>7. InsUsed' BY <1>1, <1>4 DEF InsInv, InsUsed
<1>8. Install!PointedIsReleased'
  BY <1>1, <1>2, <1>4 DEF Install!PointedIsReleased, Install!Usable
<1>9. InsPointed' BY <1>1, <1>2, <1>4 DEF InsPointed
<1>10. iCalm => /\ InsOnlyActive(y.v) /\ iPointer' = y.v
                /\ iData'[y.v] = "ACTIVE" /\ iSemantic'[y.v] = "ACTIVE"
  BY <1>1, <1>2, <1>4 DEF InsAlone, InsActivated
<1>11. \A w \in Packages : /\ iData'[w] \in Install!Pipeline => iData[w] \in Install!Pipeline
                           /\ iSemantic'[w] = "DRAFT" => iSemantic[w] = "DRAFT"
  BY <1>4 DEF Install!Pipeline
<1> QED BY <1>0, <1>1, <1>5, <1>6, <1>7, <1>8, <1>9, <1>10, <1>11, InsEnds

LEMMA InsBegin ==
  ASSUME InsInv, NEW j \in Requests, NEW v \in Packages, Install!Begin(j, v)
  PROVE  InsInv'
<1> USE DEF InsInv
<1>0. PICK x : x = [Install!Idle EXCEPT !.at = IF iPackage[v] = "ABSENT" THEN "insert" ELSE "validate",
                                        !.v = v, !.pkg = iPackage[v]]
  OBVIOUS
<1>1. /\ iJob[j].at = "idle" /\ iInstalls < MaxInstalls /\ iInstalls' = iInstalls + 1
      /\ iJob' = [iJob EXCEPT ![j] = x] /\ iLast' = Install!None
      /\ iCalm' = (iCalm /\ \A k \in Requests : iJob[k].at = "idle")
      /\ UNCHANGED <<iPackage, iData, iSemantic, iPointer, iUsed, iStopped>>
  BY <1>0 DEF Install!Begin
<1>2. /\ x \in InsRecord /\ x.at \in {"insert", "validate"} /\ x.v = v
      /\ x.dat = "ABSENT" /\ x.sem = "ABSENT"
  BY <1>0, InsIdle, InsTypes DEF InsRecord, InsPhases
<1>3. \A k \in Requests : iJob'[k] = IF k = j THEN x ELSE iJob[k] BY <1>1, InsTypes
<1>4. Install!TypeOK'
  <2>1. iInstalls' \in 0 .. MaxInstalls BY <1>1, InsTypes, BusinessAssumption
  <2>2. iJob' \in [Requests -> InsRecord] BY <1>1, <1>2, InsTypes
  <2>3. iCalm' \in BOOLEAN /\ iLast' \in Packages \cup {Install!None} BY <1>1
  <2> QED BY <1>1, <2>1, <2>2, <2>3, InsTypes, InsTyped
<1>5. InsJobs'
  <2> SUFFICES ASSUME NEW k \in Requests PROVE InsJob(iJob[k])' BY DEF InsJobs
  <2>1. InsJob(iJob[k]) BY DEF InsJobs
  <2> QED BY <1>1, <1>2, <1>3, <2>1 DEF InsJob
<1>6. InsUsed' /\ Install!PointedIsReleased' BY <1>1 DEF InsUsed, Install!PointedIsReleased
<1>7. InsCalm'
  <2> SUFFICES ASSUME iCalm' PROVE InsCalm' BY DEF InsCalm
  <2>1. iCalm /\ \A k \in Requests : iJob[k].at = "idle" BY <1>1
  <2>2. \A k \in Requests : iJob'[k].at # "idle" => k = j BY <1>3, <2>1
  <2>3. \A k \in Requests : InsAlone(iJob[k])' BY <1>2, <1>3, <2>1 DEF InsAlone, InsActivated
  <2>4. InsReturned' BY <1>1 DEF InsReturned
  <2>5. InsPointed' /\ InsOne' BY <1>1, <2>1 DEF InsCalm, InsPointed, InsOne
  <2> QED BY <2>2, <2>3, <2>4, <2>5 DEF InsCalm
<1>8. InsMoving'
  <2> SUFFICES ASSUME iCalm', ~iStopped, NEW w \in Packages
               PROVE  iData[w] \notin Install!Pipeline /\ iSemantic[w] # "DRAFT"
    BY <1>1 DEF InsMoving
  <2> QED BY <1>1 DEF InsMoving
<1> QED BY <1>4, <1>5, <1>6, <1>7, <1>8

LEMMA InsStep == InsInv /\ [Install!Next]_(Install!vars) => InsInv'
<1> SUFFICES ASSUME InsInv, [Install!Next]_(Install!vars) PROVE InsInv' OBVIOUS
<1>1. CASE UNCHANGED Install!vars
  <2>1. Install!TypeOK' BY <1>1, InsTypes, InsTyped DEF InsInv, Install!vars
  <2> QED BY <1>1, <2>1
      DEF InsInv, Install!vars, InsJobs, InsJob, InsUsed, Install!PointedIsReleased, InsCalm,
          InsAlone, InsOnlyActive, InsReturned, InsPointed, InsOne, InsMoving
<1> QED
  BY <1>1, InsBegin, InsLockActive, InsRegisters, InsLockRelease, InsQueryActive, InsActivate,
     InsFindData, InsCreateData, InsReleaseData, InsFindSemantic, InsRegisterSemantic,
     InsPublishSemantic, InsPointerStands, InsMovePointer, InsKeyRefused, InsStop
  DEF Install!Next

LEMMA InsSafe == InsInv => Install!InstallSafe
<1> SUFFICES ASSUME InsInv PROVE Install!InstallSafe OBVIOUS
<1>1. Install!ReturnedIsInForce
  BY DEF InsInv, InsCalm, InsReturned, InsOnlyActive, Install!ReturnedIsInForce, Install!InForce
<1>2. Install!NothingHalfWay
  BY DEF InsInv, InsMoving, Install!NothingHalfWay, Install!Quiet
<1>3. Install!CalmOneActive BY DEF InsInv, InsCalm, InsOne, Install!CalmOneActive
<1> QED BY <1>1, <1>2, <1>3 DEF InsInv, Install!InstallSafe

(* An active package is disabled by the commit of an activation only.      *)
LEMMA InsReplaced ==
  ASSUME InsInv, [Install!Next]_(Install!vars), NEW v \in Packages,
         iPackage[v] = "ACTIVE", iPackage'[v] = "DISABLED"
  PROVE  \E w \in Packages \ {v} : iPackage'[w] = "ACTIVE"
<1>1. ASSUME NEW j \in Requests, Install!Activate(j)
      PROVE  \E w \in Packages \ {v} : iPackage'[w] = "ACTIVE"
  <2>1. iPackage'[iJob[j].v] = "ACTIVE" /\ iJob[j].v \in Packages BY <1>1, InsActivate
  <2> QED BY <2>1
<1>2. ASSUME NEW j \in Requests, Install!Insert(j) \/ Install!Validate(j) \/ Install!Publish(j)
      PROVE  FALSE
  <2>1. iPackage \in [Packages -> Install!PackageStatus] BY InsTypes DEF InsInv
  <2> QED BY <1>2, <2>1 DEF Install!Insert, Install!Validate, Install!Publish, Install!Promote, Install!Flush
<1>3. CASE UNCHANGED iPackage BY <1>3
<1> QED
  BY <1>1, <1>2, <1>3
  DEF Install!Next, Install!vars, Install!Begin, Install!LockActive, Install!LockRelease,
      Install!QueryActive, Install!FindData, Install!CreateData, Install!ReleaseData,
      Install!FindSemantic, Install!RegisterSemantic, Install!PublishSemantic,
      Install!PointerStands, Install!MovePointer, Install!KeyRefused, Install!Stop

LEMMA InsMoves == [MCNext]_allVars => [Install!Next]_(Install!vars)
<1> SUFFICES ASSUME MCNext PROVE [Install!Next]_(Install!vars)
  BY DEF allVars, InstallVars, Install!vars
<1>1. CASE focus = "install" BY <1>1 DEF MCNext
<1>2. CASE focus # "install" BY <1>2 DEF MCNext, Keep, InstallVars, Install!vars
<1> QED BY <1>1, <1>2

----------------------------------------------------------------------------
(* Backups and drills.  A backup that is done is left as it is; until a    *)
(* write is committed during it, what it dumped is what is live, and what  *)
(* its manifest tells is what it dumped.                                   *)

DriReading == UNION {[S -> 0 .. MaxWrites] : S \in SUBSET Parts}
DriFile == [data : Drill!Data, extra : SUBSET Requests]
DriRecord ==
  [at : {"idle", "begun", "created", "restored", "passed", "mismatch", "failed"},
   of : Backups \cup {Drill!None}]

DriBackup(b) ==
  /\ dBackup[b] = "idle" => DOMAIN dManifest[b] = {}
  /\ dBackup[b] = "done" => DOMAIN dManifest[b] = Parts
  /\ dFile[b].extra # {} => dMixed
  /\ dBackup[b] = "dumped" /\ b \notin dDirty => dFile[b].data = dLive
  /\ dBackup[b] \in {"dumped", "done"} /\ b \notin dDirty =>
       \A p \in DOMAIN dManifest[b] : dManifest[b][p] = dFile[b].data[p]

DriBackups == \A b \in Backups : DriBackup(b)

DriDrill(d) ==
  /\ dDrill[d].at # "idle" => dDrill[d].of \in Backups /\ dBackup[dDrill[d].of] = "done"
  /\ dDrill[d].at = "restored" => dContent[d] = dFile[dDrill[d].of].data
  /\ dDrill[d].at = "passed" => dManifest[dDrill[d].of] = dFile[dDrill[d].of].data
  /\ dDrill[d].at = "mismatch" => dDrill[d].of \in dDirty

DriDrills == \A d \in Requests : DriDrill(d)

DriInv == Drill!TypeOK /\ DriBackups /\ DriDrills /\ Drill!NothingIsLeft

LEMMA DriTypes ==
  ASSUME Drill!TypeOK
  PROVE  /\ dLive \in Drill!Data /\ dWrites \in 0 .. MaxWrites
         /\ dSchemas \in SUBSET Requests /\ dContent \in [Requests -> Drill!Data]
         /\ dFile \in [Backups -> DriFile] /\ dManifest \in [Backups -> DriReading]
         /\ dBackup \in [Backups -> {"idle", "dumped", "done", "failed"}]
         /\ dDrill \in [Requests -> DriRecord]
         /\ dDirty \in SUBSET Backups /\ dLost \in SUBSET Requests /\ dMixed \in BOOLEAN
BY DEF Drill!TypeOK, DriFile, DriReading, DriRecord

LEMMA DriTyped ==
  ASSUME dLive' \in Drill!Data, dWrites' \in 0 .. MaxWrites,
         dSchemas' \in SUBSET Requests, dContent' \in [Requests -> Drill!Data],
         dFile' \in [Backups -> DriFile], dManifest' \in [Backups -> DriReading],
         dBackup' \in [Backups -> {"idle", "dumped", "done", "failed"}],
         dDrill' \in [Requests -> DriRecord],
         dDirty' \in SUBSET Backups, dLost' \in SUBSET Requests, dMixed' \in BOOLEAN
  PROVE  Drill!TypeOK'
BY DEF Drill!TypeOK, DriFile, DriReading, DriRecord

(* What has been read of a manifest.                                       *)
LEMMA DriReadings ==
  ASSUME NEW m
  PROVE  m \in DriReading <=> DOMAIN m \subseteq Parts /\ m \in [DOMAIN m -> 0 .. MaxWrites]
<1>1. ASSUME m \in DriReading PROVE DOMAIN m \subseteq Parts /\ m \in [DOMAIN m -> 0 .. MaxWrites]
  <2>1. PICK S \in SUBSET Parts : m \in [S -> 0 .. MaxWrites] BY <1>1 DEF DriReading
  <2> QED BY <2>1
<1>2. ASSUME DOMAIN m \subseteq Parts, m \in [DOMAIN m -> 0 .. MaxWrites] PROVE m \in DriReading
  BY <1>2 DEF DriReading
<1> QED BY <1>1, <1>2

LEMMA DriInit == Drill!Init => DriInv
<1> SUFFICES ASSUME Drill!Init PROVE DriInv OBVIOUS
<1>0. 0 \in 0 .. MaxWrites BY BusinessAssumption
<1>1. Drill!NoData \in Drill!Data BY <1>0 DEF Drill!NoData, Drill!Data
<1>2. PICK m : m = [p \in {} |-> 0] OBVIOUS
<1>3. DOMAIN m = {} /\ m \in [DOMAIN m -> 0 .. MaxWrites] BY <1>2
<1>4. m \in DriReading BY <1>3, DriReadings
<1>5. Drill!TypeOK
  <2>1. dManifest \in [Backups -> DriReading] BY <1>2, <1>4 DEF Drill!Init
  <2> QED BY <1>0, <1>1, <2>1 DEF Drill!Init, Drill!TypeOK, DriReading, Drill!NoFile, Drill!NoDrill
<1>6. DriBackups
  <2>1. \A b \in Backups : dManifest[b] = m BY <1>2 DEF Drill!Init
  <2> QED BY <1>3, <2>1 DEF Drill!Init, DriBackups, DriBackup, Drill!NoFile
<1>7. DriDrills BY DEF Drill!Init, DriDrills, DriDrill, Drill!NoDrill
<1>8. Drill!NothingIsLeft BY DEF Drill!Init, Drill!NothingIsLeft
<1> QED BY <1>5, <1>6, <1>7, <1>8 DEF DriInv

(* Drills go on while backups that are done stay as they are ...           *)
LEMMA DriDrillsStand ==
  ASSUME DriDrills, dDrill' = dDrill, dContent' = dContent, dDirty \subseteq dDirty',
         \A b \in Backups : dBackup[b] = "done" =>
           dBackup'[b] = "done" /\ dFile'[b] = dFile[b] /\ dManifest'[b] = dManifest[b]
  PROVE  DriDrills'
<1> SUFFICES ASSUME NEW d \in Requests PROVE DriDrill(d)' BY DEF DriDrills
<1>1. DriDrill(d) BY DEF DriDrills
<1>2. CASE dDrill[d].at = "idle" BY <1>2 DEF DriDrill
<1>3. CASE dDrill[d].at # "idle"
  <2>1. dDrill[d].of \in Backups /\ dBackup[dDrill[d].of] = "done" BY <1>1, <1>3 DEF DriDrill
  <2> QED BY <1>1, <2>1 DEF DriDrill
<1> QED BY <1>2, <1>3

(* ... and backups while the live data and they themselves do.             *)
LEMMA DriBackupsStand ==
  ASSUME DriBackups, UNCHANGED <<dLive, dFile, dManifest, dBackup, dDirty, dMixed>>
  PROVE  DriBackups'
BY DEF DriBackups, DriBackup

LEMMA DriWrite ==
  ASSUME DriInv, NEW S \in SUBSET Parts, Drill!Write(S)
  PROVE  DriInv'
<1> USE DEF DriInv
<1>1. /\ dWrites < MaxWrites /\ dWrites' = dWrites + 1
      /\ dLive' = [p \in Parts |-> IF p \in S THEN dWrites + 1 ELSE dLive[p]]
      /\ dDirty' = dDirty \cup {b \in Backups : dBackup[b] = "dumped"}
      /\ UNCHANGED <<dSchemas, dContent, dFile, dManifest, dBackup, dDrill, dLost, dMixed>>
  BY DEF Drill!Write
<1>2. Drill!TypeOK'
  <2>1. dWrites + 1 \in 0 .. MaxWrites BY <1>1, DriTypes, BusinessAssumption
  <2>2. dLive' \in Drill!Data BY <1>1, <2>1, DriTypes DEF Drill!Data
  <2>3. dDirty' \in SUBSET Backups BY <1>1, DriTypes
  <2> QED BY <1>1, <2>1, <2>2, <2>3, DriTypes, DriTyped
<1>3. DriBackups'
  <2> SUFFICES ASSUME NEW b \in Backups PROVE DriBackup(b)' BY DEF DriBackups
  <2>1. DriBackup(b) BY DEF DriBackups
  <2>2. b \notin dDirty' => b \notin dDirty /\ dBackup[b] # "dumped" BY <1>1
  <2> QED BY <1>1, <2>1, <2>2 DEF DriBackup
<1>4. DriDrills'
  <2>1. dDirty \subseteq dDirty' BY <1>1
  <2> QED BY <1>1, <2>1, DriDrillsStand
<1>5. Drill!NothingIsLeft' BY <1>1 DEF Drill!NothingIsLeft
<1> QED BY <1>2, <1>3, <1>4, <1>5

LEMMA DriDump ==
  ASSUME DriInv, NEW b \in Backups, Drill!Dump(b)
  PROVE  DriInv'
<1> USE DEF DriInv
<1>0. PICK f : f = [data |-> dLive, extra |-> dSchemas] OBVIOUS
<1>1. /\ dBackup[b] = "idle" /\ dFile' = [dFile EXCEPT ![b] = f]
      /\ dBackup' = [dBackup EXCEPT ![b] = "dumped"] /\ dMixed' = (dMixed \/ dSchemas # {})
      /\ UNCHANGED <<dLive, dWrites, dSchemas, dContent, dManifest, dDrill, dDirty, dLost>>
  BY <1>0 DEF Drill!Dump
<1>2. f \in DriFile /\ f.data = dLive /\ f.extra = dSchemas BY <1>0, DriTypes DEF DriFile
<1>3. \A c \in Backups : /\ dFile'[c] = IF c = b THEN f ELSE dFile[c]
                         /\ dBackup'[c] = IF c = b THEN "dumped" ELSE dBackup[c]
  BY <1>1, DriTypes
<1>4. Drill!TypeOK'
  <2>1. dFile' \in [Backups -> DriFile] BY <1>1, <1>2, DriTypes
  <2>2. dBackup' \in [Backups -> {"idle", "dumped", "done", "failed"}] BY <1>1, DriTypes
  <2>3. dMixed' \in BOOLEAN BY <1>1
  <2> QED BY <1>1, <2>1, <2>2, <2>3, DriTypes, DriTyped
<1>5. DriBackups'
  <2> SUFFICES ASSUME NEW c \in Backups PROVE DriBackup(c)' BY DEF DriBackups
  <2>1. DriBackup(c) BY DEF DriBackups
  <2>2. CASE c = b
    <3>1. dFile'[c] = f /\ dBackup'[c] = "dumped" BY <1>3, <2>2
    <3>2. DOMAIN dManifest[c] = {} BY <1>1, <2>1, <2>2 DEF DriBackup
    <3> QED BY <1>1, <1>2, <3>1, <3>2 DEF DriBackup
  <2>3. CASE c # b
    <3>1. dFile'[c] = dFile[c] /\ dBackup'[c] = dBackup[c] BY <1>3, <2>3
    <3> QED BY <1>1, <2>1, <3>1 DEF DriBackup
  <2> QED BY <2>2, <2>3
<1>6. DriDrills' BY <1>1, <1>3, DriDrillsStand
<1>7. Drill!NothingIsLeft' BY <1>1 DEF Drill!NothingIsLeft
<1> QED BY <1>4, <1>5, <1>6, <1>7

LEMMA DriReadPart ==
  ASSUME DriInv, NEW b \in Backups, NEW p \in Parts, Drill!ReadPart(b, p)
  PROVE  DriInv'
<1> USE DEF DriInv
<1>0. PICK old : old = dManifest[b] OBVIOUS
<1>a. PICK m : m = [q \in DOMAIN old \cup {p} |-> IF q = p THEN dLive[p] ELSE old[q]] OBVIOUS
<1>1. /\ dBackup[b] = "dumped" /\ p \notin DOMAIN old
      /\ dManifest' = [dManifest EXCEPT ![b] = m]
      /\ dBackup' = [dBackup EXCEPT ![b] = IF DOMAIN m = Parts THEN "done" ELSE "dumped"]
      /\ UNCHANGED <<dLive, dWrites, dSchemas, dContent, dFile, dDrill, dDirty, dLost, dMixed>>
  BY <1>0, <1>a DEF Drill!ReadPart
<1>2. old \in DriReading BY <1>0, DriTypes
<1>3. DOMAIN old \subseteq Parts /\ old \in [DOMAIN old -> 0 .. MaxWrites] BY <1>2, DriReadings
<1>4. m \in DriReading
  <2>1. dLive[p] \in 0 .. MaxWrites BY DriTypes DEF Drill!Data
  <2>2. DOMAIN m = DOMAIN old \cup {p} BY <1>a
  <2>3. DOMAIN m \subseteq Parts /\ m \in [DOMAIN m -> 0 .. MaxWrites] BY <1>a, <1>3, <2>1, <2>2
  <2> QED BY <2>3, DriReadings
<1>5. \A c \in Backups :
        /\ dManifest'[c] = IF c = b THEN m ELSE dManifest[c]
        /\ dBackup'[c] = IF c = b THEN (IF DOMAIN m = Parts THEN "done" ELSE "dumped") ELSE dBackup[c]
  BY <1>1, DriTypes
<1>6. Drill!TypeOK'
  <2>1. dManifest' \in [Backups -> DriReading] BY <1>1, <1>4, DriTypes
  <2>2. dBackup' \in [Backups -> {"idle", "dumped", "done", "failed"}] BY <1>1, DriTypes
  <2> QED BY <1>1, <2>1, <2>2, DriTypes, DriTyped
<1>7. DriBackups'
  <2> SUFFICES ASSUME NEW c \in Backups PROVE DriBackup(c)' BY DEF DriBackups
  <2>1. DriBackup(c) BY DEF DriBackups
  <2>2. CASE c = b
    <3>1. /\ dManifest'[c] = m /\ dBackup'[c] \in {"dumped", "done"}
          /\ dBackup'[c] = "done" => DOMAIN m = Parts
      BY <1>5, <2>2
    <3>2. c \notin dDirty => dFile[c].data = dLive BY <1>1, <2>1, <2>2 DEF DriBackup
    <3>3. c \notin dDirty => \A q \in DOMAIN m : m[q] = dFile[c].data[q]
      BY <1>0, <1>a, <1>1, <2>1, <2>2, <3>2 DEF DriBackup
    <3> QED BY <1>1, <2>1, <3>1, <3>2, <3>3 DEF DriBackup
  <2>3. CASE c # b
    <3>1. dManifest'[c] = dManifest[c] /\ dBackup'[c] = dBackup[c] BY <1>5, <2>3
    <3> QED BY <1>1, <2>1, <3>1 DEF DriBackup
  <2> QED BY <2>2, <2>3
<1>8. DriDrills' BY <1>1, <1>5, DriDrillsStand
<1>9. Drill!NothingIsLeft' BY <1>1 DEF Drill!NothingIsLeft
<1> QED BY <1>6, <1>7, <1>8, <1>9

LEMMA DriBackupFails ==
  ASSUME DriInv, NEW b \in Backups, Drill!BackupFails(b)
  PROVE  DriInv'
<1> USE DEF DriInv
<1>1. /\ dBackup[b] = "dumped" /\ dBackup' = [dBackup EXCEPT ![b] = "failed"]
      /\ UNCHANGED <<dLive, dWrites, dSchemas, dContent, dFile, dManifest, dDrill, dDirty, dLost, dMixed>>
  BY DEF Drill!BackupFails
<1>2. \A c \in Backups : dBackup'[c] = IF c = b THEN "failed" ELSE dBackup[c] BY <1>1, DriTypes
<1>3. dBackup' \in [Backups -> {"idle", "dumped", "done", "failed"}] BY <1>1, DriTypes
<1>4. Drill!TypeOK' BY <1>1, <1>3, DriTypes, DriTyped
<1>5. DriBackups' BY <1>1, <1>2 DEF DriBackups, DriBackup
<1>6. DriDrills' BY <1>1, <1>2, DriDrillsStand
<1>7. Drill!NothingIsLeft' BY <1>1 DEF Drill!NothingIsLeft
<1> QED BY <1>4, <1>5, <1>6, <1>7

(* A drill goes to x.                                                      *)
LEMMA DriGoes ==
  ASSUME DriInv, NEW d \in Requests, NEW x \in DriRecord, dDrill' = [dDrill EXCEPT ![d] = x],
         \A e \in Requests \ {d} : dContent'[e] = dContent[e],
         dContent' \in [Requests -> Drill!Data], dSchemas' \in SUBSET Requests,
         dLost' \in SUBSET Requests, dLost \subseteq dLost',
         UNCHANGED <<dLive, dWrites, dFile, dManifest, dBackup, dDirty, dMixed>>,
         x.at # "idle" => x.of \in Backups /\ dBackup[x.of] = "done",
         x.at = "restored" => dContent'[d] = dFile[x.of].data,
         x.at = "passed" => dManifest[x.of] = dFile[x.of].data,
         x.at = "mismatch" => x.of \in dDirty,
         \A e \in dSchemas' \ dSchemas : e = d \/ dMixed,
         d \in dSchemas' => x.at \in {"created", "restored"} \/ d \in dLost' \/ dMixed
  PROVE  DriInv'
<1> USE DEF DriInv
<1>1. \A e \in Requests : dDrill'[e] = IF e = d THEN x ELSE dDrill[e] BY DriTypes
<1>2. Drill!TypeOK'
  <2>1. dDrill' \in [Requests -> DriRecord] BY DriTypes
  <2> QED BY <2>1, DriTypes, DriTyped
<1>3. DriBackups' BY DriBackupsStand
<1>4. DriDrills'
  <2> SUFFICES ASSUME NEW e \in Requests PROVE DriDrill(e)' BY DEF DriDrills
  <2>1. CASE e = d
    <3>1. dDrill'[e] = x BY <1>1, <2>1
    <3> QED BY <2>1, <3>1 DEF DriDrill
  <2>2. CASE e # d
    <3>1. dDrill'[e] = dDrill[e] /\ dContent'[e] = dContent[e] BY <1>1, <2>2
    <3>2. DriDrill(e) BY DEF DriDrills
    <3> QED BY <3>1, <3>2 DEF DriDrill
  <2> QED BY <2>1, <2>2
<1>5. Drill!NothingIsLeft'
  <2> SUFFICES ASSUME NEW e \in dSchemas'
               PROVE  dDrill'[e].at \in {"created", "restored"} \/ e \in dLost' \/ dMixed'
    BY DEF Drill!NothingIsLeft
  <2>1. CASE e = d
    <3>1. dDrill'[e] = x BY <1>1, <2>1
    <3> QED BY <2>1, <3>1
  <2>2. CASE e # d
    <3>1. dDrill'[e] = dDrill[e] BY <1>1, <2>2
    <3>2. CASE e \in dSchemas BY <3>1, <3>2 DEF Drill!NothingIsLeft
    <3>3. CASE e \notin dSchemas BY <2>2, <3>3
    <3> QED BY <3>2, <3>3
  <2> QED BY <2>1, <2>2
<1> QED BY <1>2, <1>3, <1>4, <1>5

(* The states of a drill before and after a step.                          *)
LEMMA DriNext ==
  ASSUME DriInv, NEW d \in Requests, NEW s \in {"created", "restored", "passed", "mismatch", "failed"},
         dDrill[d].at # "idle", dDrill' = [dDrill EXCEPT ![d].at = s]
  PROVE  \E x \in DriRecord : /\ dDrill' = [dDrill EXCEPT ![d] = x] /\ x.at = s /\ x.of = dDrill[d].of
                              /\ x.of \in Backups /\ dBackup[x.of] = "done"
<1>1. dDrill \in [Requests -> DriRecord] BY DriTypes DEF DriInv
<1>2. PICK x : x = [dDrill[d] EXCEPT !.at = s] OBVIOUS
<1>3. x \in DriRecord /\ x.at = s /\ x.of = dDrill[d].of BY <1>1, <1>2 DEF DriRecord
<1>4. dDrill' = [dDrill EXCEPT ![d] = x] BY <1>2
<1>5. dDrill[d].of \in Backups /\ dBackup[dDrill[d].of] = "done" BY DEF DriInv, DriDrills, DriDrill
<1> QED BY <1>3, <1>4, <1>5

LEMMA DriBegin ==
  ASSUME DriInv, NEW d \in Requests, NEW b \in Backups, Drill!Begin(d, b)
  PROVE  DriInv'
<1>0. PICK x : x = [at |-> "begun", of |-> b] OBVIOUS
<1>1. /\ dDrill[d].at = "idle" /\ dBackup[b] = "done" /\ dDrill' = [dDrill EXCEPT ![d] = x]
      /\ UNCHANGED <<dLive, dWrites, dSchemas, dContent, dFile, dManifest, dBackup, dDirty, dLost, dMixed>>
  BY <1>0 DEF Drill!Begin
<1>2. x \in DriRecord /\ x.at = "begun" /\ x.of = b BY <1>0 DEF DriRecord
<1>3. d \in dSchemas => d \in dLost \/ dMixed BY <1>1 DEF DriInv, Drill!NothingIsLeft
<1>4. /\ dContent' \in [Requests -> Drill!Data] /\ dSchemas' \in SUBSET Requests
      /\ dLost' \in SUBSET Requests
  BY <1>1, DriTypes DEF DriInv
<1> QED BY <1>1, <1>2, <1>3, <1>4, DriGoes

LEMMA DriCreateSchema ==
  ASSUME DriInv, NEW d \in Requests, Drill!CreateSchema(d)
  PROVE  DriInv'
<1>1. /\ dDrill[d].at # "idle" /\ dSchemas' = dSchemas \cup {d}
      /\ dDrill' = [dDrill EXCEPT ![d].at = "created"]
      /\ UNCHANGED <<dLive, dWrites, dContent, dFile, dManifest, dBackup, dDirty, dLost, dMixed>>
  BY DEF Drill!CreateSchema
<1>2. PICK x \in DriRecord : /\ dDrill' = [dDrill EXCEPT ![d] = x] /\ x.at = "created"
                             /\ x.of \in Backups /\ dBackup[x.of] = "done"
  BY <1>1, DriNext
<1>3. /\ dContent' \in [Requests -> Drill!Data] /\ dSchemas' \in SUBSET Requests
      /\ dLost' \in SUBSET Requests
  BY <1>1, DriTypes DEF DriInv
<1> QED BY <1>1, <1>2, <1>3, DriGoes

LEMMA DriRestore ==
  ASSUME DriInv, NEW d \in Requests, Drill!Restore(d)
  PROVE  DriInv'
<1>0. PICK b : b = dDrill[d].of OBVIOUS
<1>1. /\ dDrill[d].at # "idle" /\ dSchemas' = dSchemas \cup dFile[b].extra
      /\ dContent' = [dContent EXCEPT ![d] = dFile[b].data]
      /\ dDrill' = [dDrill EXCEPT ![d].at = "restored"]
      /\ UNCHANGED <<dLive, dWrites, dFile, dManifest, dBackup, dDirty, dLost, dMixed>>
  BY <1>0 DEF Drill!Restore
<1>2. PICK x \in DriRecord : /\ dDrill' = [dDrill EXCEPT ![d] = x] /\ x.at = "restored" /\ x.of = b
                             /\ x.of \in Backups /\ dBackup[x.of] = "done"
  BY <1>0, <1>1, DriNext
<1>3. dFile[b] \in DriFile BY <1>2, DriTypes DEF DriInv
<1>4. /\ dContent' \in [Requests -> Drill!Data] /\ dSchemas' \in SUBSET Requests
      /\ dLost' \in SUBSET Requests
      /\ dContent'[d] = dFile[b].data /\ \A e \in Requests \ {d} : dContent'[e] = dContent[e]
  BY <1>1, <1>3, DriTypes DEF DriInv, DriFile
<1>5. dFile[b].extra # {} => dMixed BY <1>2 DEF DriInv, DriBackups, DriBackup
<1>6. \A e \in dSchemas' \ dSchemas : e = d \/ dMixed BY <1>1, <1>5
<1> QED BY <1>1, <1>2, <1>4, <1>6, DriGoes

(* A comparison that fails shows a write during the backup.                *)
LEMMA DriVerify ==
  ASSUME DriInv, NEW d \in Requests, Drill!Verify(d)
  PROVE  DriInv'
<1>0. PICK b : b = dDrill[d].of OBVIOUS
<1>a. PICK s : s = IF Drill!Reconciles(d) THEN "passed" ELSE "mismatch" OBVIOUS
<1>1. /\ dDrill[d].at = "restored" /\ dSchemas' = dSchemas \ {d}
      /\ dDrill' = [dDrill EXCEPT ![d].at = s]
      /\ UNCHANGED <<dLive, dWrites, dContent, dFile, dManifest, dBackup, dDirty, dLost, dMixed>>
  BY <1>a DEF Drill!Verify
<1>2. PICK x \in DriRecord : /\ dDrill' = [dDrill EXCEPT ![d] = x] /\ x.at = s /\ x.of = b
                             /\ x.of \in Backups /\ dBackup[x.of] = "done"
  BY <1>0, <1>a, <1>1, DriNext
<1>3. dContent[d] = dFile[b].data BY <1>0, <1>1 DEF DriInv, DriDrills, DriDrill
<1>4. DriBackup(b) /\ DOMAIN dManifest[b] = Parts BY <1>2 DEF DriInv, DriBackups, DriBackup
<1>5. dManifest[b] \in [Parts -> 0 .. MaxWrites] /\ dFile[b].data \in [Parts -> 0 .. MaxWrites]
  <2>1. dManifest[b] \in DriReading /\ dFile[b] \in DriFile BY <1>2, DriTypes DEF DriInv
  <2> QED BY <1>4, <2>1, DriReadings DEF DriFile, Drill!Data
<1>6. s = "passed" => dManifest[b] = dFile[b].data
  <2> SUFFICES ASSUME s = "passed" PROVE dManifest[b] = dFile[b].data OBVIOUS
  <2>1. \A p \in Parts : dFile[b].data[p] = dManifest[b][p]
    BY <1>0, <1>a, <1>3 DEF Drill!Reconciles
  <2> QED BY <1>5, <2>1
<1>7. s = "mismatch" => b \in dDirty
  BY <1>0, <1>a, <1>2, <1>3, <1>4 DEF Drill!Reconciles, DriBackup
<1>8. /\ dContent' \in [Requests -> Drill!Data] /\ dSchemas' \in SUBSET Requests
      /\ dLost' \in SUBSET Requests
  BY <1>1, DriTypes DEF DriInv
<1>9. s \in {"passed", "mismatch"} BY <1>a
<1> QED BY <1>1, <1>2, <1>6, <1>7, <1>8, <1>9, DriGoes

LEMMA DriDrillFails ==
  ASSUME DriInv, NEW d \in Requests, NEW made \in SUBSET Requests, Drill!DrillFails(d, made)
  PROVE  DriInv'
<1>0. PICK b : b = dDrill[d].of OBVIOUS
<1>1. /\ dDrill[d].at \in {"begun", "created", "restored"}
      /\ made \subseteq (IF dDrill[d].at = "created" THEN dFile[b].extra \ dSchemas ELSE {})
      /\ dDrill' = [dDrill EXCEPT ![d].at = "failed"]
      /\ dSchemas' = (dSchemas \cup made) \ (IF dDrill[d].at = "begun" THEN {} ELSE {d})
      /\ UNCHANGED <<dLive, dWrites, dContent, dFile, dManifest, dBackup, dDirty, dLost, dMixed>>
  BY <1>0 DEF Drill!DrillFails
<1>2. PICK x \in DriRecord : /\ dDrill' = [dDrill EXCEPT ![d] = x] /\ x.at = "failed" /\ x.of = b
                             /\ x.of \in Backups /\ dBackup[x.of] = "done"
  BY <1>0, <1>1, DriNext
<1>3. made # {} => dMixed BY <1>1, <1>2 DEF DriInv, DriBackups, DriBackup
<1>4. /\ dContent' \in [Requests -> Drill!Data] /\ dSchemas' \in SUBSET Requests
      /\ dLost' \in SUBSET Requests
  BY <1>1, DriTypes DEF DriInv
<1>5. \A e \in dSchemas' \ dSchemas : e = d \/ dMixed BY <1>1, <1>3
<1>6. d \in dSchemas' => d \in dLost' \/ dMixed
  <2>1. CASE dDrill[d].at = "begun" BY <1>1, <2>1 DEF DriInv, Drill!NothingIsLeft
  <2>2. CASE dDrill[d].at # "begun" BY <1>1, <2>2
  <2> QED BY <2>1, <2>2
<1> QED BY <1>1, <1>2, <1>4, <1>5, <1>6, DriGoes

LEMMA DriDrillLost ==
  ASSUME DriInv, NEW d \in Requests, Drill!DrillLost(d)
  PROVE  DriInv'
<1>1. /\ dDrill[d].at # "idle" /\ dDrill' = [dDrill EXCEPT ![d].at = "failed"]
      /\ dLost' = dLost \cup {d}
      /\ UNCHANGED <<dLive, dWrites, dSchemas, dContent, dFile, dManifest, dBackup, dDirty, dMixed>>
  BY DEF Drill!DrillLost
<1>2. PICK x \in DriRecord : /\ dDrill' = [dDrill EXCEPT ![d] = x] /\ x.at = "failed"
                             /\ x.of \in Backups /\ dBackup[x.of] = "done"
  BY <1>1, DriNext
<1>3. /\ dContent' \in [Requests -> Drill!Data] /\ dSchemas' \in SUBSET Requests
      /\ dLost' \in SUBSET Requests /\ dLost \subseteq dLost' /\ d \in dLost'
  BY <1>1, DriTypes DEF DriInv
<1> QED BY <1>1, <1>2, <1>3, DriGoes

LEMMA DriStep == DriInv /\ [Drill!Next]_(Drill!vars) => DriInv'
<1> SUFFICES ASSUME DriInv, [Drill!Next]_(Drill!vars) PROVE DriInv' OBVIOUS
<1>1. CASE UNCHANGED Drill!vars
  <2>1. Drill!TypeOK' BY <1>1, DriTypes, DriTyped DEF DriInv, Drill!vars
  <2> QED BY <1>1, <2>1 DEF DriInv, Drill!vars, DriBackups, DriBackup, DriDrills, DriDrill, Drill!NothingIsLeft
<1> QED
  BY <1>1, DriWrite, DriDump, DriReadPart, DriBackupFails, DriBegin, DriCreateSchema, DriRestore,
     DriVerify, DriDrillFails, DriDrillLost
  DEF Drill!Next

LEMMA DriSafe == DriInv => Drill!DrillsSafe
BY DEF DriInv, DriDrills, DriDrill, Drill!DrillsSafe, Drill!PassedIsFaithful, Drill!QuietBackupReconciles

LEMMA DriMoves == [MCNext]_allVars => [Drill!Next]_(Drill!vars)
<1> SUFFICES ASSUME MCNext PROVE [Drill!Next]_(Drill!vars)
  BY DEF allVars, DrillVars, Drill!vars
<1>1. CASE focus = "drills" BY <1>1 DEF MCNext
<1>2. CASE focus # "drills" BY <1>2 DEF MCNext, Keep, DrillVars, Drill!vars
<1> QED BY <1>1, <1>2

----------------------------------------------------------------------------
(* The composite.                                                          *)

BusinessInv == RepInv /\ MetInv /\ AleInv /\ KnoInv /\ InsInv /\ DriInv /\ LogInv

LEMMA BusinessAlways == MCSpec => []BusinessInv
<1>1. MCInit => BusinessInv
  BY RepInit, MetInit, AleInit, KnoInit, InsInit, DriInit, LogInit DEF MCInit, BusinessInv
<1>2. BusinessInv /\ [MCNext]_allVars => BusinessInv'
  <2> SUFFICES ASSUME BusinessInv, [MCNext]_allVars PROVE BusinessInv' OBVIOUS
  <2>1. RepInv' BY RepMoves, RepStep DEF BusinessInv
  <2>2. MetInv' BY MetMoves, MetStep DEF BusinessInv
  <2>3. AleInv' BY AleMoves, AleStep DEF BusinessInv
  <2>4. KnoInv' BY KnoMoves, KnoStep DEF BusinessInv
  <2>5. InsInv' BY InsMoves, InsStep DEF BusinessInv
  <2>6. DriInv' BY DriMoves, DriStep DEF BusinessInv
  <2>7. LogInv' BY LogMoves, LogStep DEF BusinessInv
  <2> QED BY <2>1, <2>2, <2>3, <2>4, <2>5, <2>6, <2>7 DEF BusinessInv
<1> QED BY <1>1, <1>2, PTL DEF MCSpec

(* A published report version has an approval of its own and frozen        *)
(* evidence, whatever overlaps; without overlaps a report tells the status *)
(* of its current version, and a metric version under review or published  *)
(* defines what was analysed and the catalog is the published version      *)
(* (reports.py, metrics.py).                                               *)
THEOREM GovernedVersionsAreSafe == MCSpec => []GovernedVersionsSafe
<1>1. BusinessInv => GovernedVersionsSafe BY RepSafe, MetSafe DEF BusinessInv, GovernedVersionsSafe
<1> QED BY <1>1, BusinessAlways, PTL

(* An alert is generated once, whatever overlaps; without overlaps its     *)
(* times agree with its status and its timeline is one chain (alerts.py).  *)
THEOREM AlertsAreSafe == MCSpec => []AlertSafe
<1>1. BusinessInv => AlertSafe BY AleSafe DEF BusinessInv, AlertSafe
<1> QED BY <1>1, BusinessAlways, PTL

(* What an installation returned for is in force as one, an installation   *)
(* that is not interrupted leaves nothing half-way, and the data in force  *)
(* was released, whatever overlaps (package adapters,                      *)
(* scenario_packages.py).                                                  *)
THEOREM InstallsAreSafe == MCSpec => []InstallSafe
<1>1. BusinessInv => InstallSafe BY InsSafe DEF BusinessInv, InstallSafe
<1> QED BY <1>1, BusinessAlways, PTL

(* A restore drill that passed shows that the manifest describes the dump, *)
(* one that found a mismatch had a write come into its backup, and a drill *)
(* that ended leaves no schema unless a dump took it along                 *)
(* (private_deployment.py).                                                *)
THEOREM DrillsAreSafe == MCSpec => []DrillsSafe
<1>1. BusinessInv => DrillsSafe BY DriSafe DEF BusinessInv, DrillsSafe
<1> QED BY <1>1, BusinessAlways, PTL

(* One login opens one session, a token is on record before it is handed   *)
(* out, nothing revoked before a request began admits it, and a logout     *)
(* recorded as a success has ended both sessions (oidc.py, identity.py).   *)
THEOREM SessionsAreSafe == MCSpec => []SessionsSafe
<1>1. BusinessInv => SessionsSafe BY LogSafe DEF BusinessInv, SessionsSafe
<1> QED BY <1>1, BusinessAlways, PTL

(* A document stays published until it is withdrawn and an active package  *)
(* is disabled by the activation of another, whatever overlaps; without    *)
(* overlaps one version of a document is published, what is retired stays  *)
(* so, and a published report stays as it is (publication.py,              *)
(* scenario_packages.py, reports.py).                                      *)
THEOREM PublicationStepsHold == MCSpec => PublicationSteps
<1>1. BusinessInv /\ [MCNext]_allVars =>
        [Knowledge!Published # {} /\ Knowledge!Published' = {} => kWithdrawn']_(Knowledge!vars)
  BY KnoMoves, KnoStays DEF BusinessInv
<1>2. BusinessInv => (focus = "knowledge" => Knowledge!TypeOK /\ Knowledge!CalmOnePublished)
  BY KnoSafe DEF BusinessInv
<1>3. BusinessInv /\ [MCNext]_allVars =>
        [\A v \in Knowledge!Versions : kCalm /\ kStatus[v] = "RETIRED" => kStatus'[v] = "RETIRED"]_(Knowledge!vars)
  BY KnoMoves, KnoFinal DEF BusinessInv
<1>4. BusinessInv /\ [MCNext]_allVars =>
        [\A v \in Reports!Versions :
           rCalm /\ rVersion[v] = "PUBLISHED" => rVersion'[v] = "PUBLISHED"]_(Reports!vars)
  BY RepMoves, RepFinal DEF BusinessInv
<1>5. BusinessInv /\ [MCNext]_allVars =>
        [\A v \in Packages : iPackage[v] = "ACTIVE" /\ iPackage'[v] = "DISABLED" =>
           \E w \in Packages \ {v} : iPackage'[w] = "ACTIVE"]_(Install!vars)
  BY InsMoves, InsReplaced DEF BusinessInv
<1> QED
  BY <1>1, <1>2, <1>3, <1>4, <1>5, BusinessAlways, PTL
     DEF MCSpec, PublicationSteps, Knowledge!StaysPublished, Knowledge!CalmRetiredIsFinal,
         Reports!CalmPublishedIsFinal, Install!DisabledIsReplaced
=============================================================================
