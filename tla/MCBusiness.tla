----------------------------- MODULE MCBusiness -----------------------------
(* The business objects whose versions are reviewed and published, for     *)
(* TLC: ingestion runs, reports, metrics, alerts and knowledge documents;  *)
(* and the operations around them: scenario installations, backups with    *)
(* their restore drills, and the logins people work under.  They share no  *)
(* state, so a behaviour moves one kind and keeps the rest.                *)
EXTENDS DataIntegration, Sequences, TLC

CONSTANTS
  MaxReports,                            \* of ReportLifecycle
  MaxMetrics, Definitions,               \* of MetricGovernance
  MaxTimeline,                           \* of BusinessAlerts
  MaxDocuments,                          \* of KnowledgePublication
  Packages, MaxInstalls,                 \* of ScenarioInstall
  Parts, Backups, MaxWrites,             \* of BackupDrill
  States, Callbacks, Sids                \* of IdentitySessions

(* There is a first version of each object, and the marks for no value and *)
(* for a column that is not written are no values.                         *)
ASSUME BusinessAssumption ==
  /\ MaxReports \in Nat \ {0} /\ MaxMetrics \in Nat \ {0} /\ MaxDocuments \in Nat
  /\ MaxTimeline \in Nat /\ MaxInstalls \in Nat /\ MaxWrites \in Nat
  /\ Definitions \cap {"none", "KEEP"} = {}
  /\ "none" \notin Packages /\ "none" \notin States

VARIABLES
  focus,
  rReport, rCurrent, rVersion, rReviewed, rFrozen, rCalm, rJob,
  mStatus, mDefinition, mAnalysed, mCatalog, mCalm, mJob,
  aStatus, aTimes, aAttempts, aTimeline, aCalm, aJob,
  kStatus, kWithdrawn, kCalm, kJob,
  iPackage, iData, iSemantic, iPointer, iUsed, iInstalls, iJob, iLast, iCalm, iStopped,
  dLive, dWrites, dSchemas, dContent, dFile, dManifest, dBackup, dDrill, dDirty, dLost, dMixed,
  oTransaction, oLive, oUpstream, oOrigin, oIssued, oLog, oInForce, oCallback, oRequest, oEnded

Reports == INSTANCE ReportLifecycle WITH
  MaxVersions <- MaxReports, Requests <- Requests, report <- rReport,
  current <- rCurrent, version <- rVersion, reviewed <- rReviewed,
  frozen <- rFrozen, calm <- rCalm, job <- rJob

Metrics == INSTANCE MetricGovernance WITH
  MaxVersions <- MaxMetrics, Definitions <- Definitions, NoDef <- "none",
  Requests <- Requests, status <- mStatus, definition <- mDefinition,
  analysed <- mAnalysed, catalog <- mCatalog, calm <- mCalm, job <- mJob

Alerts == INSTANCE BusinessAlerts WITH
  MaxTimeline <- MaxTimeline, Requests <- Requests, status <- aStatus,
  times <- aTimes, attempts <- aAttempts, timeline <- aTimeline,
  calm <- aCalm, job <- aJob

Knowledge == INSTANCE KnowledgePublication WITH
  MaxVersions <- MaxDocuments, Requests <- Requests, status <- kStatus,
  withdrawn <- kWithdrawn, calm <- kCalm, job <- kJob

Install == INSTANCE ScenarioInstall WITH
  Versions <- Packages, Installers <- Requests, MaxInstalls <- MaxInstalls,
  package <- iPackage, data <- iData, semantic <- iSemantic,
  pointer <- iPointer, used <- iUsed, installs <- iInstalls, job <- iJob,
  last <- iLast, calm <- iCalm, stopped <- iStopped

Drill == INSTANCE BackupDrill WITH
  Parts <- Parts, Backups <- Backups,
  Drills <- Requests, MaxWrites <- MaxWrites, live <- dLive, writes <- dWrites,
  schemas <- dSchemas, content <- dContent, file <- dFile,
  manifest <- dManifest, backup <- dBackup, drill <- dDrill,
  dirty <- dDirty, lost <- dLost, mixed <- dMixed

Logins == INSTANCE IdentitySessions WITH
  States <- States, Callbacks <- Callbacks, Sids <- Sids,
  Requests <- Requests, transaction <- oTransaction, live <- oLive,
  upstream <- oUpstream, origin <- oOrigin, issued <- oIssued, log <- oLog,
  inForce <- oInForce, callback <- oCallback, request <- oRequest,
  ended <- oEnded

ReportsVars == <<rReport, rCurrent, rVersion, rReviewed, rFrozen, rCalm, rJob>>
MetricsVars == <<mStatus, mDefinition, mAnalysed, mCatalog, mCalm, mJob>>
AlertsVars == <<aStatus, aTimes, aAttempts, aTimeline, aCalm, aJob>>
KnowledgeVars == <<kStatus, kWithdrawn, kCalm, kJob>>
InstallVars == <<iPackage, iData, iSemantic, iPointer, iUsed, iInstalls, iJob, iLast, iCalm,
                 iStopped>>
DrillVars == <<dLive, dWrites, dSchemas, dContent, dFile, dManifest, dBackup, dDrill, dDirty,
               dLost, dMixed>>
LoginVars == <<oTransaction, oLive, oUpstream, oOrigin, oIssued, oLog, oInForce, oCallback,
               oRequest, oEnded>>

(* The cfg gives records, backups and session ids the same names, which    *)
(* are interchangeable in each use.                                        *)
ObjectSymmetry == Permutations(Requests) \cup Permutations(Stations)

MCInit ==
  /\ focus \in {"ingestion", "reports", "metrics", "alerts", "knowledge", "install",
               "drills", "logins"}
  /\ Init /\ Reports!Init /\ Metrics!Init /\ Alerts!Init /\ Knowledge!Init
  /\ Install!Init /\ Drill!Init /\ Logins!Init
  /\ focus # "metrics" => mCatalog = "none"

Keep(kind, v) == IF focus = kind THEN TRUE ELSE UNCHANGED v

MCNext ==
  /\ UNCHANGED focus
  /\ Keep("ingestion", vars) /\ Keep("reports", ReportsVars)
  /\ Keep("metrics", MetricsVars) /\ Keep("alerts", AlertsVars)
  /\ Keep("knowledge", KnowledgeVars) /\ Keep("install", InstallVars)
  /\ Keep("drills", DrillVars) /\ Keep("logins", LoginVars)
  /\ \/ focus = "ingestion" /\ Next
     \/ focus = "reports" /\ Reports!Next
     \/ focus = "metrics" /\ Metrics!Next
     \/ focus = "alerts" /\ Alerts!Next
     \/ focus = "knowledge" /\ Knowledge!Next
     \/ focus = "install" /\ Install!Next
     \/ focus = "drills" /\ Drill!Next
     \/ focus = "logins" /\ Logins!Next

allVars == <<focus, vars, ReportsVars, MetricsVars, AlertsVars, KnowledgeVars, InstallVars,
             DrillVars, LoginVars>>
MCSpec == MCInit /\ [][MCNext]_allVars

----------------------------------------------------------------------------
(* Of the components that have not the focus nothing changes, so each      *)
(* invariant is asked of the one that moves.                               *)

(* A published report version has an approval of its own and its evidence  *)
(* is frozen, however requests overlap; without overlapping ones a report  *)
(* tells the status of its current version, and a metric version under     *)
(* review, approved or published defines what its impact analysis was made *)
(* of, and the catalog is the published version (reports.py, metrics.py).  *)
GovernedVersionsSafe ==
  /\ focus = "reports" => Reports!ReportsSafe
  /\ focus = "metrics" => Metrics!MetricsSafe

(* An alert is generated once, however requests overlap; without           *)
(* overlapping ones its times agree with its status and its timeline is    *)
(* one chain (alerts.py).                                                  *)
AlertSafe == focus = "alerts" => Alerts!AlertSafe

(* What an installation of a scenario returned for is in force as one: its *)
(* package, its data and its semantic version; the data in force was       *)
(* released whatever overlaps (package adapters, scenario_packages.py).    *)
InstallSafe == focus = "install" => Install!InstallSafe

(* A restore drill that passed shows that the manifest describes the dump, *)
(* one that found a mismatch had a write come into its backup, and no      *)
(* restore schema stays of a drill that ended (private_deployment.py).     *)
DrillsSafe == focus = "drills" => Drill!DrillsSafe

(* One login opens one session, a token is on record before it is handed   *)
(* out, nothing revoked before a request began admits it, and a logout     *)
(* recorded as a success has ended both sessions (oidc.py, identity.py).   *)
SessionsSafe == focus = "logins" => Logins!SessionsSafe

(* A published document keeps a published version until it is withdrawn,   *)
(* and an active scenario package is only disabled by the commit that      *)
(* activates another, however requests overlap; without overlapping ones   *)
(* one version of a document is published, a retired version never comes   *)
(* back, and a published report version stays as it is (publication.py,    *)
(* scenario_packages.py activate, models.py of business_loop).             *)
PublicationSteps ==
  /\ Knowledge!StaysPublished
  /\ [](focus = "knowledge" => Knowledge!TypeOK /\ Knowledge!CalmOnePublished)
  /\ Knowledge!CalmRetiredIsFinal
  /\ Reports!CalmPublishedIsFinal
  /\ Install!DisabledIsReplaced
=============================================================================
