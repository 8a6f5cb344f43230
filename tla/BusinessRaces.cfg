SPECIFICATION MCSpec
CONSTANTS
  MaxRuns = 2
  Stations = {s1, s2}
  Requests = {q1, q2}
  MaxReports = 3
  MaxMetrics = 2
  Definitions = {"d1", "d2"}
  MaxTimeline = 6
  MaxDocuments = 3
  Packages = {"v1", "v2"}
  MaxInstalls = 3
  Parts = {"counts", "fingerprint"}
  Backups = {s1, s2}
  MaxWrites = 1
  States = {"t1", "t2"}
  Callbacks = {"c1", "c2"}
  Sids = {s1, s2}
CHECK_DEADLOCK FALSE
SYMMETRY ObjectSymmetry
INVARIANTS
  IntegrationSafe
  GovernedVersionsSafe
  AlertSafe
  InstallSafe
  DrillsSafe
  SessionsSafe
PROPERTIES
  SnapshotIsImmutable
  PublicationSteps
