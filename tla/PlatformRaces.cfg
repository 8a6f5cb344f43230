SPECIFICATION MCSpec
CONSTANTS
  MaxSources = 3
  MaxCreds = 2
  Checks = {"connection"}
  Requests = {q1, q2}
  MaxReleases = 4
  Procedures = {"p1", "p2"}
  Skills = {"s1", "s2"}
  ProcedureOf <- SkillOf
  RollbackTo <- Earlier
  PolicyRows = {"a1", "d1", "d2"}
  CodeOf <- PolicyCode
  DenyCodes = {"deny"}
  GateCodes = {"g1", "g2"}
  Blockers = {"g1", "g2"}
  Proven = {"g2"}
  Decided = {"OPEN", "PASSED", "WAIVED"}
  Evidences = {"none", "approval"}
  MaxDecisions = 3
  AlertRows = {"a1", "a2", "a3"}
  AlertThreshold = 3
  MaxEvents = 6
  Models = {"m1", "m2"}
  Routes <- ModelRoutes
  FailureThreshold = 2
  CallAttempts = 2
  Keys = {"k1", "k2"}
  PostAttempts = 2
  PostThreshold = 2
  MaxBindings = 3
  Codes = {"c1", "c2"}
  MaxDeployments = 1
  MaxStarts = 3
CHECK_DEADLOCK FALSE
SYMMETRY RegistrySymmetry
CONSTRAINT RegistryBounds
INVARIANTS
  SourcesSafe
  ReleasesSafe
  ReviewedSafe
  GatesSafe
  CountersSafe
  BoundSourcesSafe
PROPERTIES
  RegistrySteps
