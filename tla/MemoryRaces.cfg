SPECIFICATION MCSpec
CONSTANTS
  MaxVersion = 2
  Episodes = {e1}
  Candidates = {c1, c2}
  Values = {v1, v2}
  Sessions = {q1, q2}
  Kept = {r1, r2}
  Tasks = {t1}
  Workers = {w1, w2}
  MaxAttempts = 2
  Users = {"u1", "u2"}
  Scenarios = {"charging", "sales"}
  Charging = "charging"
  Ranges = {"d1", "d2"}
  RunIds = {"run1", "run2"}
  MaxSwitches = 2
CHECK_DEADLOCK FALSE
SYMMETRY RecordSymmetry
CONSTRAINT FactBounds
INVARIANTS
  FactsSafe
  MaintainSafe
  WorkingSafe
  ConversationSafe
  RunMemorySafe
PROPERTIES
  EndedStaysEnded
