SPECIFICATION Spec
CONSTANTS
  Gates = {g1}
  Blockers = {g1}
  Proven = {}
  Deciders = {j1, j2}
  Decided = {"OPEN", "PASSED"}
  Evidences = {"none", "approval"}
  MaxDecisions = 3
INVARIANT ClearedHasEvidence
CHECK_DEADLOCK FALSE
