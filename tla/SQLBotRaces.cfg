SPECIFICATION Spec
CONSTANTS
  r1 = r1
  r2 = r2
  Requests = {r1, r2}
  Modes <- MCModes
  Threshold = 2
  MaxSessions = 3
INVARIANTS
  RuntimeSafe
  SQLBotAnswersAreGuarded
PROPERTIES
  EveryQuestionEnds
CHECK_DEADLOCK FALSE
