SPECIFICATION Spec
CONSTANTS
  Records = {r1, r2}
  Candidates = {m1}
  Registry = registry
  Clients = {c1}
  Workers = {w1}
  MaxAttempts = 1
  MaxCrashes = 1
  MaxRequests = 2
  MaxHolds = 2
INVARIANT DeletedHasDurableOutbox
