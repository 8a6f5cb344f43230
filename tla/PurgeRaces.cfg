SPECIFICATION MCSpec
CONSTANTS
  Records = {r1, r2}
  Candidates = {m1}
  Registry = registry
  Clients = {c1}
  Workers = {w1}
  MaxAttempts = 2
  MaxCrashes = 1
  MaxRequests = 1
  MaxHolds = 1
  PairClients = {c2, c3}
  WideRecords = {r3}
  WideStores = {redis, vector}
  WideAsync = {vector}
  WideClients = {c4, c5}
  WideWorkers = {w2}
SYMMETRY ActorSymmetry
INVARIANTS
  PurgeSafe
  PairPurgeSafe
  WideDeletionPromise
PROPERTIES
  VerifiedAnswerCoversUser
  PurgeContractKept
  PairPurgeSteps
