SPECIFICATION Spec
CONSTANTS
  Records = {r1}
  Stores = {redis}
  AsyncStores = {redis}
  Clients = {c1}
  Workers = {w1, w2}
  MaxAttempts = 3
  MaxCrashes = 1
SYMMETRY ActorSymmetry
INVARIANTS
  TypeOK
  CompletedMeansErased
  CompletedMeansDelivered
  DeletedHasDurableOutbox
PROPERTIES
  ContractKept
  HoldIsAFence
