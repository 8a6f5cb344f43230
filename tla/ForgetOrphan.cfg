SPECIFICATION FairSpec
CONSTANTS
  Records = {r1}
  Stores = {redis}
  AsyncStores = {redis}
  Clients = {c1}
  Workers = {w1}
  MaxAttempts = 2
  MaxCrashes = 1
PROPERTY DurableRequestSettles
