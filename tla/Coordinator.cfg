SPECIFICATION FairSpec
CONSTANTS
  k1 = k1
  k2 = k2
  Items <- MCItems
  SideEffecting <- MCSideEffecting
  MaxRetries <- MCMaxRetries
  Refs = {r1, r2}
  NoRef = NoRef
  NoItem = NoItem
  Workers = {w1, w2}
  MaxInterruptions = 1
INVARIANTS
  RetryBudgetHolds
PROPERTIES
  ImplementsAcceptedWork
  EveryItemSettles
