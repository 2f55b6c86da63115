SPECIFICATION HostsSpec
CONSTANTS
  Items <- MCItems
  WithP1 <- MCWithP1
  pages <- MCPages
  weight <- MCWeight
  Capacity = 5
  MaxRetries = 2
  MaxNamed = 2
  MaxTick = 5
  MaxRestarts = 1
  Hosts <- MCHosts
  Clients = {"pinned", "pilot"}
  pins <- MCPins
  Threads = {t1, t2}
  Queries = {q1, q2}
  CacheCapacity = 1
  MaxStarts = 2
  MaxAsked <- MCMaxAsked
  None = None
INVARIANTS
  OneWorld
PROPERTIES
  ImplementsOfferBook
  OnlyOutbidWait
  EverySearchEnds
CHECK_DEADLOCK FALSE
