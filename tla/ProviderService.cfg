SPECIFICATION ServiceSpec
CONSTANTS
  c1 = c1
  c2 = c2
  exa = exa
  deepseek = deepseek
  Threads = {t1, t2}
  Calls <- MCCalls
  Providers <- TwoProviders
  prov <- OneEach
  Searches = {c1}
  Costs = {2}
  Limit = 2
  MaxCrashes = 1
  None = None
  Resources <- MCResources
  Worst <- MCWorst
  Cap <- MCCap
  Caps = {}
  Actuals <- MCActuals
  Responses = {r1}
  NoResponse = NoResponse
  MaxAttempts = 2
INVARIANTS
  CostsAreKept
  NothingLeftStanding
  FenceHoldsForOne
SYMMETRY Alike
CHECK_DEADLOCK FALSE
