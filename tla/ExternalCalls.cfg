SPECIFICATION CallsSpec
CONSTANTS
  c1 = c1
  c2 = c2
  Calls <- MCCalls
  Resources <- MCResources
  Worst <- MCWorst
  Cap <- MCCap
  Caps = {1, 3}
  Actuals <- MCActuals
  Responses = {p1}
  NoResponse = NoResponse
  MaxAttempts = 2
INVARIANTS
  BoughtOnce
  WithinCeiling
  BooksBalance
