SPECIFICATION ProseSpec
CONSTANTS
  p1 = p1
  p2 = p2
  p3 = p3
  Requests = {p1, p2, p3}
  body <- MCBody
  BatchPlans <- MCPlans
  pagesOf <- MCPagesOf
  MaxInflight = 1
  MaxCrashes = 1
  None = None
INVARIANTS WorkIsMeasured EndedBatchesTell
PROPERTIES EveryBatchEnds
CHECK_DEADLOCK FALSE
