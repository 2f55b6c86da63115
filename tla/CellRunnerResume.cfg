SPECIFICATION LiveSpec
CONSTANTS
  k1 = k1
  k2 = k2
  b1 = b1
  b2 = b2
  Items = {k1, k2}
  SideEffecting = {k1, k2}
  MaxRetries <- MCMaxRetries
  Refs <- MCRefs
  NoRef = NoRef
  Runners = {w1}
  Plan <- TwoBlockPlan
  BlockSeq <- TwoBlocks
  cellsOf <- TwoBlockCells
  Root = Root
  NoFile = NoFile
  Torn = Torn
  CrashPoints = {"next", "claim", "run", "store", "judge", "commit", "fail", "states", "outputs", "freeze", "write"}
  MaxCrashes = 2
  MaxBoots = 1
  MaxLost = 1
PROPERTIES
  OnlyOrphansRemain
  SealedUnlessHarmed
