SPECIFICATION Spec
CONSTANTS
  k1 = k1
  k2 = k2
  b1 = b1
  b2 = b2
  Items = {k1, k2}
  SideEffecting = {k1, k2}
  MaxRetries <- MCMaxRetries
  Refs <- MCRefs
  NoRef = NoRef
  Runners = {w1, w2}
  Plan <- OneBlockPlan
  BlockSeq <- OneBlock
  cellsOf <- OneBlockCells
  Root = Root
  NoFile = NoFile
  Torn = Torn
  CrashPoints = {"claim", "run", "store", "judge", "commit", "fail", "write"}
  MaxCrashes = 1
  MaxBoots = 2
  MaxLost = 0
INVARIANTS
  PairedMeansOneEngine
  ExecutedOnce
  FrozenIsTheOutcome
SYMMETRY Symmetry
