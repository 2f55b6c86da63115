SPECIFICATION MCSpec
CONSTANTS
  Commits = {h1, h2}
  MaxFreezes = 2
  MaxMoves = 1
  Torn = Torn
  None = None
  Procs = {c1, c2}
  MaxStarts = 4
  Blocks <- MCBlocks
  kind <- MCKind
  screen <- MCScreen
  Histories <- MCHistories
  GpuCap = 30
  Reserve = 2
  MaxBatches = 2
  MaxSurprises = 2
INVARIANTS
  WorkIsApproved
  GatesOpenInOrder
  SmokeIsOfItsBinding
  PassIsEarned
  ScreenIsAffordable
SYMMETRY Symmetry
CHECK_DEADLOCK FALSE
