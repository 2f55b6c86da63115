SPECIFICATION Spec
CONSTANTS
  Tasks <- MCTasks
  Labelled = {"t1"}
  Shards = 2
  Bodies <- MCBodies
  NoBody = NoBody
  JudgeRetries = 1
  Floor <- MCFloor
  Nothing = Nothing
  MaxBreaks = 1
  MaxCrashes = 1
  MaxGrades = 2
  MaxDisturbed = 1
  MaxGates = 2
  Stored <- MCStored
  Traces <- MCTraces
  Corpora <- MCCorpora
  Trees = {"tree1", "tree2"}
  Variants = {"v1"}
  NoBytes = NoBytes
  NoTrial = NoTrial
  TornFile = TornFile
  MaxTorn = 1
  MaxReplays = 3
  MaxArms = 5
  MaxTasks = 6
CHECK_DEADLOCK FALSE
INVARIANTS
  EveryCellReported
  FreezeNeedsAPass
  PairsStayOnOneLane
  ScheduleIsBalanced
  TrialsAreOfTheirBatch
