SPECIFICATION Spec
CONSTANTS
  Plans <- MCPlans
  Batches <- MCBatches
  Occurrences = {o1}
  MaxTurns = 2
INVARIANTS FrozenProvenanceIsPublished
PROPERTIES ImplementsBatchBook EveryCellEnds
CHECK_DEADLOCK FALSE
