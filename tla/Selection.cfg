CONSTANTS
  span <- MCspan
  words <- MCwords
  Setups <- MCSetups
  Lines <- MCLines
  MaxLines = 3
  GapSets <- MCGaps
  BridgeSeqs <- MCBridges
  Header = 1
  Frame = 1
  Slack = 1
  MaxAttempts = 3
  Overall = "*"
  radix <- MCRadix
  Base = 3
  Conversations <- MCConversations
  Cutters <- MCCutters
  Nobody = Nobody
SPECIFICATION MCSpec
CHECK_DEADLOCK FALSE
INVARIANTS PublishedIsSound PackHoldsItsWord EveryPageIsShown SpansHaveOneOwner NothingLostNothingLong
