SPECIFICATION ReadsSpec
CONSTANTS
  MaxSlot = 4
  Blocks <- MCBlocks
  Fork = 3
  txs <- MCtxs
  versioned = {2}
  ProcessingAge = 1
  SlotWindow = 3
  HintMargin = 1
  MaxRange = 4
  Lag = 1
  OwnerLag = 2
  Config <- MCConfig
  Ask <- MCAsk
  Request = {1, 2}
  World <- MCWorld
INVARIANTS BlocksFinal MissesJustified RangesAndCountsExact HashesRecent RewardsTrue
CHECK_DEADLOCK FALSE
