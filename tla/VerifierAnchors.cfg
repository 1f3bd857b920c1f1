CONSTANTS
  Configs <- AnchorConfigs
  TicksPerSlot = 1
  MaxEntryNumHashes = 3
  MaxStarts = 2
SPECIFICATION Spec
INVARIANT AnchorsSurfaced
CHECK_DEADLOCK FALSE
