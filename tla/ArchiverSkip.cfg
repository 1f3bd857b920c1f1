SPECIFICATION ArchiveSpec
CONSTANTS
  ArchiveSlots <- ArchiveChain
  ArchiveProduced <- ArchiveLeaders
  ArchiveConfigs <- ArchiveSkipping
  ArchiveCycles = 4
  ArchiveFaults = 0
INVARIANT NoSlotSkipped
CHECK_DEADLOCK FALSE
