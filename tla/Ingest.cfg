SPECIFICATION IngestSpec
CONSTANTS
  MaxSlot = 3
  MaxRetries = 1
  Scenario <- Passing
  GroupSlots = 3
  GroupRetries = 0
  GroupScenario <- GroupPassing
  ArchiveSlots <- ArchiveChain
  ArchiveProduced <- ArchiveLeaders
  ArchiveConfigs <- ArchivePassing
  ArchiveCycles = 4
  ArchiveFaults = 1
INVARIANTS
  StreamStored AcknowledgedIsStored RowsOfTheWinner HistoryStored ArchiveSafe RecordedIsServed
  VerdictTrue
PROPERTY StreamFootersKept
