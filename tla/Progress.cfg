SPECIFICATION ProgressSpec
CONSTANTS
  MaxSlot = 2
  MaxRetries = 1
  Scenario <- Progress
  GroupSlots = 2
  GroupRetries = 0
  GroupScenario <- GroupProgress
INVARIANTS WorkWithinPermits
PROPERTIES BlocksReachTheTables EveryEndAcknowledged BuildsEnd PermitsReturn ReplicasSettle
