SPECIFICATION KeySpec
CONSTANTS
  MaxSlot = 4
  Ledger <- MCLedger
  Scenario <- Passing
  Lag = 1
  Margin = 1
  SignatureCases <- SignatureInstances
  RequestIds = {"a", "b", "c", "d", "null"}
  RequestBodies <- Bodies
  RequestSources = {"clickhouse"}
  BatchMax = 3
  BatchPermits = 2
INVARIANTS AddressRowsServed PrimaryReadsExact LookupsNotLost RequestsAnswered ReadsRouted
CHECK_DEADLOCK FALSE
