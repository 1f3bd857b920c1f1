SPECIFICATION Spec
CONSTANTS
  MaxSlot = 4
  Ledger <- MCLedger
  Scenario <- AtTheFloor
  Lag = 1
  Margin = 1
INVARIANT OwedInFull
CHECK_DEADLOCK FALSE
