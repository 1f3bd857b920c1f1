SPECIFICATION Spec
CONSTANTS
  Bank <- MCBank
  slotOf <- MCSlotOf
  parentOf <- MCParentOf
  txsOf <- MCTxsOf
  Canonical = {"a", "b", "d"}
  NoBank = "none"
  Sig = {1, 2, 3, 4}
  MaxSlot = 3
  Pending = 1
  Scenario <- Passing
  Request = {"r"}
INVARIANTS BlocksServedWhole WinnersProjected ConfirmedServed ChainIsPath AddressIndexSound
