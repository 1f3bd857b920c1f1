SPECIFICATION Spec
CONSTANTS
  MaxSlot = 1
  Width = 1
  Fill = {f1}
  Reader = {r1}
  Scenario <- Outlived
  MaxVersion = 2
INVARIANT AddressPagesComplete
