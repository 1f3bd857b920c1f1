SPECIFICATION Spec
CONSTANTS
  MaxSlot = 2
  Width = 2
  Sig <- MCSig
  Source <- MCSource
  Fill = {f1, f2}
  Poisoner = {r1}
  Keeper = keeper
  Builder = builder
  None = none
  MaxEntries = 1
  MaxWriters = 4
  MaxSerial = 5
SYMMETRY Symmetry
CONSTRAINT SerialBound
INVARIANTS
  TypeOK
  NoFalseAbsence
  WithinBudget
PROPERTY GenerationKeepsBits
