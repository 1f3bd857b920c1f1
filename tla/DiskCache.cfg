SPECIFICATION Spec
CONSTANTS
  MaxSlot = 2
  Width = 1
  Fill = {f1, f2}
  Reader = {r1, r2}
  Scenario <- Passing
  MaxVersion = 2
SYMMETRY Symmetry
INVARIANTS AddressPagesComplete BlocksTrue AbsenceTrue RetentionSound
