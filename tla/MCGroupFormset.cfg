CONSTANTS
  w1 = w1
  w2 = w2
  Workers = {w1, w2}
  MaxForms <- FormsBound
  MaxGroups = 4
  MaxShared = 3
SPECIFICATION Spec
INVARIANTS
  OnlyUncheckedSpins
  TangleTakesThree
PROPERTIES
  OnlyUncheckedOrTangledBreaks
CHECK_DEADLOCK FALSE
