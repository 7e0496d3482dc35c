SPECIFICATION Spec
CONSTANTS
  Slot = {"c1", "c2"}
  Name = {"n1", "n2"}
  Option = {"plain", "shared"}
  Off = Off
  Ops <- MCAll
  RowId = {"t1", "t2"}
  NoRow = NoRow
  Unlocked = Unlocked
  InitialRows = {}
  Apart = TRUE
INVARIANT TypeOK
PROPERTY TakesEffectOnce
