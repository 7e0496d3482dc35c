SPECIFICATION Spec
CONSTANTS
  Slot = {"c1", "c2"}
  Name = {"n1"}
  Option = {"plain"}
  Off = Off
  Ops <- MCAll
  RowId = {"t1", "t2", "t3"}
  NoRow = NoRow
  Unlocked = Unlocked
  InitialRows = {}
  Apart = FALSE
INVARIANT OneRowPerActor
