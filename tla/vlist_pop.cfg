\* An action that pops a value is taken back
SPECIFICATION HSpec
CONSTANTS
  El = {1, 2, 3, 4, 5, 6, 7, 8, 9, 10, 11, 12}
  Few = {1, 2, 3}
  FewKeys <- KeysOf
  Null = 0
  key <- KeyOf
  Val = {v1, v2}
  None = none
  MaxUnits = 2
INVARIANTS
  RefsHeld
CHECK_DEADLOCK FALSE
