\* Two makers of 2 overflow a level's total at QtyMod.
SPECIFICATION Spec
CONSTANTS
  U32Max = 4
  QtyMod = 3
  Instrument = {a}
  BookCapacity = {2}
  Intent = {i1, i2}
  Price = {1}
  Quantity = {2}
  MaxOrders = 3
  NONE = NONE
INVARIANT FokRejectsOnlyUnfillable
SYMMETRY IntentSymmetry
CHECK_DEADLOCK FALSE
