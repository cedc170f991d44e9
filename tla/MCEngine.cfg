\* Capacities on both sides of each check; three orders: two makers and a taker that sweeps both.
SPECIFICATION Spec
CONSTANTS
  U32Max = 4
  QtyMod = 16
  Instrument = {a}
  BookCapacity = {0, 1, 2, 3, 4}
  Intent = {i1, i2}
  Price = {0, 1, 2}
  Quantity = {0, 1, 2}
  MaxOrders = 3
  NONE = NONE
INVARIANTS NeverCrossed EventsRebuildBooks QuantityConserved FillOrKill FokRejectsOnlyUnfillable TradesAreBounded
PROPERTY PriceTimePriority
SYMMETRY IntentSymmetry
CHECK_DEADLOCK FALSE
