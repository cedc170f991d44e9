SPECIFICATION Spec
CONSTANTS
  U32Max = 4
  QtyMod = 3
  Intent = {i1, i2, i3, i4}
  Offer <- TwoInstances
  NONE = NONE
INVARIANTS TotalsAreSums DepthShowsTheBook BookWellFormed
PROPERTY ImplementsQueues
SYMMETRY IntentSymmetry
VIEW Memory
CHECK_DEADLOCK FALSE
