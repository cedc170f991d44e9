\* Three slots; four removals of one slot bring its generation round to 1.
SPECIFICATION Spec
CONSTANTS
  U32Max = 4
  Capacity = 3
  MaxRemovals = 4
  Value = {v1, v2}
  NONE = NONE
SYMMETRY ValueSymmetry
VIEW Memory
INVARIANTS TypeOK FreeListCoversFreeSlots StaleHandleWindow
PROPERTY ImplementsHandleStore
CHECK_DEADLOCK FALSE
