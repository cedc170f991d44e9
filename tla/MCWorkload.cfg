\* 30 000 is a multiple of 16: a prefill of 16 leaves the low bits the same.
SPECIFICATION Spec
CONSTANTS
  Prefill = 16
  MAX_ACTIVE = 18
  Sweep = 3
INVARIANT EmptySideRefills
