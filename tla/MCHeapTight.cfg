SPECIFICATION Spec
CONSTANTS
  Base = 8
  Limit = 16
  Modulus = 64
  Requests = {1, 2, 4}
  TightFits = TRUE
INVARIANTS StaysInHeap
CHECK_DEADLOCK FALSE
