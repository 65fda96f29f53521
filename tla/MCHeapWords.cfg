SPECIFICATION Spec
CONSTANTS
  Base = 8
  Limit = 19
  Modulus = 64
  Requests = {1, 2}
  TightFits = FALSE
INVARIANTS ListAscends OwnersDataKept StaysInHeap
PROPERTIES ImplementsBlocks
CHECK_DEADLOCK FALSE
