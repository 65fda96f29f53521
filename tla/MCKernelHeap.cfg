SPECIFICATION Spec
CONSTANTS
  Base = 1
  Limit = 17
  Meta = 1
  Header = 2
  Requests = {1, 2, 4}
INVARIANTS BlocksDisjoint HeapCovered FreeBlocksApart
CHECK_DEADLOCK FALSE
