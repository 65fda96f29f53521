SPECIFICATION EntrySpec
CONSTANTS
  boot = boot
  t1 = t1
  t2 = t2
  Thread <- MCThread
  Boot = boot
  NULL = NULL
  Versions = {0, 1}
  MaxLocals = 1
INVARIANTS SavesAllTheData
