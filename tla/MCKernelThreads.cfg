SPECIFICATION KFairSpec
CONSTANTS
  boot = boot
  t1 = t1
  t2 = t2
  t3 = t3
  Thread <- MCThread
  Boot = boot
  NULL = NULL
  BucketSize = 2
  MaxBuckets = 2
  RunsOnAfterPark = FALSE
  Delays = {0, 1, 5}
  TimerBucket = 3
  MaxSleeps = 4
INVARIANTS KTypeOK ArmedForHead SleepersQueued
  RunsOnItsOwnStack NodesPartitioned StateNamesTheList
PROPERTIES ImplementsQueues ReadyRuns
CONSTRAINT SpawnedInOrder
