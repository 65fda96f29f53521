SPECIFICATION Spec
CONSTANTS
  boot = boot
  t1 = t1
  t2 = t2
  t3 = t3
  Thread <- MCThread
  Boot = boot
  NULL = NULL
  BucketSize = 2
  MaxBuckets = 2
  RunsOnAfterPark = TRUE
INVARIANTS WaitersAreNotScheduled
