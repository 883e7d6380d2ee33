\* An expired copy in level 2 under a newer value in level 1.
CONSTANTS
  Keys = {k1}
  Values = {v1, v2}
  None = None
  Clients = {c1}
  Buckets = 1
  BucketOf <- OneBucket
  L1Cap = 1
  L2Cap = 1
  Durations = {1, 2}
  MaxClock = 3
SPECIFICATION Spec
PROPERTY CleanupRemovesOnlyExpired
