\* Expiry: two keys that share the last of two buckets, with one slot in each level.
CONSTANTS
  Keys = {k1, k2}
  Values = {v1, v2}
  None = None
  Clients = {c1}
  Buckets = 2
  BucketOf <- LastBucket
  L1Cap = 1
  L2Cap = 1
  Durations = {1, 2}
  MaxClock = 2
SPECIFICATION FairSpec
PROPERTIES EveryLossReported ReportedOnceAndGone IsLossyCache ExpiredRemoved
