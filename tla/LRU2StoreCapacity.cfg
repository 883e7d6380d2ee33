\* Eviction and Clear: three keys, room for two and one; two clients; nothing expires.
CONSTANTS
  Keys = {k1, k2, k3}
  Values = {v1}
  None = None
  Clients = {c1, c2}
  Buckets = 1
  BucketOf <- OneBucket
  L1Cap = 2
  L2Cap = 1
  Durations = {5}
  MaxClock = 1
SPECIFICATION Spec
SYMMETRY Symmetry
INVARIANTS TypeOK Level1ReusesDeletedFirst
PROPERTIES IsLossyCache ClearEmpties
