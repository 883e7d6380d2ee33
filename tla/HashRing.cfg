\* Three nodes of one or two virtual nodes each, all at distinct positions.
CONSTANTS
  a1 = a1
  a2 = a2
  a3 = a3
  Addrs = {a1, a2, a3}
  Place <- Interleaved
  DefaultReplicas = 1
  MinReplicas = 1
  MaxReplicas = 2
  Step = 1
  Counts = {0, 4}
  Snapshots <- Published
  NoAddr = NoAddr
  NoCount = NoCount
SPECIFICATION Spec
INVARIANTS TypeOK RingMatchesReplicas NodesCounted
PROPERTY OnlyItsKeysMove
