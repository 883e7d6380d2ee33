\* Two nodes: elections, passes, snapshots, discovery and a crash.
CONSTANTS
  a1 = a1
  a2 = a2
  Addrs = {a1, a2}
  Nodes = {a1, a2}
  Place <- Interleaved
  DefaultReplicas = 1
  MinReplicas = 1
  MaxReplicas = 2
  Step = 1
  Uneven = {a1}
  MaxPasses = 2
  NoAddr = NoAddr
SPECIFICATION FairSpec
INVARIANTS TypeOK LeaderRingExact FollowersAgree
PROPERTY LeaderReturns
