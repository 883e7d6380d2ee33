\* Three callers of one key; no symmetry, for the liveness property.
CONSTANTS
  Procs = {p1, p2, p3}
  Keys = {k1}
  Calls = {o1, o2, o3}
  Results = {r1, r2}
  NoKey = NoKey
  NoCall = NoCall
  NoResult = NoResult
SPECIFICATION FairSpec
INVARIANTS TypeOK NoStaleEntry NoLostWaiter
PROPERTY EveryDoReturns
