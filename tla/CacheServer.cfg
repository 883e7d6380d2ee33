\* Safety at one node: three requests in progress, failing Redis commands.
CONSTANTS
  Procs = {p1, p2, p3}
  Nodes = {n1}
  Names = {k1}
  Keys <- MCPlaces
  HotPlaces <- MCPlaces
  Owners = {n1}
  Calls = {o1, o2, o3}
  Values = {v1, v2}
  Results <- MCResults
  RedisMayFail = TRUE
  NoKey = NoKey
  NoCall = NoCall
  NoResult = NoResult
  NoNode = NoNode
  NoValue = NoValue
  Failed = Failed
SPECIFICATION ServerSpec
SYMMETRY Symmetry
INVARIANTS ServerTypeOK StaleOnlyIfOvertaken
