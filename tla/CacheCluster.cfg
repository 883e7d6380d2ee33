\* Three nodes whose rings change: forwarding, and what it does to the stores.
CONSTANTS
  Procs = {p1}
  Nodes = {n1, n2, n3}
  Names = {k1}
  Keys <- MCPlaces
  HotPlaces <- NoPlaces
  Owners = {n1, n2, n3, NoNode}
  Calls = {o1}
  Values = {v1}
  Results <- MCResults
  RedisMayFail = TRUE
  NoKey = NoKey
  NoCall = NoCall
  NoResult = NoResult
  NoNode = NoNode
  NoValue = NoValue
  Failed = Failed
SPECIFICATION ServerFairSpec
INVARIANT StaleOnlyIfOvertaken
PROPERTY RequestsAnswered
