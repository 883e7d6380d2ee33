CONSTANTS
  Keys = {k1, k2, k3, k4}
  Values = {v1, v2}
  Expiries = {0, 1}
  Cap = 3
  NoKey = NoKey
  NoValue = NoValue
SPECIFICATION Spec
INVARIANTS TypeOK Links Index WalkSpansSlots
PROPERTY ImplementsRecencyList
