\* Two keys, room for one large value, a Get at any point of its four steps.
CONSTANTS
  small = small
  large = large
  Keys = {k1, k2}
  Values = {small, large}
  Size <- Sizes
  MaxBytes = 2
  Getters = {p1}
  Elems = {1, 2, 3}
  Durations = {0, 1}
  MaxClock = 3
  MaxDrift = 2
  NoElem = NoElem
  NoEntry = NoEntry
  NoKey = NoKey
SPECIFICATION FairSpec
INVARIANTS TypeOK ListMatchesItems BytesAccounted LateAnswerOnlyIfRemoved
PROPERTY ExpiredRemoved
