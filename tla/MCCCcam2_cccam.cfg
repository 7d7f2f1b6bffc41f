SPECIFICATION FairClient
CONSTANTS
  r1 = r1
  r2 = r2
  Readers = {r1, r2}
  Shares = {s1, s2}
  s1 = s1
  s2 = s2
  KeyLimit = 2
  Bounds <- MCBounds
  MaxIn = 2
  NoOne = NoOne
CHECK_DEADLOCK FALSE
INVARIANTS
  HasReader
PROPERTIES
  OwnKey
  CallReturns
  CloseNoticed
