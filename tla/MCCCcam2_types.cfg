SPECIFICATION ClientSpec
CONSTANTS
  r1 = r1
  r2 = r2
  Readers = {r1, r2}
  Shares = {s1, s2}
  s1 = s1
  s2 = s2
  KeyLimit = 2
  Bounds <- BigBounds
  MaxIn = 2
  NoOne = NoOne
CHECK_DEADLOCK FALSE
SYMMETRY Symmetry
INVARIANTS
  ClientTypeOK
  HasReader
  Stacks
  Fields
  Buffers
  SessionInv
  AnswerInv
PROPERTIES
  OwnKey
