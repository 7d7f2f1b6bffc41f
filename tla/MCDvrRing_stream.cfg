SPECIFICATION Spec
CONSTANTS
  Packet = 2
  Size = 8
  Reserved = 5
  Cluster = 4
  Counts = {2, 3}
  Modes = {"block","nonblock"}
  Moments = {"idle"}
  Commands = {"P","EO","C","I","other"}
  Faults = {"dry","abort"}
INVARIANTS
  StreamInOrder
  CsaBetween
  WorksOnUnread
CHECK_DEADLOCK FALSE
