SPECIFICATION Spec
CONSTANTS
  Packet = 2
  Size = 8
  Reserved = 4
  Cluster = 4
  Counts = {2}
  Modes = {"nonblock"}
  Moments = {"idle"}
  Commands = {"P", "EO", "C", "I", "other"}
  Faults = {}
INVARIANTS AssertionsHold
CHECK_DEADLOCK FALSE
