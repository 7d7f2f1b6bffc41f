SPECIFICATION FairSpec
CONSTANTS
  Packet = 2
  Size = 8
  Reserved = 4
  Cluster = 4
  Counts = {2,4}
  Modes = {"block"}
  Moments = {"closed"}
  Commands = {"P","EO","C","I"}
  Faults = {"abort"}
INVARIANTS
  TypeOK
  NothingForClosed
PROPERTIES
  CloseReleases
CHECK_DEADLOCK FALSE
