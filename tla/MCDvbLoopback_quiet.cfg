SPECIFICATION Spec
CONSTANTS
  NoProc = NoProc
  d1 = d1
  i1 = i1
  p1 = p1
  p2 = p2
  Procs = {p1, p2}
  Daemons = {d1}
  Ioctls = {i1}
  MaxFd = 3
  Calls = {"ioctl", "read", "poll"}
  IntWidth = 3
  Faults = {}
INVARIANTS
  NoSlotLeak
  NoLostPoll
PROPERTIES
  ImplementsRequestReply
CHECK_DEADLOCK FALSE
SYMMETRY Symmetry
