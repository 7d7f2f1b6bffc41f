SPECIFICATION Spec
CONSTANTS
  NoProc = NoProc
  d1 = d1
  d2 = d2
  i1 = i1
  p1 = p1
  p2 = p2
  Procs = {p1, p2}
  Daemons = {d1, d2}
  Ioctls = {i1}
  MaxFd = 3
  Calls = {"read"}
  IntWidth = 3
  Faults = {"kill", "signal"}
INVARIANTS
  WaiterOwnsRegisters
  ExecutesForWaiter
  PollinMeansRequest
PROPERTIES
  BufferKept
CHECK_DEADLOCK FALSE
SYMMETRY Symmetry
