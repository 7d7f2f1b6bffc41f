SPECIFICATION Spec
CONSTANTS
  s1 = s1
  s2 = s2
  Sids = {s1, s2}
  e1 = e1
  e2 = e2
  e3 = e3
  Ecms = {e1, e2, e3}
  y1 = y1
  y2 = y2
  Systems = {y1, y2}
  Indices = {0, 1}
  Descr <- MCDescr
  Pid <- MCPid
  Carried = {"p1", "p2"}
  Handles <- MCHandles
  Pri <- MCPri
  MaxEcmTry <- MCMaxEcmTry
  ConstantCw = {}
  CanDecode <- MCCanDecode
  Slow = {}
  EcmCache = 0
  LocalPriority = FALSE
  MaxCalls = 2
  None = None
  NumCache = 32
  NoMsg = None
INVARIANTS
  DataOfCurrent
  KeysFollow
PROPERTIES
  GetsInSync
