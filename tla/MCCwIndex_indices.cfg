SPECIFICATION Spec
CONSTANTS
  Adapters = {0}
  s1 = s1
  s2 = s2
  Sids = {s1, s2}
  EpidList <- OneEach
  FreeToAir = {}
  NoSid = NoSid
  MaxIdx = 2
  Periods = 2
  Known = {s1, s2}
  EcmFails = FALSE
  NoCw = NoCw
INVARIANTS
  IndexesMatch
  KeysOfService
PROPERTIES
  Implements
SYMMETRY Symmetry
