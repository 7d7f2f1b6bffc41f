SPECIFICATION ZapSpec
CONSTANTS
  Adapters = {0}
  s1 = s1
  s2 = s2
  s3 = s3
  Sids = {s1, s2, s3}
  EpidList <- TwoEach
  FreeToAir = {}
  NoSid = NoSid
  MaxIdx = 2
  Periods = 4
  Known = {s1, s2}
  EcmFails = TRUE
  NoCw = NoCw
INVARIANTS
  TypeOK
  CwInv
  SyncInv
  MappedToHandler
PROPERTIES
  KeysArrive
