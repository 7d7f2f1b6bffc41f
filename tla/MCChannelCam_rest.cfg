SPECIFICATION System
CONSTANTS
  Adapters = {0}
  FreeToAir = {}
  NoSid = 0
  Fds = {"f", "g"}
  Transponders = {"A", "B"}
  Sids = {1, 2, 3}
  Offers <- MCOffers
  EpidList <- MCEpidList
  FilterPids = {11, 21}
  AvPids = {11, 12, 21}
  AnnouncesNit = {"B"}
  HasNit = {"A", "B"}
  AllPids = FALSE
  NoCache = FALSE
  OneFilter = TRUE
  Lossy = TRUE
  Late = FALSE
  MaxLow = 3
  None = None
INVARIANTS
  InAgreement
  ServedAtRest
  NoDanglingSid
  NoOrphan
  MapIsTuned
PROPERTIES
  UndisturbedOnAir
CHECK_DEADLOCK FALSE
