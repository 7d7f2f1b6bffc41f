SPECIFICATION FairSpec
CONSTANTS
  Fds = {"f", "g"}
  Transponders = {"A", "B"}
  Sids = {1, 2, 3}
  Offers <- MCOffers
  EpidList <- MCEpidList
  FilterPids = {11, 12, 21}
  AvPids = {11, 12, 21}
  AnnouncesNit = {"B"}
  HasNit = {"A", "B"}
  AllPids = FALSE
  NoCache = FALSE
  OneFilter = FALSE
  Lossy = TRUE
  Late = FALSE
  MaxLow = 3
  None = None
INVARIANTS
  TypeOK
PROPERTIES
  CommandsServed
CHECK_DEADLOCK FALSE
