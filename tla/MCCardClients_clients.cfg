SPECIFICATION Spec
CONSTANTS
  s1 = s1
  s2 = s2
  Systems = {s1, s2}
  NumClients = 2
  Kind <- MCKind
  solo = solo
  f = f
  g = g
  Ecms = {solo, f, g}
  Caid <- MCCaid
  Configured <- MCConfigured
  Announced <- MCAnnounced
  ServerDown = {}
  OldServers = {}
  MaxNum = 2
  MaxFail = 2
  NumCache = 1
  NoMsg = NoMsg
INVARIANTS
  OwnAnswer
  EntriesOwned
  SleepersAreWoken
PROPERTIES
  TriesAll
SYMMETRY Symmetry
