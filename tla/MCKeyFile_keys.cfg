SPECIFICATION FileSpec
CONSTANTS
  a1 = a1
  a2 = a2
  b1 = b1
  b2 = b2
  NoKey = NoKey
  Updaters = {t1}
  Keys = {a1, a2, b1, b2}
  Id <- MCId
  Super = {"a"}
  Keep = TRUE
  Edits <- MCEdits
  Careful = TRUE
  First <- MCFirst
  MaxLen = 3
  MaxTime = 3
INVARIANTS
  InStep
PROPERTIES
  NoEditLost
  KeysReachFile
CHECK_DEADLOCK FALSE
