SPECIFICATION Spec
CONSTANTS
  Adapters = {0}
  Sids = {1, 2, 3, 4, 5}
  EpidList <- OwnPids
  FreeToAir = {5}
  NoSid = 0
INVARIANTS
  TypeOK
  KeepsViewed
  ServiceInv
  LeftInv
PROPERTIES
  OnlyViewedLeft
  Undisturbed
