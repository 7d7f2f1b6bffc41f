SPECIFICATION FairQueueSpec
CONSTANTS
  Plain = {"addsid"}
  Replaced = {"ringclose"}
  Recurring = {"housekeeping"}
  Data = {"old", "new"}
  Period = 2
  Hour = 3
  Preallocated = 1
  MaxCells = 3
  MaxTime = 3
  Ends = {"thread", "signal"}
INVARIANTS
  LatestDelivered
PROPERTIES
  InOrder
  SentIsHandled
CHECK_DEADLOCK FALSE
