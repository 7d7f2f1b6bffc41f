SPECIFICATION LoopSpec
CONSTANTS
  Files = {f, g}
  MaxEntries = 2
  Fds = {1, 2}
  None = None
PROPERTIES
  ReportsNews
  KeepsReporting
CHECK_DEADLOCK FALSE
