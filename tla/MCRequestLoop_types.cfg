SPECIFICATION LoopSpec
CONSTANTS
  Files = {f, g}
  MaxEntries = 2
  Fds = {1, 2}
  None = None
INVARIANTS
  LoopTypeOK
  EntriesInv
  ArrayInv
  PfdInArray
CHECK_DEADLOCK FALSE
