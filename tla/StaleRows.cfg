SPECIFICATION FairSpec
CONSTANTS
  File = {f}
  Place = {p, q}
  Modes = {FALSE}
  MaxChanges = 2
  MaxFaults = 1
  NONE = NONE
INVARIANTS RowsFollow
CHECK_DEADLOCK FALSE
