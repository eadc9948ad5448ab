SPECIFICATION FairSpec
CONSTANTS
  File = {f, g}
  Place = {p}
  Modes = {TRUE, FALSE}
  MaxChanges = 2
  MaxFaults = 1
  NONE = NONE
INVARIANTS IndexFollows SnapshotFollows PendingIsKnown
PROPERTIES IndexCatchesUp
CHECK_DEADLOCK FALSE
