SPECIFICATION FairSpec
CONSTANTS
  Window = {w1, w2}
  MinimizeToTray = {w1}
  Restored = 2
  MaxExits = 2
  MaxFaults = 1
  NONE = NONE
INVARIANTS TypeOK ClosedIsSaved RestartPolicy OwnerLeavesLast
PROPERTIES ExitEnds
CHECK_DEADLOCK FALSE
