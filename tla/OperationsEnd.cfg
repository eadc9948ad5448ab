SPECIFICATION MCSpec
CONSTANTS
  Proc = {p1, p2}
  p2 = p2  s = s  d = d  e = e  NONE = NONE
  Path <- MCPath
  Watched <- MCWatched
  Home <- MCHome
  Spare <- MCSpare
  Policy = "conflictFolder"
  Elsewhere = {d}
  SlowMoves = TRUE
  MaxOps = 2
  MaxEdits = 2
  MaxCrashes = 2
  MaxFaults = 1
PROPERTIES OperationsEnd
CHECK_DEADLOCK FALSE
