SPECIFICATION Spec
CONSTANTS
  Proc = {p1, p2}
  s = s  d = d  e = e  NONE = NONE
  Path <- MCPath
  Watched <- MCWatched
  Home <- MCHome
  Spare <- MCSpare
  Policy = "autoRename"
  Elsewhere = {}
  SlowMoves = FALSE
  MaxOps = 3
  MaxEdits = 1
  MaxCrashes = 0
  MaxFaults = 0
PROPERTIES UndoneFileStays
CHECK_DEADLOCK FALSE
