SPECIFICATION Spec
CONSTANTS
  Proc = {p1, p2}
  s = s  d = d  e = e  NONE = NONE
  Path <- MCPath
  Watched <- MCWatched
  Home <- MCHome
  Spare <- MCSpare
  Policy = "skip"
  Elsewhere = {}
  SlowMoves = TRUE
  MaxOps = 3
  MaxEdits = 1
  MaxCrashes = 1
  MaxFaults = 1
SYMMETRY Instances
INVARIANTS ClaimsMatchRequests UndoneExactlyOnce
PROPERTIES ImplementsLedger MovedIsNotFailed
CHECK_DEADLOCK FALSE
