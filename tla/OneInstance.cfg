SPECIFICATION Spec
CONSTANTS
  Proc = {p1}
  s = s  d = d  e = e  NONE = NONE
  Path <- MCPath
  Watched <- MCWatched
  Home <- MCHome
  Spare <- MCSpare
  Policy = "autoRename"
  Elsewhere = {d, e}
  SlowMoves = FALSE
  MaxOps = 3
  MaxEdits = 2
  MaxCrashes = 2
  MaxFaults = 1
INVARIANTS JournalAheadOfMove NoLastingDuplicate CompletedIsReal RestoredIsExempt
PROPERTIES UndoneFileStays MovesKeepDocuments
CHECK_DEADLOCK FALSE
