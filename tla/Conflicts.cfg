SPECIFICATION Spec
CONSTANTS
  Proc = {p1, p2}
  Name = {n1, n2}
  Matched = {n1}
  Initial <- Collision
  Taken = n1
  MaxConflicts = 2
  MaxCommands = 2
  MaxMishaps = 1
  NONE = NONE
SYMMETRY Symmetry
INVARIANTS AskedOnce OneResolver RenameIsRecorded
CHECK_DEADLOCK FALSE
