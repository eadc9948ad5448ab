SPECIFICATION FairSpec
CONSTANTS
  File = {f}
  Capacity = 1
  PerTick = 1
  MaxFaults = 1
  MaxCommands = 1
  MaxRemovals = 1
  NONE = NONE
INVARIANTS TypeOK SuspensionEnds
PROPERTIES FilesAreTaken ShownActive FailureIsRepaired
CHECK_DEADLOCK FALSE
