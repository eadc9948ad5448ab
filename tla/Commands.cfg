SPECIFICATION FairSpec
CONSTANTS
  File = {f}
  Version = {1, 2}
  Start <- SwitchedOn
  Requests <- UserCommands
  MaxId = 3
  BatchSize = 2
  MaxFaults = 1
  NONE = NONE
INVARIANTS TypeOK AnsweredOnce ShownIsInForce
PROPERTIES RevokedIsNotStarted AnsweredInTheEnd DropEnds
CHECK_DEADLOCK FALSE
