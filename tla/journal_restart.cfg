SPECIFICATION FairSpec
CONSTANTS
  i1 = i1
  i2 = i2
  i3 = i3
  Inputs = {i1, i2, i3}
  MaxEnds = 2
  Loads <- AllLoads
INVARIANTS
  TypeOK
  AcceptedIsDurable
  AnsweredIsForgotten
  WorkReadsInterrupted
PROPERTIES
  IdleIsEarned
  AcceptedRuns
CHECK_DEADLOCK FALSE
