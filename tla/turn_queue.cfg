SPECIFICATION FairSpec
CONSTANTS
  i1 = i1
  i2 = i2
  o1 = o1
  o2 = o2
  Inputs = {i1, i2}
  Slots = {o1, o2}
  Loads <- AllLoads
  AllSteering = FALSE
  AllFollowUps = FALSE
  MaxArrivals = 3
INVARIANTS
  TypeOK
  InOrder
  ShutdownStopsTurns
PROPERTIES
  RunsOnce
  AnswersObserveIdle
  ForcedTogether
  QueueDrains
  CommandsEnd
CHECK_DEADLOCK FALSE
