SPECIFICATION FairSpec
CONSTANTS
  m1 = m1
  m2 = m2
  c1 = c1
  c2 = c2
  Msgs = {m1, m2}
  Callers = {c1}
  NoCaller = NoCaller
  SteerModes = {"one"}
  FollowModes = {"one", "all"}
  Serial = {FALSE}
  ListenersFail = FALSE
  MaxEdits = 1
  MaxTurns = 1
  MaxCalls = 1
INVARIANTS
  QueuesInOrder
  OneSteerPerTurn
PROPERTIES
  AbortEnds
