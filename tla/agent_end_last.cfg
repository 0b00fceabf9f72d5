SPECIFICATION Spec
CONSTANTS
  m1 = m1
  m2 = m2
  c1 = c1
  c2 = c2
  Msgs = {m1}
  Callers = {c1}
  NoCaller = NoCaller
  SteerModes = {"all"}
  FollowModes = {"all"}
  Serial = {FALSE}
  ListenersFail = FALSE
  MaxEdits = 0
  MaxTurns = 1
  MaxCalls = 1
PROPERTIES
  AgentEndIsLast
