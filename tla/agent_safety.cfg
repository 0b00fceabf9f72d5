SPECIFICATION Spec
CONSTANTS
  m1 = m1
  m2 = m2
  c1 = c1
  c2 = c2
  Msgs = {m1, m2}
  Callers = {c1, c2}
  NoCaller = NoCaller
  SteerModes = {"one", "all"}
  FollowModes = {"all"}
  Serial = {TRUE, FALSE}
  ListenersFail = TRUE
  MaxEdits = 0
  MaxTurns = 1
  MaxCalls = 2
SYMMETRY Symmetry
INVARIANTS
  TypeOK
  NeverTwice
  ContextIsTranscript
  CallsAnswered
  OneAgentEnd
PROPERTIES
  NothingTakenIsDropped
