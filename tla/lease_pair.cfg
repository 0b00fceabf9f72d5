SPECIFICATION FairSpec
CONSTANTS
  p1 = p1
  p2 = p2
  p3 = p3
  a1 = a1
  a2 = a2
  a3 = a3
  a4 = a4
  t1 = t1
  t2 = t2
  t3 = t3
  Procs = {p1, p2}
  Actors = {p1, p2}
  ProcOf <- OneThread
  Tokens = {t1, t2}
  NoOwner = NoOwner
  NoGuard = NoGuard
  Unverifiable = {}
  StaleAfter = 1
  Slack = 2
  Prompt = TRUE
  IOErrors = FALSE
INVARIANTS
  OneRuntimePerFile
PROPERTIES
  LoneOpenSucceeds
CHECK_DEADLOCK FALSE
