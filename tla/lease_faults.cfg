SPECIFICATION Spec
CONSTANTS
  p1 = p1
  p2 = p2
  p3 = p3
  a1 = a1
  a2 = a2
  a3 = a3
  a4 = a4
  t1 = t1
  t2 = t2
  t3 = t3
  Procs = {p1, p2, p3}
  Actors = {a1, a2, a3, a4}
  ProcOf <- TwoThreads
  Tokens = {t1, t2}
  NoOwner = NoOwner
  NoGuard = NoGuard
  Unverifiable = {p3}
  StaleAfter = 0
  Slack = 1
  Prompt = FALSE
  IOErrors = TRUE
SYMMETRY TokenSymmetry
CONSTRAINT Untorn
INVARIANTS
  TypeOK
  HeldIsOnDisk
  CommitsAreSerialized
PROPERTIES
  LiveOwnerKept
CHECK_DEADLOCK FALSE
