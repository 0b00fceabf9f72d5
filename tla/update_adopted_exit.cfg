SPECIFICATION Spec
CONSTANTS
  Updates = {u1, u2}
  Clients = {}
  Workers = {w1, w2}
  Adopted = {w2}
  NoTx = NoTx
  PrepareBudget = 1
  MarkerBudget = 1
INVARIANT ExitAfterEveryStop
CHECK_DEADLOCK FALSE
