SPECIFICATION Spec
CONSTANTS
  Updates = {u1}
  Clients = {c1}
  Workers = {w1, w2}
  Adopted = {w2}
  NoTx = NoTx
  PrepareBudget = 1
  MarkerBudget = 1
INVARIANT SupervisionRestored
CHECK_DEADLOCK FALSE
