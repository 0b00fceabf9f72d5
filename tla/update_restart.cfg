SPECIFICATION FairSpec
CONSTANTS
  Updates = {u1}
  Clients = {c1, c2}
  Workers = {w1, w2}
  Adopted = {w2}
  NoTx = NoTx
  PrepareBudget = 2
  MarkerBudget = 1
INVARIANTS
  TypeOK
  PreparedIsDurable
  ExitOnlyAfterStop
PROPERTIES
  TransactionEnds
  PrepareAnswered
CHECK_DEADLOCK FALSE
