SPECIFICATION Spec
CONSTANTS
  c1 = c1
  c2 = c2
  k1 = k1
  w1 = w1
  w2 = w2
  name = name
  t1 = t1
  t2 = t2
  Conns = {c1, c2}
  Workers = {w1, w2}
  Selectors = {w1, w2, name}
  Resolve <- ByName
  Keys = {k1}
  Tasks = {t1, t2}
  Nobody = Nobody
  MaxAcquires = 3
  MaxDetaches = 1
  Loads <- OnlyPipelined
INVARIANT InFlightInvalidated
CHECK_DEADLOCK FALSE
