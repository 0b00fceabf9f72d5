SPECIFICATION Spec
CONSTANTS
  i1 = i1
  i2 = i2
  o1 = o1
  o2 = o2
  Inputs = {i1, i2}
  Slots = {o1, o2}
  Loads <- Compacts
  AllSteering = FALSE
  AllFollowUps = FALSE
  MaxArrivals = 3
INVARIANT CompactingSpansWindow
CHECK_DEADLOCK FALSE
