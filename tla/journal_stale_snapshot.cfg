SPECIFICATION Spec
CONSTANTS
  i1 = i1
  i2 = i2
  i3 = i3
  Inputs = {i1, i2, i3}
  MaxEnds = 2
  Loads <- OneSnapshot
PROPERTY PersistsInOrder
CHECK_DEADLOCK FALSE
