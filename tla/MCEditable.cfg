SPECIFICATION Spec
CONSTANTS
  t1 = t1
  t2 = t2
  t3 = t3
  Tracks <- MCTracks
  Infos = {1, 2}
  Heights = {1, 2, 3}
  Offsets = {0, 1}
SYMMETRY MCSymmetry
CHECK_DEADLOCK FALSE
INVARIANTS
  ListSound
  SelectionVisible
PROPERTIES
  OrderKept
