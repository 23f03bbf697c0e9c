SPECIFICATION Spec
CONSTANTS
  t1 = t1
  t2 = t2
  t3 = t3
  Tracks <- MCTracks
  Infos = {1, 2}
  Heights = {1}
  Offsets = {0}
CHECK_DEADLOCK FALSE
INVARIANT NodesInTree
