SPECIFICATION Spec
CONSTANTS
  Proc = {p1, p2}
  Load = {l1, l2}
  Entries <- OnlySessions
  MaxWrites = 2
  MaxDrops = 1
SYMMETRY Symmetry
INVARIANTS
  CurrentWhenSynced
CHECK_DEADLOCK FALSE
