SPECIFICATION Spec
CONSTANTS
  a = a
  b = b
  c = c
  d = d
  Nodes = {a, b, c, d}
  None = None
  Links = {l1}
  Writers = {w1, w2}
  InitialTrees <- Trees
  MaxTx = 2
INVARIANTS
  AlwaysAForest
CHECK_DEADLOCK FALSE
