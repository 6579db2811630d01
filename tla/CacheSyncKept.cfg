SPECIFICATION FairSpec
CONSTANTS
  Proc = {p1, p2}
  Load = {l1}
  Entries <- EveryEntry
  MaxWrites = 2
  MaxDrops = 1
INVARIANTS
  SupersededIsGone
PROPERTIES
  RevocationReaches
CHECK_DEADLOCK FALSE
