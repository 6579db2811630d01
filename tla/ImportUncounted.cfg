SPECIFICATION FairSpec
CONSTANTS
  l1 = l1
  l2 = l2
  r1 = r1
  r2 = r2
  D = 2
  Length = 2
  Batch = 2
  MaxBatches = 0
  Loaders = {l1, l2}
  Runs = {r1, r2}
  Exports <- OneLoad
  MaxFaults = 1
  None = None
INVARIANTS
  CompletedMeansLoaded
