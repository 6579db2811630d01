SPECIFICATION FairSpec
CONSTANTS
  l1 = l1
  l2 = l2
  r1 = r1
  r2 = r2
  D = 2
  Length = 2
  Batch = 2
  MaxBatches = 2
  Loaders = {l1, l2}
  Runs = {r1, r2}
  Exports <- Loads
  MaxFaults = 1
  None = None
INVARIANTS
  LoadedOnce
  NothingPassedOver
  OrderServes
  CompletedIsLoaded
PROPERTIES
  Finishes
