SPECIFICATION Spec
CONSTANTS
  Worker = {w1, w2}
  Admin = {a1}
  NoKey = NoKey
  Key = {}
  MaxJobs = 1
  MaxAttempts = 2
  MaxFaults = 1
  MaxStops = 0
  MaxCancels = 1
  MaxRetries = 0
  MaxPauses = 0
  MaxPurges = 0
  ForceFlags = {FALSE}
SYMMETRY Symmetry
INVARIANTS
  FinalWhenOver
