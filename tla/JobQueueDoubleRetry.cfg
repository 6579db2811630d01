SPECIFICATION Spec
CONSTANTS
  Worker = {w1}
  Admin = {a1, a2}
  NoKey = NoKey
  Key = {}
  MaxJobs = 3
  MaxAttempts = 1
  MaxFaults = 0
  MaxStops = 0
  MaxCancels = 0
  MaxRetries = 2
  MaxPauses = 0
  MaxPurges = 0
  ForceFlags = {FALSE}
SYMMETRY Symmetry
INVARIANTS
  OneCopyPerFailure
