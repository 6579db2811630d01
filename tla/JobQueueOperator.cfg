SPECIFICATION Spec
CONSTANTS
  Worker = {w1, w2}
  Admin = {a1}
  NoKey = NoKey
  Key = {k1}
  MaxJobs = 2
  MaxAttempts = 1
  MaxFaults = 0
  MaxStops = 1
  MaxCancels = 1
  MaxRetries = 1
  MaxPauses = 1
  MaxPurges = 1
  ForceFlags = {TRUE, FALSE}
SYMMETRY Symmetry
INVARIANTS
  ExactlyOnceWithoutFaults
  FailureIsTold
