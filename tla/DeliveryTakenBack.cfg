SPECIFICATION Spec
CONSTANTS
  Kinds = {"smtp"}
  Runner = {w1, w2}
  MaxJobs = 3
  MaxAttempts = 2
  MaxFaults = 0
  MaxStops = 1
  MaxTimeouts = 0
  MaxCancels = 1
  MaxRetries = 1
  MaxReplays = 1
  MaxSwitches = 2
  MaxThrows = 1
  MaxPurges = 1
  MaxTrouble = 3
SYMMETRY Symmetry
INVARIANT FailedDidNotGo
CHECK_DEADLOCK FALSE
