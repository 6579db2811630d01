SPECIFICATION Spec
CONSTANTS
  Kinds = {"webhook"}
  Runner = {w1, w2}
  MaxJobs = 3
  MaxAttempts = 2
  MaxFaults = 0
  MaxStops = 1
  MaxTimeouts = 0
  MaxCancels = 1
  MaxRetries = 1
  MaxReplays = 1
  MaxSwitches = 2
  MaxThrows = 1
  MaxPurges = 1
  MaxTrouble = 2
SYMMETRY Symmetry
INVARIANT RetryingIsScheduled
CHECK_DEADLOCK FALSE
