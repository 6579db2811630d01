SPECIFICATION Spec
CONSTANTS
  Kinds = {"method"}
  Runner = {w1}
  MaxJobs = 1
  MaxAttempts = 2
  MaxFaults = 0
  MaxStops = 0
  MaxTimeouts = 1
  MaxCancels = 0
  MaxRetries = 0
  MaxReplays = 0
  MaxSwitches = 0
  MaxThrows = 0
  MaxPurges = 0
  MaxTrouble = 1
SYMMETRY Symmetry
INVARIANT QueuedIsUntried
CHECK_DEADLOCK FALSE
