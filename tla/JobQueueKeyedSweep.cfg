SPECIFICATION FairSpec
CONSTANTS
  Worker = {w1}
  Admin = {a1}
  NoKey = NoKey
  Key = {k1}
  MaxJobs = 2
  MaxAttempts = 2
  MaxFaults = 1
  MaxStops = 0
  MaxCancels = 0
  MaxRetries = 0
  MaxPauses = 0
  MaxPurges = 0
  ForceFlags = {FALSE}
PROPERTIES
  RunsEnd
