SPECIFICATION FairSpec
CONSTANTS
  Worker = {w1}
  Admin = {a1}
  NoKey = NoKey
  Key = {}
  MaxJobs = 1
  MaxAttempts = 2
  MaxFaults = 0
  MaxStops = 0
  MaxCancels = 1
  MaxRetries = 0
  MaxPauses = 0
  MaxPurges = 0
  ForceFlags = {FALSE}
PROPERTIES
  CancelIsActedOn
