SPECIFICATION FairSpec
CONSTANTS
  Worker = {w1, w2}
  Admin = {a1}
  NoKey = NoKey
  Key = {}
  MaxJobs = 1
  MaxAttempts = 2
  MaxFaults = 2
  MaxStops = 1
  MaxCancels = 1
  MaxRetries = 0
  MaxPauses = 0
  MaxPurges = 0
  ForceFlags = {FALSE}
INVARIANTS
  TypeOK
  FenceNamesOneRun
  AttemptsBounded
  FinalIsFinal
PROPERTIES
  ImplementsLifecycle
  JobsSettle
