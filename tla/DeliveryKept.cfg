SPECIFICATION FairSpec
CONSTANTS
  Kinds = {"smtp", "method", "webhook"}
  Runner = {w1, w2}
  MaxJobs = 3
  MaxAttempts = 2
  MaxFaults = 2
  MaxStops = 1
  MaxTimeouts = 1
  MaxCancels = 1
  MaxRetries = 1
  MaxReplays = 1
  MaxSwitches = 2
  MaxThrows = 1
  MaxPurges = 1
  MaxTrouble = 2
INVARIANTS
  OneCopyPerFault
  OnItsWay
PROPERTIES
  WithdrawnNeverLeaves
  SentStands
  ComesToAnOutcome
  QueueAsPromised
CHECK_DEADLOCK FALSE
