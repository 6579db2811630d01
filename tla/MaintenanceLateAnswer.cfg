SPECIFICATION Spec
CONSTANTS
  s1 = s1
  s2 = s2
  c1 = c1
  c2 = c2
  Servers = {s1, s2}
  Deployments <- TwoCommands
  TTL = 2
  Grace = 3
  MaxSwitches = 2
  MaxMinutes = 2
  MaxFaults = 0
  None = None
PROPERTIES
  AnswersWithinTTL
CHECK_DEADLOCK FALSE
