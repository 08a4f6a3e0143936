SPECIFICATION FairSpec
CONSTANTS
  N = 2
  Required = 1
  Cooldown = 1
  MaxRun = 1
  Duration = 1
  DutyCap = 1
  StaleLimit = 0
  Late = 0
  RoundRobin = TRUE
  OldIds = {TRUE}
  Events = 0
PROPERTY RunEnds
