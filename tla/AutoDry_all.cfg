SPECIFICATION Spec
CONSTANTS
  N = 2
  Required = 2
  Cooldown = 1
  MaxRun = 2
  Duration = 1
  DutyCap = 1
  StaleLimit = 0
  Late = 0
  RoundRobin = TRUE
  OldIds = {FALSE}
  Events = 1
PROPERTY TriggerIsDebounced LimitIsReal RestBetweenRuns PrintIsNoticed
