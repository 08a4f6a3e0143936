SPECIFICATION FairSpec
CONSTANTS
  N = 2
  Required = 2
  Cooldown = 1
  MaxRun = 2
  Duration = 1
  DutyCap = 1
  Events = 2
INVARIANT FileKnows
PROPERTY RunIsEarned RunEnds
