SPECIFICATION FairSpec
CONSTANTS
  Ace = {a1, a2}
  NoAce = NoAce
  Closed = Closed
  HeadTargets = {}
  Flaky = {a1, a2}
  MaxStrays = 1
PROPERTY LinkComesBack
