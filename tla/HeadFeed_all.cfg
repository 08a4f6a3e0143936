SPECIFICATION Spec
CONSTANTS
  Ace = {a1, a2}
  Home = a1
  NHeads = 2
  None = None
  Hand = Hand
  Hands = {0}
  Preset = {0}
  Touch = {0}
  Ports = {}
  Unstable = TRUE
  Crashes = TRUE
INVARIANT SavedWhenIdle
PROPERTY CommandsPullOwn
