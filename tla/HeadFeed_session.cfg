SPECIFICATION Spec
CONSTANTS
  Ace = {a1, a2}
  Home = a1
  NHeads = 2
  None = None
  Hand = Hand
  Hands = {}
  Preset = {}
  Touch = {}
  Ports = {0}
  Unstable = TRUE
  Crashes = FALSE
INVARIANT RecordIsFeeder SensorsBackOn
