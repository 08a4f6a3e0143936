SPECIFICATION Spec
CONSTANTS
  Ace = {a1, a2, a3}
  NoAce = NoAce
  Closed = Closed
  HeadTargets = {a2}
  Flaky = {a2, a3}
  MaxStrays = 1
INVARIANT GatesFromSwitch LiveIsActive ConnectedIsPolled
PROPERTY NeverCloseMidSession KeepsPromise
