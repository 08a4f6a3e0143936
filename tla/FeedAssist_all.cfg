SPECIFICATION Spec
CONSTANTS
  Aces = {a1, a2}
  Heads = {s1, s2}
  Slots = {s1, s2}
  PrintOff = {a2}
  LoadOff = {}
  MaxResets = 1
  None = None
INVARIANTS AssistIsKnown FeedsUnassisted ToolIsFed DetectorsBackOn
