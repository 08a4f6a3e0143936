SPECIFICATION Spec
CONSTANTS
  NHeads = 2
  NTools = 4
  NSlots = 4
  MaxChanges = 5
  PerLayer = 3
  MaxDistance = 2
  MaxRebinds = 1
  MaxRewrites = 2
  None = None
  Headers <- MCHeaders
  Racks <- MCRacks
INVARIANT HeadsInverse SwapsReplay ReadyIsExact FewestSwaps OneRewritePrintsOwn
