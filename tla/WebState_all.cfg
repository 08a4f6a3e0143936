SPECIFICATION Spec
CONSTANTS
  Aces = {a1, a2}
  First = a1
  Heads = {h1}
  MaxLag = 1
  Nothing = Nothing
INVARIANT BannerEnds KnowsActive GatesOfActive SwapGoesOn
