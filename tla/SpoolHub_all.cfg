SPECIFICATION Spec
CONSTANTS
  p1 = p1
  p2 = p2
  a1 = a1
  a2 = a2
  Places = {p1, p2}
  Aces = {a1, a2}
  AceOf <- MCAceOf
  Spools = {s1, s2}
  Stock = {s1}
  Profiles = {f1}
  Reqs = {r1, r2}
  MaxRequests = 3
  MaxTrouble = 1
  MaxPulls = 1
  None = None
INVARIANT AnswerIsTrue PullSettles
PROPERTY OnlyOwnIsTakenOut PullSpares RecordsKept
CHECK_DEADLOCK FALSE
