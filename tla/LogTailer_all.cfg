SPECIFICATION FairSpec
CONSTANTS
  MaxLines = 6
  MaxFiles = 4
INVARIANT ShowsNewest
PROPERTY NeverBack EventsArrive Delivers
