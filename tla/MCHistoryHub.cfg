CONSTANTS
  Channels = {c1}
  Viewers = {v1, v2}
  Polls = {p1, p2}
  None = none
  MaxObserved = 1
  MaxManagers = 1
  Codes = {"reobserve", "polling", "fatal"}
  MaxOutput = 1
  MaxSends = 0
SPECIFICATION FairSpec
INVARIANTS
  TypeOK
  Attended
PROPERTIES
  UnwatchedStops
  OutputShown
CHECK_DEADLOCK FALSE
