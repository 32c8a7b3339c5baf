CONSTANTS
  Channels = {c1, c2, c3}
  Viewers = {v1}
  Polls = {p1}
  None = none
  MaxObserved = 1
  MaxManagers = 2
  Codes = {"reobserve"}
  MaxOutput = 2
  MaxSends = 1
SPECIFICATION Spec
SYMMETRY Symmetry
INVARIANTS
  StateHonest
  TranscriptExact
  TurnsBound
  TableSound
CHECK_DEADLOCK FALSE
