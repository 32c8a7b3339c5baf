\* Two requests of any kind, one Terminal View, one retry of the connection.
SPECIFICATION Spec
CONSTANTS
  r1 = r1
  r2 = r2
  k1 = k1
  k2 = k2
  None = None
  Calls = {r1, r2}
  Viewers = {r1, r2}
  Children = {k1, k2}
  Outcomes = {"ok", "TIMEOUT", "FAILED"}
  Attempts = 2
  MaxAttach = 1
  Kinds = {"send", "type", "control", "attach"}
INVARIANTS
  ConnectionSound
  SlotsExact
  DeliveredIsThere
  BuffersGone
PROPERTIES
  EveryRequestEnds
CHECK_DEADLOCK FALSE
