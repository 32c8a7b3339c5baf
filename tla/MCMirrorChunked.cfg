CONSTANTS
  Viewers = {v1}
  MaxLines = 3
  Turns = {2}
  Reads = {1}
  Failures = {"error"}
  Chunked = TRUE
  MaxId = 4
  MaxFrames = 1
SPECIFICATION Spec
INVARIANTS
  MirrorExact
CHECK_DEADLOCK FALSE
