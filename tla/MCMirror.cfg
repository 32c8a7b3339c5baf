CONSTANTS
  Viewers = {v1, v2}
  MaxLines = 2
  Turns = {1}
  Reads = {1}
  Failures = {"error"}
  Chunked = FALSE
  MaxId = 4
  MaxFrames = 1
SPECIFICATION Spec
SYMMETRY Symmetry
INVARIANTS
  RingExact
  BlocksGrowLast
  MirrorExact
CHECK_DEADLOCK FALSE
