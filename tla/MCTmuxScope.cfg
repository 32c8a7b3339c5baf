CONSTANTS
  Sessions = {"keeper", "k", "kiosk"}
  Prefixes <- ShortPrefixes
  ServerPids = {1, 2}
  MaxServers = 3
  MaxPanes = 2
  MaxSpawns = 2
  Target = 1
  Allowed = {"keeper", "k"}
  None = none
  Supervisors = {s1, s2}
  Keeper = "keeper"
  InScope = {"keeper", "k"}
  MaxAsked = 1
SPECIFICATION Spec
SYMMETRY Symmetry
INVARIANTS
  SampleOfOne
  ClosedIsGone
  EnsureSound
CHECK_DEADLOCK FALSE
