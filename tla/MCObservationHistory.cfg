CONSTANTS
  c1 = c1
  c2 = c2
  o1 = o1
  o2 = o2
  o3 = o3
  w1 = w1
  w2 = w2
  w3 = w3
  w4 = w4
  None = None
  Channels = {c1}
  Observers = {o1}
  Waiters = {w1}
  Slots = 2
  MaxQueue = 4
  MaxObservers = 1
  MaxWaitersPerChannel = 2
  MaxWaitersGlobal = 2
  MaxTokens = 9
  MaxRetired = 9
  MaxHistory = 2
  Lease = 4
  Lifetime = 5
  Gap = 2
  Interval = 1
  Idles = {1,2}
  Timeouts = {3}
  MaxTime = 5
SPECIFICATION Spec
SYMMETRY Symmetric
CHECK_DEADLOCK FALSE
INVARIANTS
  CursorCarriesOn
  NoLostWakeup
  HistoryContiguous
  OutputIdleSound
PROPERTIES
  ImplementsContract
