CONSTANTS
  c1 = c1
  c2 = c2
  o1 = o1
  o2 = o2
  o3 = o3
  w1 = w1
  w2 = w2
  w3 = w3
  w4 = w4
  None = None
  Channels = {c1, c2}
  Observers = {o1, o2, o3}
  Waiters = {w1, w2, w3, w4}
  Slots = 1
  MaxQueue = 1
  MaxObservers = 2
  MaxWaitersPerChannel = 2
  MaxWaitersGlobal = 3
  MaxTokens = 2
  MaxRetired = 1
  MaxHistory = 1
  Lease = 1
  Lifetime = 2
  Gap = 1
  Interval = 1
  Idles = {1}
  Timeouts = {1}
  MaxTime = 3
SPECIFICATION Spec
SYMMETRY Symmetric
CHECK_DEADLOCK FALSE
INVARIANTS
  TypeOK
  WaiterAccounting
  ObserverBound
  JobsMatch
  LeaseHonoured
  TimerIffHealthy
  NoFalseClosed
