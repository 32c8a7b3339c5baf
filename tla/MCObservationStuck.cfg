CONSTANTS
  c1 = c1
  c2 = c2
  o1 = o1
  o2 = o2
  o3 = o3
  w1 = w1
  w2 = w2
  w3 = w3
  w4 = w4
  None = None
  Channels = {c1}
  Observers = {o1}
  Waiters = {w1}
  Slots = 2
  MaxQueue = 4
  MaxObservers = 2
  MaxWaitersPerChannel = 2
  MaxWaitersGlobal = 2
  MaxTokens = 1
  MaxRetired = 9
  MaxHistory = 2
  Lease = 3
  Lifetime = 4
  Gap = 1
  Interval = 1
  Idles = {1}
  Timeouts = {3}
  MaxTime = 4
SPECIFICATION FairSpec
CHECK_DEADLOCK FALSE
PROPERTIES
  WaitEnds
