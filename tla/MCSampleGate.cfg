CONSTANTS
  v1 = v1
  v2 = v2
  v3 = v3
  s1 = s1
  s2 = s2
  Calls <- MCCalls
  Abortable <- MCAbortable
  Slots = 2
  MaxQueue = 2
SPECIFICATION FairSpec
INVARIANTS
  TypeOK
  SlotsCounted
  QueueExact
PROPERTIES
  QueuedIsServed
  ImplementsSlotGate
