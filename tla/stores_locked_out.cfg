SPECIFICATION Spec
CONSTANTS
  t1 = t1
  w1 = w1
  w2 = w2
  Worker = Worker
  Emitter = Emitter
  Requests <- OneRequest
  Hooks <- TwoHooks
  Items = {}
  MaxEvents = 2
  MaxFaults = 0
CHECK_DEADLOCK FALSE
PROPERTY LockedMeansHeld
