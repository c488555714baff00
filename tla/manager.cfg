SPECIFICATION FairSpec
CONSTANTS
  Runs = {r1, r2}
  Retention = 2
  MaxClock = 3
  MaxFaults = 1
  MaxCrashes = 1
  ChildProcs = {p1, p2, p3}
  NoProc = NoProc
  Foreign = Foreign
  Procs = {root, stranger, q1, q2, q3}
  Root = root
  Stranger = stranger
  Stubborn = {root, q1}
  Nobody = Nobody
  Watchers = {"thread", "script"}
  IsLive = FALSE
  There = TRUE
  Checks = 2
  MaxRetries = 2
  Interval = 2
  MaxChanges = 1
  MaxLosses = 1
  MaxTime = 3
  Keywords = {k1, k2}
  Dialogs = {d1, d2}
  NoKeyword = NoKeyword
  Closed = Closed
  MaxReadFaults = 1
  MaxWriteFaults = 1
CHECK_DEADLOCK FALSE
INVARIANTS
  EveryChildIsHeld
  KillsTheTreeOnly
  
  JobsAreKept
  NewestAreKept
  OnlyGoodOnesAtRest
PROPERTIES
  ShotIsReset
  HealsAndSettles
