SPECIFICATION AllSpec
CONSTANTS
  Threads = {t1, t2}
  Conns = {c1, c2, c3, c4}
  MaxSwaps = 2
  NoConn = NoConn
  Dead = Dead
  Second = 2
  IPs = {a, b}
  MaxRequests = 2
  Window = 2
  MaxIPs = 1
  Interval = 2
  MaxTime = 5
  Ttl = 3
  MaxSize = 1
  MaxLatency = 1
  MaxNow = 5
  MaxWrites = 2
  MaxFaults = 1
  Nothing = Nothing
  Failed = Failed
SYMMETRY Symmetry
CHECK_DEADLOCK FALSE
INVARIANTS
  BudgetIsExact
  CacheIsSound
  ConnectionsAreSound
PROPERTY RefusedOnlyAtLimit
