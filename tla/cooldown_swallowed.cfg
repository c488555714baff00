CONSTANTS
  daemon = daemon
  k1 = k1
  NoFile = NoFile
  Cut = Cut
  Scanners <- JustTheDaemon
  Keys <- OneKey
  Cooldown = 2
  PruneFactor = 2
  Retention = 8
  Posix = FALSE
  MaxNow = 3
  MaxFaults = 1
  MaxCrashes = 0
SPECIFICATION Spec
CHECK_DEADLOCK FALSE
INVARIANT MarkedWereQueued
