SPECIFICATION AllSpec
CONSTANTS
  LastDate = 4
  Cutoff = 3
  Ids <- FourIds
  ArchiveRows <- SomeArchive
  FirstLive <- SomeLive
  Limit = 2
  Modes = {"cursor", "offset"}
  MaxChanges = 2
  MaxSwaps = 1
  BookDates = {2, 3, 4}
  Items = {i1, i2}
  Booked <- ThreeSizes
  Limits = {1, 3}
  Lot = 9
  Scale = 12
  Days <- SevenDays
  Today = 6
  Quantities = {0, 2, 4, 9}
  MaxRows = 3
  Settings <- ThreeSettings
  Buffer = 1
  WorseDrop = 25
  WorseSpike = 100
  Daemon = daemon
  Scanners <- WithApi
  NoFile = NoFile
  Cut = Cut
  CalmRun <- TwoKeys
  KilledRun <- Kills
  SharedRun <- Shares
  api = api
  k1 = k1
  k2 = k2
CHECK_DEADLOCK FALSE
INVARIANTS
  PagesAreRight
  NoRowTwice
  SummariesAreDirect
  RulesAreSteady
  EmissionIsExact
