SPECIFICATION AllSpec
CONSTANTS
  Docs = {a}
  Seqs = {0, 1}
  Contents = {c, e}
  Threads = {t1, t2}
  NoRow = NoRow
  MaxFaults = 1
  Worker = worker
  Emitter = daemon
  Hooks = {w1, w2}
  Items = {i1, i2}
  MaxEvents = 2
  MaxRestarts = 1
  Legacy = {row1, row2, row3}
  MaxCuts = 3
  Slugs = {1}
  Dates = {1, 3, 4}
  MaxEdits = 4
SYMMETRY Symmetry
CHECK_DEADLOCK FALSE
INVARIANTS
  BackupsAreExact
  RevivedOnlyByRace
  DatabaseIsAsTold
  FailuresStayLocal
  MigrationIsSafe
  DocumentsAreKept
