SPECIFICATION FairSpec
CONSTANTS
  h1 = h1
  h2 = h2
  Registry <- MCRegistry
  Handlers <- MCHandlers
  MaxRuns = 2
  Stale = 2
  MaxFaults = 2
INVARIANTS TypeOK OneRunning OneBot
PROPERTIES FinishedStays RefusedOnlyByFresh Unblocked
