SPECIFICATION Spec
CONSTANTS
  h1 = h1
  NoHook = NoHook
  Hooks <- MCOneHook
  MaxDeliveries = 2
  MaxAttempts = 2
  Batch = 2
  Lease = 2
  SendMax = 1
  Delays <- MCDelay
  RetryFrom <- MCTerminal
  MaxFaults = 0
INVARIANT LeaseOutlastsBatch
