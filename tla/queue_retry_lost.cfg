SPECIFICATION Spec
CONSTANTS
  h1 = h1
  NoHook = NoHook
  Hooks <- MCOneHook
  MaxDeliveries = 1
  MaxAttempts = 2
  Batch = 1
  Lease = 2
  SendMax = 0
  Delays <- MCDelay
  RetryFrom <- MCInFlight
  MaxFaults = 0
INVARIANT RetryDispatched
