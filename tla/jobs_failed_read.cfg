CONSTANTS
  k1 = k1
  k2 = k2
  d1 = d1
  Closed = Closed
  NoKeyword = NoKeyword
  Keywords <- TwoKeywords
  Dialogs <- OneDialog
  MaxReadFaults = 1
  MaxWriteFaults = 0
SPECIFICATION Spec
INVARIANT JobsAsSaved
