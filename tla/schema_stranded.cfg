SPECIFICATION Spec
CONSTANTS
  a = a
  b = b
  Docs <- MCDocs
  MaxCrashes = 1
INVARIANT NothingStranded
