CONSTANTS
  x1 = x1
  x2 = x2
  Ids <- MCOne
  DraftBound = 2
  InjectBound = 1
  CrashBound = 1
SPECIFICATION Spec
INVARIANT AcceptedServed
