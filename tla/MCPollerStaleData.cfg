CONSTANTS
  h1 = h1
  h2 = h2
  f1 = f1
  f2 = f2
  Headers = {h1}
  Feeds = {f1}
  FeedOf <- Single
  Data <- MCData
  Blank <- MCBlank
  Ops = {"subscribe", "delete"}
  Faults = {}
  MaxBirths = 2
  MaxItems = 1
  MaxCrashes = 0
  MaxGoroutines = 2
SPECIFICATION Spec
INVARIANTS
  RowDescendsFromItsInput
CHECK_DEADLOCK FALSE
