CONSTANTS
  h1 = h1
  h2 = h2
  f1 = f1
  f2 = f2
  Headers = {h1, h2}
  Feeds = {f1}
  FeedOf <- OneFeed
  Data <- MCData
  Blank <- MCBlank
  Ops = {"subscribe", "suspend", "resume"}
  Faults = {"vendor"}
  MaxBirths = 1
  MaxItems = 1
  MaxCrashes = 0
  MaxGoroutines = 2
SPECIFICATION FairSpec
PROPERTIES
  EveryActiveGetsATurn
CHECK_DEADLOCK FALSE
