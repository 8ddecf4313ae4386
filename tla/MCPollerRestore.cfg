CONSTANTS
  h1 = h1
  h2 = h2
  f1 = f1
  f2 = f2
  Headers = {h1, h2}
  Feeds = {f1, f2}
  FeedOf <- TwoFeeds
  Data <- MCData
  Blank <- MCBlank
  Ops = {"subscribe"}
  Faults = {}
  MaxBirths = 1
  MaxItems = 1
  MaxCrashes = 1
  MaxGoroutines = 3
SPECIFICATION FairSpec
INVARIANTS
  ActiveFeedsArePolled
PROPERTIES
  EveryItemDelivered
CHECK_DEADLOCK FALSE
