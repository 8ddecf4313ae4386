CONSTANTS
  h1 = h1
  h2 = h2
  f1 = f1
  f2 = f2
  Headers = {h1}
  Feeds = {f1}
  FeedOf <- Single
  Data <- MCData
  Blank <- MCBlank
  Ops = {"subscribe", "suspend", "resume", "delete", "clear", "close"}
  Faults = {"storage", "vendor", "send", "deadline"}
  MaxBirths = 2
  MaxItems = 2
  MaxCrashes = 1
  MaxGoroutines = 2
SPECIFICATION Spec
INVARIANTS
  TypeOK
  DeliveredBeforeStored
  AtMostOneUnstored
  AtMostOneLate
PROPERTIES
  OffsetNeverRegresses
  NoOtherOrphans
  KeepsDelivery
CHECK_DEADLOCK FALSE
