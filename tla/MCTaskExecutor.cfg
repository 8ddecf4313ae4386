CONSTANTS
  k1 = k1
  k2 = k2
  k3 = k3
  Keys <- MCKeys
  MaxGoroutines = 4
SPECIFICATION FairSpec
INVARIANTS
  TypeOK
  KeyHeldByGoroutine
  NothingRunsAfterClose
PROPERTIES
  AllReturn
  KeepsPromise
CHECK_DEADLOCK FALSE
