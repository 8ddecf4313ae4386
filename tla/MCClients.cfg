SPECIFICATION ClientsSpec
CONSTANTS
  r1 = r1
  r2 = r2
  r3 = r3
  c1 = c1
  c2 = c2
  c3 = c3
  Requests <- MCRequests
  Interruptible <- MCInterruptible
  MaxRetries = 1
  Calls <- MCCalls
  Cancelled <- MCCancelled
  RefreshEvery = 1
  MaxTime = 2
INVARIANTS ClientsInvariant OneOwner RejectedNotReused
PROPERTIES RefreshTimeGrows RequestsEnd CallsReturn
CHECK_DEADLOCK FALSE
