\* Three calls by one client: one admitted, one rejected and one that waits
\* for the mutex.  No symmetry, as liveness is checked.
CONSTANTS
  Requests = {r1, r2, r3}
  Cleanup = cleanup
  Keys = {k1}
  Limit = 1
  Window = 2
  MaxTime = 4
SPECIFICATION FairSpec
PROPERTIES EveryCallReturns StaleKeysEvicted StopEndsCleanup
CHECK_DEADLOCK FALSE
