\* Four concurrent calls by two clients against a limit of two, over more
\* than two windows of the clock.
CONSTANTS
  Requests = {r1, r2, r3, r4}
  Cleanup = cleanup
  Keys = {k1, k2}
  Limit = 2
  Window = 2
  MaxTime = 5
SPECIFICATION Spec
SYMMETRY Symmetry
INVARIANTS TypeOK WindowLimit NoNeedlessRejection MapMatchesHistory
PROPERTIES EvictsOnlyExpired ImplementsSlidingWindow
CHECK_DEADLOCK FALSE
