\* Two tabs and two sessions.  No symmetry, as liveness is checked.
CONSTANTS
  Tabs = {t1, t2}
  Sessions = {s1, s2}
  None = none
SPECIFICATION FairSpec
INVARIANTS OneIdentity LoadingIsInFlight GuardHolds
PROPERTIES RefusalEndsSession LoginEnds
CHECK_DEADLOCK FALSE
