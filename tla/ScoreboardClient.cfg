\* Two mounts one after the other, each rerunning its effect once, for two
\* events; up to three sockets and three timers in use at once.
CONSTANTS
  Mounts = {m1, m2}
  Events = {e1, e2}
  None = none
  Sockets = {s1, s2, s3}
  Timers = {t1, t2, t3}
  MaxCleanups = 1
  Saturated = 2
SPECIFICATION Spec
SYMMETRY Symmetry
INVARIANTS TypeOK KeepsTrying ChainsBounded LiveMeansOpen
CHECK_DEADLOCK FALSE
