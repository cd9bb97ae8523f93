\* The page stays on screen while another tab signs out and in.
CONSTANTS
  Mounts = {m1}
  Events = {e1, e2}
  None = none
  Sockets = {s1, s2, s3}
  Timers = {t1, t2, t3}
  MaxCleanups = 0
  Saturated = 2
SPECIFICATION Spec
SYMMETRY Symmetry
INVARIANTS AlwaysReconnects
CHECK_DEADLOCK FALSE
