\* A tab that signs in and reloads a protected page.
CONSTANTS
  Tabs = {t1, t2}
  Sessions = {s1, s2}
  None = none
SPECIFICATION Spec
SYMMETRY Symmetry
PROPERTIES SessionContinuity
CHECK_DEADLOCK FALSE
