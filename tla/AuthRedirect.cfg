\* A tab that is signed in already, and a login that fails.
CONSTANTS
  Tabs = {t1, t2}
  Sessions = {s1, s2}
  None = none
SPECIFICATION Spec
SYMMETRY Symmetry
PROPERTIES RedirectOnSuccessOnly
CHECK_DEADLOCK FALSE
