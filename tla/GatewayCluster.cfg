\* Three processes of which two may be up at once, and five requests over
\* more than one window.
CONSTANTS
  Processes = {p1, p2, p3}
  Requests = {r1, r2, r3, r4, r5}
  Limit = 1
  Window = 2
  MaxUp = 2
  MaxTime = 3
SPECIFICATION Spec
SYMMETRY Symmetry
INVARIANTS BoundedByProcesses
CHECK_DEADLOCK FALSE
