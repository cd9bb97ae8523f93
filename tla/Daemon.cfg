\* All five daemons, three connections, and a deadline of two units: a
\* request may end before it, at it, or never.
CONSTANTS
  Conns = {c1, c2, c3}
  None = none
  Timeout = 2
  MaxTime = 5
SPECIFICATION FairSpec
INVARIANTS TypeOK ExitByDeadline LossExplained AllOrNothing
PROPERTIES SignalEnds
CHECK_DEADLOCK FALSE
