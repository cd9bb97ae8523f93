\* Three runs of any of the four jobs: a deletion, a creation in the middle
\* of it, and one more; two attempts of the wait.
CONSTANTS
  Runs = {r1, r2, r3}
  None = none
  MaxPolls = 2
SPECIFICATION FairSpec
INVARIANTS TypeOK RunningHasLab OrphanExplained
PROPERTIES OverwriteAsked RunsEnd
CHECK_DEADLOCK FALSE
