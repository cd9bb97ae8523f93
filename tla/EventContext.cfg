\* Documents at every host, over http and https, on the default port and on
\* another one; two slugs, and three fetches in flight at once, of which two
\* are cancelled.
CONSTANTS
  Pages <- MCPages
  Words <- MCWords
  Slugs <- MCSlugs
  None = none
  Fetches = {f1, f2, f3}
SPECIFICATION FairSpec
INVARIANTS TypeOK ShownIsCurrent OriginsExact EventHostsWork
PROPERTIES LoadingEnds
CHECK_DEADLOCK FALSE
