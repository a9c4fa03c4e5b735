\* A table shorter than the number of processes: it can fill up.
CONSTANTS
  p1 = p1
  p2 = p2
  p3 = p3
  Pids = {p1, p2, p3}
  NoPid = NoPid
  MAXJOBS = 2
  MaxWords = 2
SPECIFICATION FairSpec
INVARIANTS
  DeleteFindsJob
  TableMatchesChildren
  TableIsExclusive
PROPERTIES
  ImplementsJobControl
  ZombiesReaped
  RecordedJobReturns
\* A foreground job that found the table full is waited for forever.
CHECK_DEADLOCK FALSE
