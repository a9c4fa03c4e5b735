\* One slot, two processes: a foreground command started while the table is full.
CONSTANTS
  p1 = p1
  p2 = p2
  Pids = {p1, p2}
  NoPid = NoPid
  MAXJOBS = 1
  MaxWords = 2
SPECIFICATION FairSpec
PROPERTY ForegroundReturns
CHECK_DEADLOCK FALSE
