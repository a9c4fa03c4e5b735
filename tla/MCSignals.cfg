\* Five children as in procmask.c, four pids so that they are reused.
CONSTANTS
  N = 5
  p1 = p1
  p2 = p2
  p3 = p3
  p4 = p4
  Pids = {p1, p2, p3, p4}
  NoPid = NoPid
  MAXJOBS = 5
  Pieces = 2
  MaxWords = 2
  Kids = 3
  Count <- LineCounts
SPECIFICATION MCFairSpec
INVARIANT ChildrenExact
PROPERTIES
  ProgramEnds
  FirstShellControls
\* The programs end.
CHECK_DEADLOCK FALSE
