\* Three clients; two descriptors below FD_SETSIZE, two entries in the poll
\* table, two events at a time.
CONSTANTS
  c1 = c1
  c2 = c2
  c3 = c3
  Clients = {c1, c2, c3}
  listenfd = 3
  Fds = {5, 6, 7}
  FD_SETSIZE = 7
  MAX_CLIENTS = 2
  MAX_EVENTS = 2
  MAXLINE = 2
  SockBuf = 1
  MaxSend <- OneByte
SPECIFICATION MCSpec
SYMMETRY ClientSymmetry
INVARIANTS
  ReadNeverBlocks
  BookkeepingExact
\* Without clients the server waits.
CHECK_DEADLOCK FALSE
