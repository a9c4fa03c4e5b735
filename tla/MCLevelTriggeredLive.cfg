\* Two clients, one event at a time.
CONSTANTS
  c1 = c1
  c2 = c2
  c3 = c3
  Clients = {c1, c2}
  listenfd = 3
  Fds = {5, 6}
  FD_SETSIZE = 7
  MAX_CLIENTS = 2
  MAX_EVENTS = 1
  MAXLINE = 2
  SockBuf = 1
  MaxSend <- TwoBytes
SPECIFICATION MCFairSpec
PROPERTIES
  ImplementsEcho
  StallsOnlyOnWrite
  EchoCompletes
\* Without clients the server waits.
CHECK_DEADLOCK FALSE
