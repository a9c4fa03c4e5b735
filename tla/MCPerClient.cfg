\* Two clients of up to two lines (or two bytes, of the iterative server), on
\* reused descriptors, threads and cells; three addresses to try.
CONSTANTS
  c1 = c1
  c2 = c2
  Clients = {c1, c2}
  NoClient = NoClient
  Fds = {4, 5}
  w1 = w1
  w2 = w2
  Threads = {w1, w2}
  x1 = x1
  x2 = x2
  Cells = {x1, x2}
  NoCell = NoCell
  SockBuf = 1
  MaxSend = 2
  Programs <- OneOfEach
  NetFds = {3, 4}
  MaxAddrs = 3
SPECIFICATION MCFairSpec
INVARIANTS
  ConnectionsExact
PROPERTIES
  ImplementsEcho
  StreamsComeToEnd
  ChildrenReaped
\* Without clients the server waits in accept.
CHECK_DEADLOCK FALSE
