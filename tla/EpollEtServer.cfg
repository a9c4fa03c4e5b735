CONSTANTS
  c1 = c1
  c2 = c2
  Clients = {c1, c2}
  Listen = Listen
  NoClient = NoClient
  MAX_EVENTS = 2
  READ_BUFFER_SIZE = 2
  MAX_OUTPUT_CAPACITY = 2
  SockBuf = 1
  MaxSend = 2
SPECIFICATION FairSpec
INVARIANTS
  NoLostWakeup
  EventsAreLive
PROPERTIES
  ImplementsEcho
  EchoCompletes
  Quiescence
\* Without clients the server waits.
CHECK_DEADLOCK FALSE
