\* Reads of at most two bytes, so that a body takes several.
CONSTANTS
  c1 = c1
  c2 = c2
  Clients = {c1, c2}
  NoClient = NoClient
  Requests <- MCRequests
  Files <- MCFiles
  FormName <- MCFormName
  MAXBUF = 2
  MAX_UPLOAD = 5
SPECIFICATION FairSpec
INVARIANTS
  OneResponse
  NothingLeft
  UploadExact
PROPERTIES
  TurnsCome
\* Without clients the server waits in accept.
CHECK_DEADLOCK FALSE
