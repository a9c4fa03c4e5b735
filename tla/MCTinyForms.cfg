\* One client that sends a form with a text field and a file.
CONSTANTS
  c1 = c1
  c2 = c2
  Clients = {c1}
  NoClient = NoClient
  Requests <- MCForms
  Files <- MCFiles
  FormName <- MCFormName
  MAXBUF = 2
  MAX_UPLOAD = 8
SPECIFICATION Spec
INVARIANT
  FirstFileStored
CHECK_DEADLOCK FALSE
