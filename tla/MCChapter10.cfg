\* Rio: files shorter and longer than the buffer; sizes below and above it.
\* Race: two threads, a file of one refill, lines of up to two bytes.
\* Descriptors: three objects and two numbers, so that numbers are reused.
\* Passing: two receivers for one file, longer than a read.
\* Server: two clients of up to two lines, one restart.
CONSTANTS
  RIO_BUFSIZE = 3
  Sizes = {1, 2, 4}
  MaxLen = 5
  Threads = {t1, t2}
  t1 = t1
  t2 = t2
  Junk = 99
  maxlen = 3
  RaceLen = 2
  RaceLines = {{}, {1}}
  o1 = o1
  o2 = o2
  o3 = o3
  Objects = {o1, o2, o3}
  Numbers = {3, 4}
  r1 = r1
  r2 = r2
  Receivers = {r1, r2}
  Child = r1
  content = 2
  FileLen = 3
  c1 = c1
  c2 = c2
  Clients = {c1, c2}
  NoClient = NoClient
  MaxLines = 2
  MaxStarts = 2
SPECIFICATION MCFairSpec
INVARIANTS
  RioExact
  ResultsExact
  DescriptorsExact
  UdsExact
PROPERTY ProgramsGoOn
\* Programs that pass a file end, and a server may have been killed.
CHECK_DEADLOCK FALSE
