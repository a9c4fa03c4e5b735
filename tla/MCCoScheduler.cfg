CONSTANTS
  TaskCount = 3
  Delays <- MCDelays
  INT_MAX = 6
  Dict <- SomeWords
  MaxCount = 4
  Hashes <- SomeHashes
  LONG_MAX = 127
  Callers = {t1, t2}
  MaxOuter = 2
  MaxRequests = 3
  MaxPieces = 2
SPECIFICATION AloneFairSpec
INVARIANTS
  OnePlaceEach
  OnTime
  LibraryExact
PROPERTIES
  ImplementsEventQueue
  ProgramsReturn
CHECK_DEADLOCK FALSE
