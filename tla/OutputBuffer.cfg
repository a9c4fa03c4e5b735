CONSTANTS
  Bytes = {1, 2}
  Junk = Junk
  MAX_OUTPUT_CAPACITY = 5
  INITIAL_OUTPUT_CAPACITY = 1
  READ_BUFFER_SIZE = 3
SPECIFICATION BufferFairSpec
INVARIANTS
  BufferBounds
PROPERTIES
  AppendReturns
  ImplementsFifo
