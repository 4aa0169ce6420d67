SPECIFICATION FairSpec
CONSTANTS
  Size = 4
  NoSample = NoSample
  Chunk = 2
  Callback = 3
  MaxMade = 9
INVARIANTS Fifo
PROPERTIES ImplementsQueue Drained
