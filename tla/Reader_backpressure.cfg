SPECIFICATION Spec
CONSTANTS
  Ranges <- MCWhole
  ObjectSize = 8
  ChunkSize = 2
  Concurrency = 2
  OutBuffers = 1
  FetchFails = FALSE
  ClientLeaves = FALSE
INVARIANT InFlightBounded
