SPECIFICATION FairSpec
CONSTANTS
  Ranges <- MCRanges
  ObjectSize = 5
  ChunkSize = 2
  Concurrency = 2
  OutBuffers = 1
  FetchFails = TRUE
  ClientLeaves = TRUE
INVARIANT TypeOK
INVARIANT PrimeSurfacesFirstFailure
PROPERTY StreamSpec
PROPERTY PrimeReturns
PROPERTY CloseReturns
PROPERTY StreamEnds
