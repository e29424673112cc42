SPECIFICATION Spec
CONSTANTS
  UploadChunkSize = 3
  ClientLeaves = TRUE
  Flaky = TRUE
  StreamChunkSize = 4
  WindowFloor = 1
  DownloadUnit = 2
  Sources <- MCSources
  FirstBody <- MCFirstBody
  PartNumbers = {1, 2}
  MinPartSize = 3
  Ranges <- MCRanges
  CopyRanges <- MCCopyRanges
  MaxUploads = 2
  MaxSeconds = 1
INVARIANTS
  UploadTypeOK
  CleanFailure
  RoundTrip
  ResumeNeverMixes
  CacheNeverStale
PROPERTIES
  StoresWholeOrNothing
CHECK_DEADLOCK FALSE
