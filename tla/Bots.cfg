SPECIFICATION Spec
CONSTANTS
  PoolSize = 2
  Requests = {r1}
  HasDeadline = TRUE
  RetryMax = 2
  MaxRounds = 2
  MaxFloods = 1
INVARIANTS
  TypeOK
  BootAllOrNothing
  NothingOpenAfterShutdown
  CloseUnwindsRecovery
PROPERTIES
  BootEnds
  ShutdownEnds
  CallEnds
