SPECIFICATION Spec
CONSTANTS
  r1 = r1
  r2 = r2
  None = None
  Readers = {r1, r2}
  PoolSize = 2
  BotIndexes = {0, 2}
  MaxEpoch = 1
  Faulty = TRUE
SYMMETRY MCSymmetry
INVARIANTS
  TypeOK
  AllBotsTried
PROPERTIES
  FreshNotEvicted
