SPECIFICATION MPSpec
CONSTANTS
  w1 = w1
  w2 = w2
  b1 = b1
  k1 = k1
  k2 = k2
  u1 = u1
  x = x
  y = y
  z = z
  None = None
  Workers = {w1, w2}
  Buckets = {b1}
  Keys = {k1, k2}
  Documents = {x, y, z}
  Bodies <- MCOneBody
  DeleteLists <- MCDeleteLists
  MaxId = 2
  Faulty = TRUE
  Uploads = {u1}
  PartNumbers = {1}
  CompleteLists <- MCSingleLists
  MinPartSize = 1
SYMMETRY MCRaceSymmetry
INVARIANTS
  MPTypeOK
  NoCrossKeySharing
PROPERTIES
  DamageStaysInKey
