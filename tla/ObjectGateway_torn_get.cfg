SPECIFICATION Spec
CONSTANTS
  w1 = w1
  w2 = w2
  b1 = b1
  k1 = k1
  k2 = k2
  x = x
  y = y
  z = z
  None = None
  Workers = {w1, w2}
  Buckets = {b1}
  Keys = {k1, k2}
  Documents = {x, y, z}
  Bodies <- MCBodies
  DeleteLists <- MCDeleteLists
  MaxId = 3
  Faulty = FALSE
SYMMETRY MCSymmetry
INVARIANTS
  GetETagMatchesBody
