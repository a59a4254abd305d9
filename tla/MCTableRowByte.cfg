\* A page reaches more rows than its row byte can count.
CONSTANTS
  Keys = {k1, k2}
  KeyLen <- MCKeyLen
  Lens = {4, 9}
  Keep = Keep
  NoKey = NoKey
  NoAddr = NoAddr
  NPages = 2
  PageCap = 17
  RowMod = 2
  LeafRoom = 18
  PlanRoom = 26
  Schemas = {TRUE, FALSE}
  MaxBatch = 2
  MaxUniqueBatch = 1
SPECIFICATION Spec
SYMMETRY MCSymmetry
INVARIANTS
  IndexSound
