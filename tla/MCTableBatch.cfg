\* Updates of the unique column may select two rows.
CONSTANTS
  Keys = {k1, k2, k3}
  KeyLen <- MCKeyLen
  Lens = {4, 9}
  Keep = Keep
  NoKey = NoKey
  NoAddr = NoAddr
  NPages = 2
  PageCap = 17
  RowMod = 16
  LeafRoom = 18
  PlanRoom = 26
  Schemas = {TRUE}
  MaxBatch = 2
  MaxUniqueBatch = 2
SPECIFICATION Spec
SYMMETRY MCSymmetry
INVARIANTS
  UniqueKeys
