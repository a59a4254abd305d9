\* Two pages of 17 bytes, a leaf of two entries: two short rows nearly fill a page, a row that
\* grows overflows, and a payload can share its page with a row that is repacked later.
CONSTANTS
  Keys = {k1, k2}
  KeyLen <- MCKeyLen
  Lens = {4, 9}
  Keep = Keep
  NoKey = NoKey
  NoAddr = NoAddr
  NPages = 2
  PageCap = 17
  RowMod = 16
  LeafRoom = 18
  PlanRoom = 26
  Schemas = {TRUE, FALSE}
  MaxBatch = 2
  MaxUniqueBatch = 1
SPECIFICATION Spec
SYMMETRY MCSymmetry
INVARIANTS
  TypeOK
  IndexSound
  IndexComplete
  UniqueKeys
  CountExact
  
  FreeExact
PROPERTIES
  AtomicCalls
  AllOrNothing
