\* Pages with room for one full chunk, or for a few short ones, with the proportions of the code.
CONSTANTS
  inline = inline
  single = single
  chain2 = chain2
  chain3 = chain3
  Values = {inline, single, chain2, chain3}
  LenOf <- MCLenOf
  InlineMax = 1
  PayloadMax = 5
  NextLen = 1
  PageRoom = 9
  MaxRecs = 2
  NoRef = NoRef
  Gone = Gone
  NPages = 4
  MaxRows = 2
SPECIFICATION Spec
INVARIANTS
  TypeOK
  ChunksUnshared
  ChainsSpread
  PagesAccounted
PROPERTIES
  ValuesReadBack
