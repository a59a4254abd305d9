\* A row is deleted, its page is rebuilt, and the row behind it goes: its value stays.
CONSTANTS
  inline = inline
  single = single
  chain2 = chain2
  chain3 = chain3
  Values = {inline, single, chain2, chain3}
  LenOf <- MCLenOf
  InlineMax = 1
  PayloadMax = 5
  NextLen = 1
  PageRoom = 9
  MaxRecs = 2
  NoRef = NoRef
  Gone = Gone
  NPages = 4
  MaxRows = 2
SPECIFICATION Spec
INVARIANTS
  NoneLeaked
