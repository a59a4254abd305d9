\* A page of 24 bytes: four rows fill it, or two that are rewritten with longer contents.
CONSTANTS
  short = short
  mid = mid
  long = long
  Data = {short, mid, long}
  DataLen <- MCDataLen
  Pointer = Pointer
  Blank = Blank
  HeadLen = 2
  PageSize = 24
  MaxSlots = 4
SPECIFICATION Spec
INVARIANTS
  TypeOK
  RowsApart
  FreeSeesNoOther
PROPERTIES
  RowsReadBack
CHECK_DEADLOCK FALSE
