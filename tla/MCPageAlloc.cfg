\* A file of five pages that grows by two, and maps that name ten pages: page 1 has room for
\* one table's maps and the catalog's, a carrier page for those of two more; page 10
\* is refused as a data page.
CONSTANTS
  Names = {t1, t2, t3}
  Indexed = {t1}
  NoTable = NoTable
  Initial = 5
  Extension = 2
  MapLimit = 10
  PairsOnOne = 2
  PairsElse = 2
  RowsPerPage = 3
  MaxPages = 11
  MaxCatalog = 6
SPECIFICATION Spec
INVARIANTS
  TypeOK
  PagesUnshared
  InUseMarked
  MapsUnshared
  
PROPERTIES
  PagesKept
CHECK_DEADLOCK FALSE
