\* A predicate writes to the database, and the call it belongs to commits after it.
CONSTANTS
  Names = {t, u}
  MaxCommits = 3
  MaxDepth = 1
SPECIFICATION Spec
PROPERTIES
  Isolated
CHECK_DEADLOCK FALSE
