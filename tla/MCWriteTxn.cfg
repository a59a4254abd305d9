\* Two tables, calls two deep, and enough of them to drop a table, create it again and write
\* to it while another call waits.
CONSTANTS
  Names = {t, u}
  MaxCommits = 6
  MaxDepth = 2
SPECIFICATION Spec
INVARIANTS
  TypeOK
  HandlesCurrent
  NamesUnique
PROPERTIES
  HandleKeepsName
  Serial
CHECK_DEADLOCK FALSE
