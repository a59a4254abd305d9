\* Two processes and three calls of Save: two may overlap, and a third follows a crash.
CONSTANTS
  Procs = {p1, p2}
  MaxSaves = 3
SPECIFICATION FairSpec
INVARIANTS
  TypeOK
  NeverTorn
  ReadsWhole
  
PROPERTIES
  SavesFile
  SavesEnd
