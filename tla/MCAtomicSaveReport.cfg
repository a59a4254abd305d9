\* The sync of the directory fails, Save reports success, and a crash undoes it.
CONSTANTS
  Procs = {p1, p2}
  MaxSaves = 2
SPECIFICATION Spec
INVARIANTS
  ReportedOnDisk
