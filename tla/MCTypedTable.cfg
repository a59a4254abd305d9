\* Bytes of eight values; three rows at most, and three AutoNumbers.
CONSTANTS
  Base = 8
  Letters = {100, 101, 102, 103, 104, 127, 150, 65279, 65535}
  Wide = {150, 65279, 65535}
  Upper = {101, 103}
  Astral = {150}
  Dips = {57}
  MaxRow = 60
  Schemas <- MCSchemas
  Inputs <- MCInputs
  Sets <- MCSets
  Wheres <- MCWheres
  Queries <- MCQueries
  MaxRows = 3
  MaxAuto = 2
SPECIFICATION Spec
INVARIANTS
  TypeOK
  
  
  WritesWithinSelect
  
