CONSTANTS
  Cells <- MCCells
  Images <- SignedImages
  RegFiles <- MCRegFiles
  Garbage <- MCGarbage
  Traces <- NoTraces
  MaxInsns = 3
SPECIFICATION FairSpec
PROPERTIES
  ImplementsISA
CHECK_DEADLOCK FALSE
