CONSTANTS
  Cells <- MCCells
  Images <- MCImages
  RegFiles <- MCRegFiles
  Garbage <- MCGarbage
  Traces <- MCTraces
  MaxInsns = 6
SPECIFICATION Spec
INVARIANTS
  TypeOK
  WritesNotForgotten
PROPERTIES
  FollowsISA
  UsedLinesAreTrue
CHECK_DEADLOCK FALSE
