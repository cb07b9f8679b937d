CONSTANTS
  NoFile = NoFile
  MaxFile = 4
  Missing = NoFile
  IntLimit = 8
  Commands <- MCCommands
  StackGarbage <- MCStackGarbage
SPECIFICATION Spec
INVARIANTS
  TypeOK
  VerdictRight
  Aligned
PROPERTIES
  EveryFileReported
CHECK_DEADLOCK FALSE
