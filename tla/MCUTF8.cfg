CONSTANTS
  NoFile = NoFile
  MaxFile = 4
  Missing = NoFile
  IntLimit = 8
  Commands <- MCCommands
  StackGarbage <- MCStackGarbage
SPECIFICATION Spec
CHECK_DEADLOCK FALSE
INVARIANT UTF8Whole
