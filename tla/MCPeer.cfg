SPECIFICATION Spec
CONSTANTS
  RIO_BUFSIZE = 2
  MAXLINE = 4
  MaxCommands = 5
  MaxDeaths = 2
INVARIANTS
  TypeOK
  AnswersInStep
  StatusTellsConnection
PROPERTIES
  CommandReturns
CHECK_DEADLOCK FALSE
