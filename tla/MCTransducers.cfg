CONSTANTS
  Streams <- MCStreams
  Programs <- MCPrograms
  BufSize = 1
  PipeSize = 2
SPECIFICATION Spec
CHECK_DEADLOCK FALSE
INVARIANTS
  TypeOK
  OutputIsValue
  TakenOnce
PROPERTY AllEnd
