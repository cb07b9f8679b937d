CONSTANTS
  None = None
  Workers = {w1, w2}
  Files <- MCFiles
  Unreadable <- MCUnreadable
  NumBits = 2
  Period = 2
SPECIFICATION Spec
CHECK_DEADLOCK FALSE
INVARIANTS
  TypeOK
  BitsConserved
  ScreenCurrent
PROPERTY EndsWithTotal
