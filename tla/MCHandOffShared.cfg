CONSTANTS
  NumConns = 3
  Cells = {p1, p2, p3}
  Fds = {3, 4, 5}
  None = None
SPECIFICATION Spec
CHECK_DEADLOCK FALSE
INVARIANT ConnectionsServedApart
