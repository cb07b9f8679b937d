CONSTANTS
  c1 = c1
  c2 = c2
  c3 = c3
  u1 = u1
  u2 = u2
  nobody = nobody
  pw1 = pw1
  pw2 = pw2
  None = None
  UserList <- MCUserList
  Password <- MCPassword
  Lookups <- MCLookups
  Conns = {c1, c2, c3}
  Names = {u1, u2}
  Guesses = {pw1}
  MaxLookups = 0
SPECIFICATION Spec
CHECK_DEADLOCK FALSE
INVARIANT LoginGenuine
