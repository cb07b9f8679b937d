CONSTANTS
  c1 = c1
  c2 = c2
  c3 = c3
  u1 = u1
  u2 = u2
  nobody = nobody
  pw1 = pw1
  pw2 = pw2
  None = None
  UserList <- MCUserList
  Password <- MCPassword
  Lookups <- MCLookups
  Conns = {c1, c2}
  Names = {u1, u2, nobody}
  Guesses = {pw1, pw2}
  MaxLookups = 1
SPECIFICATION Spec
CHECK_DEADLOCK FALSE
INVARIANTS
  TypeOK
  NoGhostOnline
  TableExact
  RefusedRightly
  LookupExact
PROPERTIES
  DeadPeerNoticed
  EveryRequestAnswered
