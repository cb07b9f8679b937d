CONSTANTS
  None = None
  Workers = {w1, w2}
  Entries <- MCEntries
  Capacity = 2
SPECIFICATION Spec
CHECK_DEADLOCK FALSE
PROPERTY EachLikeFauxgrep
