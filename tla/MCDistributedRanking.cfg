SPECIFICATION Spec
CONSTANTS
  Servers = {"s1", "s2"}
  Places <- MCPlaces
  DefaultMaxNofRanks = 2
  Ranks = {1}
INVARIANTS
  PageIsGlobal
CHECK_DEADLOCK FALSE
