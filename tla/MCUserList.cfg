CONSTANTS
  Clients = {c1, c2, c3, c4, 1, 2, 3, 4, 5, 6, 7, 8}
  Mem = {m1, m2, m3, m4, 11, 12, 13, 14, 15, 16, 17, 18}
  Few = {c1, c2, c3, c4}
  Spare = {m1, m2, m3, m4}
  Movers = {2, 5, 8}
  Null = Null
  CAP = 3
  ClearAfter = 2
SPECIFICATION MCSpec
INVARIANTS TypeOK ListAccounts ShortLists
PROPERTIES NobodyElseLeaves
SYMMETRY Symmetry
CHECK_DEADLOCK FALSE
