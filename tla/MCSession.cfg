CONSTANTS
  Clients = {c1, c2}
  Addr = {a1, a2}
  Null = Null
  j1 = j1
  j2 = j2
  Jobs = {j1, j2}
  Data = {j1}
  Capacity = 2
  Threads = 2
  Length <- MCLength
  NoKey = NoKey
  Torn = Torn
SPECIFICATION Spec
INVARIANTS RightAddressee LoginIsOwn KeyIsWhole SecretKept LengthKept
SYMMETRY Symmetry
