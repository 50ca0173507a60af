CONSTANTS
  i0 = i0
  i1 = i1
  i2 = i2
  i3 = i3
  na = na
  nb = nb
  nx = nx
  Names = {na, nb, nx}
  Junk = nx
  Blocks = {1, 2, 3}
  Inodes = {i0, i1, i2, i3}
  Root = i0
  None = None
  SlotCount = 2
  Asked <- MCAsked
  Trees <- MCTrees
  NameLen <- MCLength
  BufferSize = 45
  Requests = 2
SPECIFICATION FairSpec
INVARIANTS TypeOK CopyIsWhole AnswerIsTrue OthersKept
PROPERTIES RequestEnds
CHECK_DEADLOCK FALSE
