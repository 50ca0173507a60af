CONSTANTS
  B = 2
  WORD = 8
  Sizes = {0, 1, 5, 6, 17}
  Counts = {0, 1, 3, 7}
  Lengths = {0, 1, 2, 3}
  MaxPos = 14
SPECIFICATION FairSpec
INVARIANTS TypeOK HandleAccounts StraightIsRight UploadIntact
PROPERTIES RangeEnds
CHECK_DEADLOCK FALSE
