CONSTANTS
  B = 2
  WORD = 8
  Sizes = {5, 6}
  Counts = {3}
  Lengths = {2}
  MaxPos = 14
SPECIFICATION Spec
INVARIANT AskedBlockIsSent
CHECK_DEADLOCK FALSE
