CONSTANTS
  Ports = {p1, p2, p3}
  Taken = {p3}
  Threads = 2
  Wait = 3
  MaxStarts = 3
SPECIFICATION FairSpec
PROPERTY SilentTimedOut
CHECK_DEADLOCK FALSE
