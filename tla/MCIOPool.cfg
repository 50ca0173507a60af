CONSTANTS
  N = 2
  Slaves = {w1, w2}
  Jobs = {j1, j2, j3}
  NoJob = NoJob
  Hanging = {j3}
SPECIFICATION FairSpec
INVARIANTS TypeOK Ownership CountAccounts FreeSlotAhead
PROPERTIES RequestKept ImplementsJobPool AcceptedIsAnswered SlavesEnd
CHECK_DEADLOCK FALSE
