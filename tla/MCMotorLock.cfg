SPECIFICATION FairSpec
CONSTANTS
  Procs = {p1, p2}
  NoProc = NoProc
  Malformed = Malformed
  Requests <- LockRequests
INVARIANTS
  LockDiscipline
  InfoSnapshot
PROPERTIES
  CallReturns
CHECK_DEADLOCK FALSE
