SPECIFICATION Spec
CONSTANTS
  Procs = {p1}
  NoProc = NoProc
  Malformed = Malformed
  Requests <- MotionRequests
INVARIANT
  DirComment
CHECK_DEADLOCK FALSE
