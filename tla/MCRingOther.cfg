SPECIFICATION Spec
CONSTANTS
  Callers = {p1}
  Nobody = Nobody
  Requests <- OtherRequests
  CountBound = 7
  CycleBound = 1
INVARIANTS
  OtherCancelled
CHECK_DEADLOCK FALSE
