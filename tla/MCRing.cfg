SPECIFICATION FairSpec
CONSTANTS
  Callers = {p1}
  Nobody = Nobody
  Requests <- CancellingRequests
  CountBound = 7
  CycleBound = 4
INVARIANTS
  TypeOK
  OnePainter
  CyclesAsAsked
PROPERTIES
  StoreReturns
  AnimationEnds
CHECK_DEADLOCK FALSE
