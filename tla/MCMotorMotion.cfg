SPECIFICATION FairSpec
CONSTANTS
  Procs = {p1}
  NoProc = NoProc
  Malformed = Malformed
  Requests <- MotionRequests
INVARIANTS
  TypeOK
  MotorPower
  PhaseTracksStep
  BrakeOnlyInsideForwardStep
  RunTakesCycleSteps
PROPERTIES
  TriggerRuns
CHECK_DEADLOCK FALSE
