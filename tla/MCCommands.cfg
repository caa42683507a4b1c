SPECIFICATION CommandFairSpec
CONSTANTS
  mainT = mainT
  diagT = diagT
  debugT = debugT
  Pushers = {mainT, diagT, debugT}
  Main = mainT
  Diag = diagT
  Debug = debugT
  Free = Free
  Ticker = Ticker
  Calls <- MainCalls
  SCH_BUFF_MAX = 4
  Commands <- TwoDiagCommands
  MaxReceived <- TwoForDiag
INVARIANTS
  CommandTypeOK
  NoLostCommand
PROPERTIES
  LastCommandRuns
CHECK_DEADLOCK FALSE
