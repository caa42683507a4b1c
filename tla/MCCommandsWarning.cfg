SPECIFICATION CommandSpec
CONSTANTS
  mainT = mainT
  diagT = diagT
  debugT = debugT
  Pushers = {diagT, debugT}
  Main = mainT
  Diag = diagT
  Debug = debugT
  Free = Free
  Ticker = Ticker
  Calls <- ListenerCalls
  SCH_BUFF_MAX = 4
  Commands <- OneCommand
  MaxReceived <- ThreeForDiag
PROPERTIES
  WarningIsTrue
CHECK_DEADLOCK FALSE
