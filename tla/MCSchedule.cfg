SPECIFICATION FairSpec
CONSTANTS
  mainT = mainT
  debugT = debugT
  Pushers = {mainT, debugT}
  Main = mainT
  Free = Free
  Ticker = Ticker
  Calls <- TwoPushers
  SCH_BUFF_MAX = 4
INVARIANTS
  TypeOK
  OverscanIsHarmless
  OneSlotPerEvent
  NoneStranded
  OnlyTheTakenLeaves
PROPERTIES
  TimerSpec
  EveryEventRuns
