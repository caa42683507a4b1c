SPECIFICATION FairSpec
CONSTANTS
  Rates <- SomeRates
  Events = {"FF", "WAKEUP"}
INVARIANTS
  TypeOK
  EventsServed
  OffWhenUnused
  StreamFlows
  PollingAlive
PROPERTIES
  PollsAgain
CHECK_DEADLOCK FALSE
