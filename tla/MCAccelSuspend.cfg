SPECIFICATION Spec
CONSTANTS
  Rates <- SomeRates
  Events = {"FF"}
INVARIANT
  WakeUpStaysOn
CHECK_DEADLOCK FALSE
