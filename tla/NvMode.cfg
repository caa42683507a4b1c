SPECIFICATION FairSpec
CONSTANT
  Trigger = 4
INVARIANTS
  TypeOK
  CoilsReleased
  HardwareFollowsMode
PROPERTIES
  HysteresisSpec
  Settles
