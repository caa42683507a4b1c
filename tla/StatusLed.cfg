CONSTANTS
  Flags = {"disable"}
  Leds = {"B"}
SPECIFICATION FairSpec
INVARIANTS TypeOK LedShowsState CancelsTheLiving
PROPERTIES ReadyFollows LedFollowsWifi
