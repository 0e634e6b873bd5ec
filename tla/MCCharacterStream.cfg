SPECIFICATION FairSocketSpec
CONSTANTS
  Subscribers = {first, second}
  NoSocket = none
  MaxFrames = 3
  MaxUnderWay = 2
INVARIANTS
  WaitingIsLatest
  StillTrying
PROPERTIES
  DeliveredInOrder
  CommandsReachBackend
