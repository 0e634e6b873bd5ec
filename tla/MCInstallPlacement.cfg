SPECIFICATION Spec
CONSTANTS
  MaxFrames = 2
  SecondSession = 3
  MaxGeneration = 2
  MaxPending = 2
  MaxInFlight = 2
  Situations <- Calm
PROPERTIES
  ActivatedAsAccepted
