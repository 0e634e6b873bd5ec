SPECIFICATION Spec
CONSTANTS
  MaxFrames = 3
  SecondSession = 3
  MaxGeneration = 2
  MaxPending = 2
  MaxInFlight = 2
  Situations <- Mixed
INVARIANTS
  FlagsInStep
  ClientNeverAhead
  NoHitsWithoutTracking
  CalmHitboxesAreShown
  CalmShownCanBeHit
