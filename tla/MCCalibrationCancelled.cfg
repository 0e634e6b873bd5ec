SPECIFICATION Spec
CONSTANTS
  Devices = {front, side}
  Restarting = {front}
  Required = 2
  MaxJobs = 2
  MaxSession = 2
  MaxFrames = 3
  MaxCrashes = 1
INVARIANTS
  CancelledNeverInstalls
CHECK_DEADLOCK FALSE
