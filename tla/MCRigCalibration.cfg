SPECIFICATION FairSpec
CONSTANTS
  Devices = {front, side}
  Restarting = {front}
  Required = 1
  MaxJobs = 2
  MaxSession = 2
  MaxFrames = 3
  MaxCrashes = 1
INVARIANTS
  
  InstalledRigComplete
PROPERTIES
  PublishedUnderActiveRig
  CalibrationEnds
CHECK_DEADLOCK FALSE
