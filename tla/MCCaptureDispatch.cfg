SPECIFICATION FairSpec
CONSTANTS
  phone1 = phone1
  phone2 = phone2
  DeviceOrder <- TwoPhones
  Captures = {c1, c2, c3}
  MaxConns <- MCConns
  MaxInflight = 2
INVARIANTS
  InflightBounded
  LivePausedDuringCalibration
PROPERTIES
  NewConnectionUnharmed
  LiveKeepsAsking
CHECK_DEADLOCK FALSE
