SPECIFICATION Spec
CONSTANTS
  Viewers = {viewer}
  Worlds = {"here", "there"}
  Parts = 2
  MaxScans = 2
  MaxUnderWay = 3
INVARIANTS ViewersAgree
PROPERTIES ClearedStaysCleared
