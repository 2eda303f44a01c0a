SPECIFICATION FairSpec
CONSTANTS
  Keys = {7, 215, 243}
  MaxKeys = 2
  MaxFaults = 1
INVARIANTS
  TypeOK
  DecodedIsPressed
PROPERTIES
  ReportsWholeFrame
  LastKeyIsDecoded
CHECK_DEADLOCK FALSE
