CONSTANTS
  Count = 2
  LogCount = 1
  NULL = NULL
  InputLen = 2
  MaxPieces = 2
  MaxInput = 2
  MaxLog = 2
  MaxConn = 2

SPECIFICATION FairSpec

CHECK_DEADLOCK FALSE

PROPERTY
  OutputGoesOn
