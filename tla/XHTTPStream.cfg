SPECIFICATION XSpec
CONSTANTS
  Byte = {0, 1}
  MaxChunk = 2
  MaxWrite = 3
  MaxBytes = 4
INVARIANTS
  NoLeak
PROPERTIES
  UploadsInOrder
  DialReturns
  CloseReleases
CHECK_DEADLOCK FALSE
