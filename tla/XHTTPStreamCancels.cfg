SPECIFICATION XSpec
CONSTANTS
  Byte = {0, 1}
  MaxChunk = 2
  MaxWrite = 3
  MaxBytes = 4
INVARIANT CloseCancelsAll
CHECK_DEADLOCK FALSE
