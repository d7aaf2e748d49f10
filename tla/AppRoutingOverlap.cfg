SPECIFICATION ASpec
CONSTANTS
  PIDs = {p1, p2}
  Apps = {a, b}
  Requests = {r1, r2}
  None = None
  MaxStarts = 2
  MaxCalls = 2
  MaxEnds = 1
SYMMETRY Alike
CHECK_DEADLOCK FALSE
INVARIANT EnabledIsCaptured
CONSTRAINT Apart
