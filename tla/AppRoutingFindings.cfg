SPECIFICATION ASpec
CONSTANTS
  PIDs = {p1, p2}
  Apps = {a, b}
  Requests = {r1}
  None = None
  MaxStarts = 2
  MaxCalls = 2
  MaxEnds = 1
SYMMETRY Alike
CHECK_DEADLOCK FALSE
\* One finding at a time: each of these lines fails by itself.
INVARIANT CaptureHasReason
\* INVARIANT RoutedIsCaptured
\* PROPERTY NothingCapturedWhenDown
