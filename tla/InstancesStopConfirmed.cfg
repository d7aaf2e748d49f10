SPECIFICATION InstanceSpec
CONSTANTS
  PIDs = {p1, p2, p3}
  None = None
  MaxRuns = 4
INVARIANT StopHitsConfirmed
CHECK_DEADLOCK FALSE
