SPECIFICATION InstanceSpec
CONSTANTS
  PIDs = {p1, p2, p3}
  None = None
  MaxRuns = 4
INVARIANTS
  OneDaemon
  RunningIsFound
  TakeoverIsSafe
CHECK_DEADLOCK FALSE
