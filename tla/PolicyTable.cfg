SPECIFICATION TableSpec
CONSTANTS
  Threshold = 3
  MaxRun = 6
INVARIANTS
  CommittedFollowsRuns
  NoVPNUnderCisco
PROPERTIES
  FlipNeedsRun
