SPECIFICATION SSpec
CONSTANTS
  Procs = {p1, p2}
  Main = Main
  Services = {wifi, eth}
  Rules = {r1, r2}
  Ephemeral = {e1}
  Legacy = legacy
  Pinned = {}
  None = None
  Default = wifi
  MaxFails = 0
  MaxCrash = 0
  CrashAnywhere = FALSE
INVARIANT AppliedIsSaved
