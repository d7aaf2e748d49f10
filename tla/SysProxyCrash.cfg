SPECIFICATION SSpec
CONSTANTS
  Procs = {p1}
  Main = Main
  Services = {wifi, eth}
  Rules = {r1, r2}
  Ephemeral = {e1, e2}
  Legacy = legacy
  Pinned = {pin}
  None = None
  Default = wifi
  MaxFails = 0
  MaxCrash = 1
  CrashAnywhere = TRUE
INVARIANT NoDeadURLAfterRestart
