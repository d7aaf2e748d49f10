SPECIFICATION KSpec
CONSTANTS
  k1 = k1
  k2 = k2
  Main = Main
  None = None
  Keys = {k1, k2}
  URLs = {u1}
  Rules = {r1}
  Mgrs = {m1, m2, m3}
  Feeds <- ChangingFeeds
  Procs = {p1, p2}
  MaxManual = 0
  MaxStarts = 0
  Serial = FALSE
  MaxFaults = 0
  Commands = {"addSub", "removeSub", "refresh"}
INVARIANT ReportedIsBuilt
PROPERTY RefreshNeverResurrects
SYMMETRY Interchangeable
