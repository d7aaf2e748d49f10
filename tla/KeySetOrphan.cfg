SPECIFICATION KSpec
CONSTANTS
  k1 = k1
  k2 = k2
  Main = Main
  None = None
  Keys = {k1, k2}
  URLs = {u1}
  Rules = {r1}
  Mgrs = {m1, m2, m3}
  Feeds <- TwoFeeds
  Procs = {p1, p2}
  MaxManual = 2
  MaxStarts = 0
  Serial = FALSE
  MaxFaults = 0
  Commands = {"addLink", "proxy"}
\* One finding at a time: each of these lines fails by itself.
INVARIANT NoOrphanRuntime
\* PROPERTY AddedKeyIsKept
