SPECIFICATION KSpec
CONSTANTS
  k1 = k1
  k2 = k2
  Main = Main
  None = None
  Keys = {k1, k2}
  URLs = {u1}
  Rules = {r1}
  Mgrs = {m1, m2}
  Feeds <- TwoFeeds
  Procs = {p1}
  MaxManual = 2
  MaxStarts = 0
  Serial = TRUE
  MaxFaults = 0
  Commands = {"addSub", "settings"}
PROPERTY SubscriptionLinksNotSaved
