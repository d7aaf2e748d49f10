SPECIFICATION KSpec
CONSTANTS
  k1 = k1
  k2 = k2
  Main = Main
  None = None
  Keys = {k1, k2}
  URLs = {u1}
  Rules = {r1}
  Mgrs = {m1, m2}
  Feeds <- TwoFeeds
  Procs = {p1}
  MaxManual = 2
  MaxStarts = 1
  Serial = TRUE
  MaxFaults = 1
  Commands = {"addLink", "deleteLink", "renameLink", "settings", "addSub", "removeSub", "refresh", "firewallAdd", "firewallRemove", "proxy", "vpn", "off"}
INVARIANT RuntimeRunsEffective
INVARIANT RestartRestores
INVARIANT NoOrphanRuntime
PROPERTY EditKeepsMode
SYMMETRY Interchangeable
