SPECIFICATION Spec
CONSTANTS
  Clients = {c1}
  Workers = {w1}
  ProxyCores = {x1, x2}
  FwdCores = {f1, f2}
  Ifaces = {en0, en1}
  None = None
  MaxGen = 2
  Timeouts = FALSE
SYMMETRY Symmetry
INVARIANT StoppedMeansNoListener
