SPECIFICATION CoSpec
CONSTANTS
  User = user
  Loop = loop
  Clients = {user, loop}
  Workers = {w1, w2}
  ProxyCores = {x1}
  FwdCores = {f1}
  Ifaces = {en0}
  None = None
  MaxGen = 0
  Timeouts = FALSE
  OutCap = 1
  Threshold = 2
  MaxChanges = 0
  Overlap = TRUE
SYMMETRY CoSymmetry
INVARIANT NoTunLoop
