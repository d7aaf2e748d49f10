SPECIFICATION FairSpec
CONSTANTS
  Clients = {c1}
  Workers = {w1, w2}
  ProxyCores = {x1}
  FwdCores = {f1}
  Ifaces = {en0}
  None = None
  MaxGen = 1
  Timeouts = TRUE
INVARIANTS
  TypeOK
  SingleOwner
  PublishedIsUp
  ListenerOwned
PROPERTY CallersReturn
