SPECIFICATION Spec
CONSTANTS
  Clients = {c1}
  Workers = {w1, w2}
  ProxyCores = {x1}
  FwdCores = {f1, f2}
  Ifaces = {en0}
  None = None
  MaxGen = 1
  Timeouts = TRUE
SYMMETRY Symmetry
\* One finding at a time: each of these lines fails by itself.
INVARIANT ForwarderOwned
\* PROPERTY LateCompletionDiscarded
\* PROPERTY NewerProxySurvives
