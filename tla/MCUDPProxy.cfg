SPECIFICATION Spec
CONSTANTS
  k1 = k1
  k2 = k2
  k3 = k3
  Packets = {k1, k2}
  Requests = {k1, k2}
  Clients = {"a"}
  ClientOf <- OneClient
  Hostnames = {1}
  ConsecutiveFailures = 0
  N = 2
  CBConfigs = {FALSE, TRUE}
  UintMod = 4
SYMMETRY Sym
INVARIANTS TypeOK WaitGroupExact ConnectionsSettle NoConnLeak
