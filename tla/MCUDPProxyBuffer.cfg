SPECIFICATION Spec
CONSTANTS
  k1 = k1
  k2 = k2
  k3 = k3
  Packets = {k1, k2, k3}
  Requests = {k1, k2, k3}
  Clients = {"a", "b"}
  ClientOf <- TwoClients
  Hostnames = {}
  ConsecutiveFailures = 0
  N = 1
  CBConfigs = {FALSE, TRUE}
  UintMod = 4
INVARIANT PayloadIntact
