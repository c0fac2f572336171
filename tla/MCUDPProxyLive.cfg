SPECIFICATION FairSpec
CONSTANTS
  k1 = k1
  k2 = k2
  k3 = k3
  Packets = {k1, k2}
  Requests = {k1, k2}
  Clients = {"a"}
  ClientOf <- OneClient
  Hostnames = {}
  ConsecutiveFailures = 0
  N = 1
  CBConfigs = {FALSE}
  UintMod = 4
PROPERTIES FlowsEnd WaitTerminates
