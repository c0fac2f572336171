SPECIFICATION Spec
CONSTANTS
  p = p
  q = q
  Pools <- MCPools
  CfgWeight <- MCWeights
  Hash <- MCHash
  CBEnabled = TRUE
  MaxConns = 1
  UintMod = 8
INVARIANTS
  TypeOK PickedWasAvailable NilOnlyIfNoneAvailable LeastLoaded IPAffinity
  WeightsBalanced NoStarvation
