SPECIFICATION Spec
CONSTANTS
  Requests = {r1, r2}
  ConsecutiveFailures = 1
  N = 1
  MaxReloads = 2
  CBConfigs = {FALSE, TRUE}
  UintMod = 4
INVARIANT TypeOK
PROPERTIES Recovers LeavesRotation
