SPECIFICATION Spec
CONSTANTS
  Conns = {c1, c2}
  Requests = {c1, c2}
  ConsecutiveFailures = 0
  N = 1
  CBConfigs = {FALSE, TRUE}
  UintMod = 4
INVARIANT WaitDoesNotPanic
