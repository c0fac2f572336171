SPECIFICATION FairSpec
CONSTANTS
  Conns = {c1, c2}
  Requests = {c1, c2}
  ConsecutiveFailures = 0
  N = 1
  CBConfigs = {FALSE, TRUE}
  UintMod = 4
INVARIANTS TypeOK ConnectionsExact WaitGroupExact SlotsHeld NoSocketLeak
PROPERTIES ImplementsDrain CloseEndsHandler WaitTerminates
