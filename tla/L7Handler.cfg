SPECIFICATION Spec
CONSTANTS
  Requests = {r1, r2}
  ConsecutiveFailures = 0
  N = 2
  CBConfigs = {FALSE, TRUE}
  UintMod = 4
  Pages = {"p"}
  CacheConfigs = {FALSE, TRUE}
  Counting = TRUE
  Statuses = {200, 404, 500}
INVARIANTS TypeOK ConnectionsExact SlotsHeld CacheFromBackend
