SPECIFICATION Spec
CONSTANTS
  Callers = {p, q}
  IPs = {"a"}
  Second = 3
  TwiceRates = {0, 1, 2, 5}
  MaxCount = 5
INVARIANTS
  TypeOK AtMostLimitPerSecond DeniedOnlyWhenBusy
