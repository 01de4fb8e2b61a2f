SPECIFICATION Spec
CONSTANTS
  Endpoint = {e1, e2}
  None = None
  Request = {r1, r2}
  Minute = 1
  BreakerWindow = 2
  PurgeAge = 2
  EndpointPerMinute = 2
  DevicePerMinute = 2
  BreakerMax = 2
  BreakerMin = 2
  RatioInverse = 2
  Prompt = TRUE
  MaxNow = 1
  MaxStarts = 5
SYMMETRY Symmetry
INVARIANTS CountsHappened EndpointLimit FairShareKept BreakerHolds CeilingOvershoot
CHECK_DEADLOCK FALSE
