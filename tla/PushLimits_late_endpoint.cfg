SPECIFICATION Spec
CONSTANTS
  Endpoint = {e1}
  None = None
  Request = {r1, r2}
  Minute = 1
  BreakerWindow = 1
  PurgeAge = 1
  EndpointPerMinute = 1
  DevicePerMinute = 1
  BreakerMax = 1
  BreakerMin = 1
  RatioInverse = 2
  Prompt = FALSE
  MaxNow = 1
  MaxStarts = 4
SYMMETRY Symmetry
INVARIANTS EndpointLimit
CHECK_DEADLOCK FALSE
