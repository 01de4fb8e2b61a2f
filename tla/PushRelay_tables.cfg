SPECIFICATION Spec
CONSTANTS
  Device = {d1, d2, d3}
  Token = {t1,t2}
  Subscription = {s1}
  Request = {r1, r2}
  None = None
  KeepInvalid = 1
  SubscriptionLimit = 1
  InvalidRetention = 0
  InactiveAfter = 1
  Day = 1
  MaxNow = 0
SYMMETRY Symmetry
INVARIANTS OneActivePerToken GoneIsTrue
PROPERTIES InvalidationHasCause ImplementsRegistry
CHECK_DEADLOCK FALSE
