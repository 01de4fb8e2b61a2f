SPECIFICATION Spec
CONSTANTS
  Device = {d1}
  Token = {t1}
  Subscription = {s1, s2, s3}
  Request = {r1, r2}
  None = None
  KeepInvalid = 1
  SubscriptionLimit = 1
  InvalidRetention = 0
  InactiveAfter = 0
  Day = 1
  MaxNow = 1
SYMMETRY Symmetry
INVARIANTS TypeOK DeliveryKeepsSeen SubscriptionOvershoot
CHECK_DEADLOCK FALSE
