CONSTANTS
  o1 = o1
  Order <- OneOrder
  AdOrder <- OneOrder
  Key = {k1, k2}
  OrderOf <- AllKeysOfO1
  Request = {}
  TargetOf <- AllRequestsOfO1
  Api = {a1, a2}
  Worker = {}
  Amount = 1
  MaxAttempts = 1
  MaxFaults = 0
  Dashboard <- NoDashboard
  NoKey = NoKey
  NoEvent = NoEvent
  NoRequest = NoRequest
SPECIFICATION Spec
CHECK_DEADLOCK FALSE
INVARIANT RefundTrailNamesCharge
