CONSTANTS
  o1 = o1
  Order <- OneOrder
  AdOrder <- NoOrder
  Key = {k1}
  OrderOf <- AllKeysOfO1
  Request = {r1, r2}
  TargetOf <- AllRequestsOfO1
  Api = {a1, a2}
  Worker = {}
  Amount = 2
  MaxAttempts = 1
  MaxFaults = 1
  Dashboard <- Both
  NoKey = NoKey
  NoEvent = NoEvent
  NoRequest = NoRequest
SPECIFICATION Spec
CHECK_DEADLOCK FALSE
SYMMETRY Alike
INVARIANTS
  ApprovedMeansRefunded
