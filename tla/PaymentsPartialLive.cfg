CONSTANTS
  o1 = o1
  Order <- OneOrder
  AdOrder <- NoOrder
  Key = {k1}
  OrderOf <- AllKeysOfO1
  Request = {}
  TargetOf <- AllRequestsOfO1
  Api = {a1}
  Worker = {}
  Amount = 2
  MaxAttempts = 1
  MaxFaults = 0
  Dashboard <- PartialOnly
  NoKey = NoKey
  NoEvent = NoEvent
  NoRequest = NoRequest
SPECIFICATION FairSpec
CHECK_DEADLOCK FALSE
PROPERTY PartialCancelSettles
