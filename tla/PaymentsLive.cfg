CONSTANTS
  o1 = o1
  Order <- OneOrder
  AdOrder <- OneOrder
  Key = {k1}
  OrderOf <- AllKeysOfO1
  Request = {}
  TargetOf <- AllRequestsOfO1
  Api = {a1}
  Worker = {w1}
  Amount = 1
  MaxAttempts = 2
  MaxFaults = 1
  Dashboard <- FullOnly
  NoKey = NoKey
  NoEvent = NoEvent
  NoRequest = NoRequest
SPECIFICATION FairSpec
CHECK_DEADLOCK FALSE
PROPERTIES
  ChargeResolved
  CanceledAtTossConverges
