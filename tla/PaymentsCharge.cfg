CONSTANTS
  o1 = o1
  Order <- OneOrder
  AdOrder <- OneOrder
  Key = {k1, k2}
  OrderOf <- AllKeysOfO1
  Request = {}
  TargetOf <- AllRequestsOfO1
  Api = {a1, a2}
  Worker = {w1}
  Amount = 1
  MaxAttempts = 1
  MaxFaults = 1
  Dashboard <- FullOnly
  NoKey = NoKey
  NoEvent = NoEvent
  NoRequest = NoRequest
SPECIFICATION Spec
CHECK_DEADLOCK FALSE
SYMMETRY Alike
INVARIANTS
  IInv
  PaidOrderWasCharged
  NeverRefundsSettledOrder
  OneChargePerOrder
PROPERTIES
  CanceledIsFinal
