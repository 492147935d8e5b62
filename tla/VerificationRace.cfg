CONSTANTS
  Event = {e1, e2}
  Kind <- Kinds
  Workload <- OneKind
  Worker = {w1, w2}
  MaxAttempts = 2
  MaxReceive = 2
  MaxFaults = 1
  MaxMishaps = 2
  MaxDecisions = 1
  NoMessage = NoMessage
SPECIFICATION Spec
CHECK_DEADLOCK FALSE
PROPERTY AdminDecisionStands
