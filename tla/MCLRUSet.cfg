SPECIFICATION Spec
CONSTANTS
  Keys = {1, 2}
  Clients = {c1}
  Workers = {w1}
  Sizes = {1}
  Times = {1, 2}
  Given <- NoTime
  CapacityBytes = 0
  CapacityItems = 1
  Faults = FALSE
  MaxRevision = 2
PROPERTY SetIsAnAccess
CHECK_DEADLOCK FALSE
