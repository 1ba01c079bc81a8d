SPECIFICATION FairSpec
CONSTANTS
  Keys = {1, 2}
  Clients = {c1}
  Workers = {w1, w2}
  Sizes = {1, 2}
  Times = {1}
  Given <- NoTime
  CapacityBytes = 1
  CapacityItems = 0
  Faults = TRUE
  MaxRevision = 2
INVARIANTS ErrorsNeverBlock VictimsExact
PROPERTIES CapacityReached CloseTerminates
CHECK_DEADLOCK FALSE
