SPECIFICATION Spec
CONSTANTS
  Keys = {1, 2}
  Clients = {c1, c2}
  Workers = {w1, w2}
  Sizes = {1, 2}
  Times = {1}
  Given <- NoneOrEpoch
  CapacityBytes = 2
  CapacityItems = 1
  Faults = TRUE
  MaxRevision = 2
SYMMETRY Symmetry
INVARIANTS TypeOK SetsSurvive VictimsExact QuietAfterClose
PROPERTY UsedEntriesStay
CHECK_DEADLOCK FALSE
