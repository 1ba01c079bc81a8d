SPECIFICATION Spec
CONSTANTS
  Keys = {k1}
  Values = {a, b}
  NoValue = NoValue
  AllowResurrection = FALSE
  Clients = {c1, c2}
  Ops <- MCOpsGC
  Retention = 1
  MaxAttempts = 2
  Faults = FALSE
  MaxNow = 4
  MaxRevision = 3
  a = a
  b = b
SYMMETRY Symmetry
PROPERTY RevisionNeverReused
