SPECIFICATION Spec
CONSTANTS
  Keys = {k1}
  Values = {a, b}
  NoValue = NoValue
  AllowResurrection = TRUE
  Clients = {c1, c2}
  Ops <- MCOps
  Retention = 1
  MaxAttempts = 2
  Faults = TRUE
  MaxNow = 3
  MaxRevision = 4
  a = a
  b = b
SYMMETRY Symmetry
INVARIANT TypeOK
PROPERTIES Linearizable UpdatedAtMonotone OnlyExpiredReclaimed
