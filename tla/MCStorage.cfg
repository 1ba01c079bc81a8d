SPECIFICATION Spec
CONSTANTS
  Clients = {c1, c2}
  Closers = {x1, x2}
  Uploaders = {u1, u2}
  Keys = {k1, k2}
  Values = {a}
  Nothing = Nothing
  Untouched = Untouched
  Faults = TRUE
  MaxOps = 2
  Lengths = {0, 1, 2}
  TopByte = 1
SYMMETRY Symmetry
CONSTRAINT Bounded
INVARIANTS TypeOK HandleOutlivesUse TxnEndedOnce CloseReturnsClosed SizesExact RangesExact ScansExact
PROPERTY Serializable
CHECK_DEADLOCK FALSE
