CONSTANTS
  c1 = c1
  c2 = c2
  q1 = q1
  NoBody = NoBody
  IDs = {1, 2}
  Clients = {c1}
  Queues = {q1}
  QueueOf <- OneProcess
  LeaseDurations = {1}
  Delays = {0, 1}
  MaxRetries = {1, 2}
  Disturbances = {}
  Lags = {0}
  MaxNow = 3
  MaxFresh = 5
SPECIFICATION Spec
INVARIANT AttemptsBounded
PROPERTY FIFO
