CONSTANTS
  c1 = c1
  c2 = c2
  q1 = q1
  NoBody = NoBody
  IDs = {1}
  Clients = {c1, c2}
  Queues = {q1}
  QueueOf <- OneProcess
  LeaseDurations = {1}
  Delays = {0}
  MaxRetries = {2}
  Disturbances = {"store", "crash"}
  Lags = {0, 1}
  MaxNow = 3
  MaxFresh = 4
SYMMETRY Symmetry
SPECIFICATION Spec
INVARIANTS
  TypeOK
  PayloadIntact
  PublishedBodyTracked
  NoLostJob
  NeverRedelivered
  CompletedOnce
  MutualExclusion
PROPERTY ActsAsOneTable
