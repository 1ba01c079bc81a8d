CONSTANTS
  c1 = c1
  c2 = c2
  q1 = q1
  NoBody = NoBody
  IDs = {1}
  Clients = {c1}
  Queues = {q1}
  QueueOf <- OneProcess
  LeaseDurations = {1, 2}
  Delays = {0}
  MaxRetries = {1}
  Disturbances = {"store", "crash", "close"}
  Lags = {0}
  MaxNow = 3
  MaxFresh = 3

SPECIFICATION FairSpec
PROPERTIES
  LeaseRecovered
  CompletedCleaned
  CloseTerminates
