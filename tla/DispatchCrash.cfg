SPECIFICATION Spec
CONSTANTS
  t1 = t1
  t2 = t2
  s1 = s1
  s2 = s2
  c1 = c1
  c2 = c2
  None = None
  TaskIds = {t1}
  Slots = {s1, s2}
  Clients = {c1, c2}
  QueueOf <- OneQueue
  RetryDelay <- Backoffs
  RequestedLimits <- NoRequests
  NumQueues = 1
  DefaultRate = 1
  DefaultConcurrent = 2
  MaxRetries = 1
  AutoCreateQueues = TRUE
  ScheduleDelays = {0, 1}
  MaxInserts = 2
  MaxCrashes = 1
  MaxFaults = 1
  Half = 128
SYMMETRY Symmetry
INVARIANTS SlotsExact InflightExact AtMostOneDispatch RunningOwned
PROPERTIES NeverEarly FinishedStays ImplementsLifecycle
