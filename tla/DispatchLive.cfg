SPECIFICATION FairSpec
CONSTANTS
  t1 = t1
  t2 = t2
  s1 = s1
  s2 = s2
  c1 = c1
  c2 = c2
  None = None
  TaskIds = {t1, t2}
  Slots = {s1}
  Clients = {c1}
  QueueOf <- OneQueue
  RetryDelay <- Backoffs
  RequestedLimits <- NoRequests
  NumQueues = 1
  DefaultRate = 1
  DefaultConcurrent = 1
  MaxRetries = 1
  AutoCreateQueues = FALSE
  ScheduleDelays = {0}
  MaxInserts = 1
  MaxCrashes = 1
  MaxFaults = 0
  Half = 128
PROPERTIES EventuallyDispatched RunningEnds PauseDrains
