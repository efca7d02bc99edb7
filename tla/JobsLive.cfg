SPECIFICATION FairSpec
CONSTANTS
  j1 = j1
  j2 = j2
  e1 = e1
  e2 = e2
  c1 = c1
  c2 = c2
  None = None
  JobIds = {j1}
  Execs = {e1, e2}
  Clients = {c1, c2}
  Schedules <- OneSchedule
  RetryCount = 1
  MaxTime = 3
  MaxInserts = 2
  MaxEdits = 0
  MaxRuns = 0
  MaxCrashes = 0
  MaxFaults = 1
INVARIANTS OneExecution
PROPERTIES DueIsClaimed ExecutionEnds
