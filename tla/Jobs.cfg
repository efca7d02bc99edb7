SPECIFICATION Spec
CONSTANTS
  j1 = j1
  j2 = j2
  e1 = e1
  e2 = e2
  c1 = c1
  c2 = c2
  None = None
  JobIds = {j1}
  Execs = {e1, e2}
  Clients = {c1}
  Schedules <- TwoSchedules
  RetryCount = 0
  MaxTime = 4
  MaxInserts = 1
  MaxEdits = 1
  MaxRuns = 1
  MaxCrashes = 1
  MaxFaults = 1
SYMMETRY Symmetry
INVARIANTS TypeOK NextRunMatchesState UneditedFiresOnce
PROPERTIES ClaimsAreDue OutcomeKept
