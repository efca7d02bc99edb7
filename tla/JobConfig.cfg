SPECIFICATION Spec
CONSTANTS
  Half = 32768
  Clients = {c1, c2}
  Requests <- Configs
  Envs <- Environments
  Milli = 2
  Second = 4
  Rounded <- Floats
  MaxExact = 300
  Default <- Defaults
  MinDeadline = 4
  MaxDeadline = 20
  Schedules = {"hourly"}
  Took = {1}
  MaxWrites = 3
  MaxTries = 9
  None = None
SYMMETRY Symmetry
INVARIANTS StoredRowValid RetriesWithinLimits JobWaitsAsSpecified WorkerWaitsAsSpecified
PROPERTIES MaskConfinesUpdate DurationsKept WaitsGrow
CHECK_DEADLOCK FALSE
