SPECIFICATION Spec
CONSTANTS
  Half = 128
  Clients = {c1}
  Requests <- Steep
  Envs <- Environments
  Milli = 2
  Second = 4
  Rounded <- Floats
  MaxExact = 300
  Default <- Defaults
  MinDeadline = 4
  MaxDeadline = 20
  Schedules = {"hourly"}
  Took = {1}
  MaxWrites = 3
  MaxTries = 9
  None = None
INVARIANTS JobWaitInRange
CHECK_DEADLOCK FALSE
