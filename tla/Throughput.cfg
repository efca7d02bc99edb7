SPECIFICATION Spec
CONSTANTS
  None = None
  NumQueues = 2
  Rate <- Rates
  Conc <- Limits
  SlotCount = 2
  UnitsPerSecond = 2
  MaxPoll = 1
INVARIANTS TypeOK RateEnforced
PROPERTIES ServedInOrder
