SPECIFICATION Spec
CONSTANTS
  a = a
  c1 = c1
  c2 = c2
  w1 = w1
  None = None
  Half = 128
  Uuid = Uuid
  Clients = {c1, c2}
  Walkers = {w1}
  TaskIds = {a}
  Asked <- SomeRequests
  AutoCreateQueues = TRUE
  DefaultTimeout = 20
  PageSizes = {0, 1, 3}
  MaxPageSize = 2
  UiPageSize = 2
  Filters <- AllOrPending
  MaxUnderWay = 2
  MaxInserts = 3
  MaxShown = 4
SYMMETRY Symmetry
INVARIANTS TypeOK BadRequestChangesNothing DeadlineBecomesTimeout AnswerShowsOwnTask NothingMissed NothingTwice UiShowsEachOnce
PROPERTIES UiPageHasTasks
