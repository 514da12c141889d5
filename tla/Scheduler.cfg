CONSTANTS
  Jobs = {1, 2}
  MaxRuns = 1
  Every = 1
  Steps = 1
  MaxClock = 2
  MaxEvents = 2
  SameMillis = FALSE
  StepsFail = TRUE
  PipeSize = 2
  OutputCap = 3
  ErrorCap = 1
  MaxRecords = 3
  MaxConnectorFaults = 1
SPECIFICATION MCSpec
CHECK_DEADLOCK FALSE
INVARIANTS
  LedgerTellsTheRuns
  ProgramsAreContained
PROPERTIES
  FlightsEnd
  NobodyIsLeftWaiting
