SPECIFICATION FairSpec
CONSTANTS
  Jobs = {j1, j2, j3}
  Workers = {w1, w2}
  NoJob = NoJob
  MaxStarts = 2
INVARIANTS TypeOK JobsInOnePlace StoppedIsQuiet
PROPERTIES NoJobAfterClear StopReturns AcceptedJobRuns ImplementsPool
CHECK_DEADLOCK FALSE
