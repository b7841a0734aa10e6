\* One task submitted up to twice, two concurrent clients, failing requests, SIGTERM and crashes.
CONSTANTS
  Ids = {"build"}
  Runs = {1, 2}
  NoRun = 0
  NoId = "none"
  TaskOf <- Twice
  LongRuns = {}
  Calls = {"c1", "c2"}
  QueueCap = 2
  Stops = TRUE
  StoreFails = TRUE
SPECIFICATION Spec
INVARIANT TypeOK
INVARIANT RecordTruthful
INVARIANT OnceSubmittedReported
