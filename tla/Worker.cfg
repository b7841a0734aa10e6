\* Cancellation, SIGTERM and crashes; a channel of one, so that senders block.
CONSTANTS
  Ids = {"build", "serve"}
  Runs = {1, 2, 3}
  NoRun = 0
  TaskOf <- TwoOfOne
  LongRuns = {3}
  Calls = {"c1"}
  QueueCap = 1
  Stops = TRUE
SPECIFICATION FairWorkerSpec
INVARIANT WorkerTypeOK
INVARIANT QueueHoldsAccepted
INVARIANT NoStaleCancelFunc
INVARIANT ExecutingIsCancellable
PROPERTY ImplementsLifecycle
PROPERTY TakenRunsEnd
PROPERTY QueuedRunsEnd
