\* One client restarts a running task.
CONSTANTS
  Ids = {"build"}
  Runs = {1, 2}
  NoRun = 0
  NoId = "none"
  TaskOf <- Twice
  LongRuns = {}
  Calls = {"c1"}
  QueueCap = 2
  Stops = FALSE
  StoreFails = FALSE
SPECIFICATION Spec
INVARIANT ExecutingCanBeCancelled
