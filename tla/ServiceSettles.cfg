\* Two tasks, a channel of one, a client that submits, restarts and cancels, by group too.
CONSTANTS
  Ids = {"build", "serve"}
  Runs = {1, 2}
  NoRun = 0
  NoId = "none"
  TaskOf <- OnceEach
  LongRuns = {}
  Calls = {"c1"}
  QueueCap = 1
  Stops = TRUE
  StoreFails = TRUE
SPECIFICATION FairSpec
PROPERTY SettlesOrStranded
