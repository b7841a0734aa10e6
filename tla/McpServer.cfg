\* Two values or registrations, three processes, a channel and a stdout of one.
CONSTANTS
  StateStore = statestore
  SurrealDB = surrealdb
  Others = {}
  Urls = {u1}
  Mcp = mcp
  Cli = cli
  Writers = {mcp, cli}
  Absent = Absent
  Empty = Empty
  Mixed = Mixed
  Default = Default
  Sendable = {"submit_task", "register_connection", "mistyped", "garbage"}
  MaxSent = 2
  MaxNoise = 1
  MaxBoots = 3
  MaxAsked = 2
  PipeCap = 1
  QueueCap = 1
SPECIFICATION Spec
\* The last process, once it has ended, is not started again.
CHECK_DEADLOCK FALSE
INVARIANT TypeOK
INVARIANT RepliesInOrder
INVARIANT StoreIsLoaded
PROPERTY RegisteredIsLoaded
PROPERTY RequestsAnswered
PROPERTY EndsAtEof
