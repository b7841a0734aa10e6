\* A named task, one without a name, two ports, two runs, one restart of the
\* daemon, other servers on the default port.
CONSTANTS
  n = n
  p = p
  dev = dev
  other = other
  Names = {n}
  Anonymous = {a}
  Projects = {p}
  DaemonsProject = daemons
  Ports = {dev, other}
  DefaultPort = dev
  CliRequests <- MCCliRequests
  McpPorts = {None}
  MaxRuns = 2
  MaxBoots = 2
  Foreign = foreign
  ForeignPorts = {dev}
  None = None
  Stale = Stale
  Ended = Ended
\* With every run at its end, the daemon waits for requests.
CHECK_DEADLOCK FALSE
SPECIFICATION Spec
INVARIANT TypeOK
INVARIANT StackHasOneUpdate
 
INVARIANT UrlIsOwn
INVARIANT BrowserBehindSuccess
PROPERTY PulumiFound
