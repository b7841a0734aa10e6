# Verification of copilot-infra

copilot-infra is a daemon that runs background tasks (shell commands, Taskfile
targets, Pulumi programs) for coding agents and people. This directory holds
TLA+ modules of its own logic, TLC configurations that check them on small
instances, and TLAPS proofs of the safety properties for instances of any size.

## Inventory

Line numbers are those of the sources under `src/`.

| Component | State it keeps | Operations | Talks to |
|---|---|---|---|
| Task store, `pkg/state/store.go` | one record per task; the list `task_index` of all ids | SaveTask (record, then read, extend and write the index), GetTask, ListTasks (index, then record by record) | the Dapr state store (SQLite), a request at a time |
| Background worker, `pkg/worker/worker.go` | channel of 100 task objects; map from task id to cancel function; one goroutine per run | Submit, Cancel, Start (the loop), processTask | Executor (call), Task store (two saves per run) |
| Task RPCs, `pkg/api/grpc_handler.go:39-290` | none between calls; each call holds a task object it has read | SubmitTask, RestartTask, CancelTask by id or group, with or without force; GetTask, GetTaskLogs, ListTasks | Worker (Submit, Cancel), Task store |
| Force kill, `grpc_handler.go:471-545` | a snapshot of `/proc` | killProcessTree, getChildPIDs | the operating system |
| Log search, `grpc_handler.go:329-469` | two result channels | SearchLogs, GlobalSearch, fillContext | a search library, log files |
| Executor, `pkg/task/executor.go` | the PID in the task object | Execute: Pulumi for long-running and browser tasks, Pulumi for infra, `sh -c`, Taskfile | Infra manager, Task store (saves the PID), processes |
| Infra manager, `pkg/infra` | Pulumi stacks on disk; the browsers their programs start | Deploy, Destroy, GetOutputs, BrowserProgram | Pulumi, a shell, the browser |
| Daemon control, `cmd/copilot-infra/main.go:192-424` | the PID file; the process | start, stop, restart, status, runServer | the operating system |
| CLI task commands, `main.go:446-714` | the offset of `logs -follow` | one RPC each | Task RPCs |
| MCP server, `pkg/api/mcp_handler.go` | the decoder of stdin | one JSON-RPC request at a time | Task RPCs (direct calls); stdout, which it shares with the tasks |
| Dapr runtime, `pkg/runtime` | the component files, read once | defaults where a file is missing, Start (waits 2 s), Stop; RegisterConnection writes the same files | Dapr |
| Pulumi setup, `pkg/setup` | `PATH`, the directory of pulumi | looks for pulumi, installs it in the background | the installer |
| Admin UI, `pkg/ui`, `frontend/` | the open task and its log | pages; the log drawer | Task RPCs, through a proxy |
| Skill installer, `pkg/skill` | three directories | empty and rewrite each | file system |

What makes the system hard:

* RPCs run in goroutines of their own, hold no lock and save whole records. One
  task may be under several RPCs and several runs at once.
* The index is a read-modify-write in two requests with no version.
* The worker's map has one entry per task id, its runs may be several.
* A cancel function is looked up under the lock and called after it.
* Records outlive the process, the channel and the goroutines do not.
* Saves fail while the process is stopping, and most of their errors are dropped.
* A PID in a record and a PID in the PID file may be out of date.
* A resubmission takes over some fields of the record and not others; where a
  task is deployed depends on fields it keeps.
* What a deployment leaves behind (a stack, its lock, a browser) outlives the run
  and is found again by the next.
* Files that are written in two steps, truncate and write, are taken for complete
  by whoever finds them.
* The one loop of the MCP server calls handlers that block.

What makes each component correct: the index names every saved task, once
(store); every accepted run is processed once, ends with the verdict its result
and its cancellation imply, and can be cancelled while it executes (worker); a
record that says pending or running stands for work in progress, and a final one
for what happened (RPCs); a forced cancellation ends the processes of the task
and no others (force kill); at most one daemon runs, and the PID file leads to it
(daemon control); a task that succeeded has what was asked for in its stack, and
its URL leads there (infra manager, setup); every request of an MCP client is
answered, in order (MCP server); a connection that was registered is there after
the next start (Dapr runtime). `PROJECT.json` lists the hazards line by line.

## Plan

The modules, in the order of importance they were and will be written in.

| Module | Subject | Stands on | State |
|---|---|---|---|
| `StateStore` | SaveTask and ListTasks over single requests | - | checked, proved |
| `RunLifecycle` | what the worker promises for each run (abstract specification) | - | checked, proved |
| `Worker` | channel, map, goroutines of the runs | implements `RunLifecycle` | checked, proved |
| `TaskService` | RPCs, worker and records composed | EXTENDS `Worker` | checked, proved |
| `DaemonControl` | start, stop, restart, PID file, several daemons | - | checked, proved |
| `ProcessTree` | a command's processes, Wait, plain and forced cancellation | - | checked, proved |
| `LogReaders` | logs -follow, log search, log drawer | - | checked, proved |
| `InfraStacks` | the fields of records, deployments, stacks, browsers and Pulumi itself | - | checked, proved |
| `Connections` | the component files of Dapr | - | checked, proved |
| `McpServer` | the request loop over stdin and the process around it | EXTENDS `Connections` | checked, proved |

The skill installer was planned and left out: see "Not modelled". Each pass run
checks one module on a bounded instance and each violation run one sentence of
the documentation. "Proved" is said of every invariant and of the properties of
steps; liveness is checked by TLC alone. What a continuation would take up first:
how the records of `TaskService` and those of `InfraStacks` are one, as two
refinements of a common specification of the task record.

A module that is to be proved about has its parameters as CONSTANTS with a named
assumption, one action per operation and no recursive operator. An operator
called "Mutant of ..." in a comment is a plausible error in the operation after
it; it takes no part in any specification and serves to see that a property
would notice.

## The modules and the code

Line numbers of every definition are in `PROJECT.json` under "map".

### StateStore: `pkg/state/store.go`

`saved` is the set of records, `index` the value under `task_index`. A writer is
a goroutine inside SaveTask: SaveRecord, AppendToCopy (or FoundInIndex, or
ReadIndexFails, since any error of the read counts as "no index"), WriteIndex;
each may fail (StoreFails) as a request does. A reader is inside ListTasks:
BeginList takes the index, CollectNext one record, EndList returns. `confirmed`
(SaveTask returned nil), `disturbed` (two copies of the index met, or a read
failed) and `owed` (what a list has to contain) are history.

### Worker and RunLifecycle: `pkg/worker/worker.go`

A run is one task object in one goroutine of processTask; TaskOf gives its id,
and several runs may have the same one. `queue` is the channel, `running` the
map, `grabbed` the cancel function a call has looked up and not yet called
(Cancel calls it outside the lock), `pc` where a goroutine is, `status` the
Status in its task object, `cancelled` whether its context has ended, `ctxDone`
the context of the process, `loop` whether Start has returned. Submit is guarded
by room in the channel: a goroutine at a full channel blocks. Sigterm ends the
context and with it every child context; Reboot is the end of the process at any
point and the start of a new one.

RunLifecycle has only the phase a client can see and the set of runs somebody
asked to stop; `Lifecycle` in Worker is the refinement mapping. It allows a run to
start once and end once, "cancelled" only if somebody asked, "failed" only if
nobody did.

### TaskService: `pkg/api/grpc_handler.go:39-290`

`store` is the status in each record, `at`, `cur`, `todo` and `live` where each
RPC is, the task it is at, those it has still to visit, and those it has read as
pending or running (its snapshot, old by the time it is used). Submission and
restart are CancelPrevious, SavePending, SendToQueue; cancellation is a list
(for a group), then per task Signal and SaveCancelled. The saves of the worker
are joined to its steps (BeginTask, SavePid, FinishTask) and fail if the store
does or the process is going down; `stranded` is history, the ids whose record
such a failure, or the death of the process, has left behind. SubmitTask does
not copy is_long_running into the task, so that the branches of CancelTask for
long-running tasks are not reached and LongRuns is empty; Worker has them.

### DaemonControl: `cmd/copilot-infra/main.go:75-89, 192-268, 333-424`

A command and the daemon it forks run the same startDaemon; `at` tells them
apart. `named` is the file under the name of the PID file, which may differ from
the one a process has `open`, locked (`lock`) and filled (`content`): removing a
name does not close a file. Launch is Reborn in the command (lock, fork), WritePid
Reborn in the child. NotifyContext is a step because SIGTERM kills before it and
only ends the context after it. ShutDown, Unlock and Release are the two
removals of the name at the end of a daemon. `hit` is history: somebody was told
to stop, or crashed. There is no clock: a wait ends when it likes.

### ProcessTree: `pkg/task/executor.go:155-174`, `grpc_handler.go:471-545`

`state`, `parent`, `grouped` and `writes` are what the kernel knows of each process:
alive or zombie, its parent, whether it is in the group of the shell, whether it
has the output pipe open. Fork, Exit, Reap belong to the command and happen at
any point. `exec` is executeRawCommand: the PID is saved after the start, and
Wait returns when the shell is reaped and the pipe closed, because the output is
a MultiWriter and no file. ContextKills kills the shell alone, which is what
CommandContext does. The force branch of CancelTask begins in one of three ways:
no PID was saved (CancelWithoutPid), /proc is listed (ListProc), or it cannot be
listed (ListProcFails), as where there is none, and then no descendant is looked
for. The entries are read one by one (ReadStat), and one that cannot be read is
skipped (ReadStatFails), be its process gone or not. Collect, kill the descendants
deepest first, the shell, the group, then cancel the context. `attached` is
history: what was below the shell at the start, lost no ancestor before the scan
was over and was read with all its ancestors; just the shell where /proc cannot be
listed.

### LogReaders: `main.go:532-585`, `grpc_handler.go:329-469`, `TaskDetailsDrawer.tsx`

`log` is the file as a sequence of kinds of lines, written by a task that starts,
ends, is marked cancelled while it runs and is restarted. The three readers do
not influence each other, so a behaviour has one. `follow` polls the status and
then the log; `search` looks for matches once and for the context of each in a
second reading of a file that has grown; fillContext computes with line numbers.
`drawer` sends a request per opening or refresh and shows each answer as it
comes.

### InfraStacks: `executor.go:68-153`, `pkg/infra`, `pkg/setup`, the records of `grpc_handler.go:39-160`

What `TaskService` leaves out: the fields of a record and what becomes of them.
`records` has type, project, port, status and URL of each task; `runs` is the
list of the task objects handed to the worker, each with the request it came
from, so that it is also the history of what was asked; `registered` is the
worker's map. The RPCs are one step each here, as their interleaving is the
subject of `TaskService`. Hand is the end of SubmitTask and RestartTask (signal
the run in progress, save, queue); Merged is what a resubmission takes over.
A run goes through Begin (processTask up to Execute), Deploy (the stack is
selected and locked, or refused), one of UpWithoutResources, CreateBrowser then
BrowserReady, UpFails or UpInterrupted, GetOutputs and Finish. `stacks` is
external: a lock and the program a stack is at, keyed by project, kind and task,
as Pulumi keeps them; it is never destroyed, as no task is long-running.
`starting`, `listening` and `chromes` are the browsers; `listening` says of a port
which task's browser answers there, or a server that no task has started
(`Foreign`: the poll takes any answer), or that what was there has ended, or that
there never was anything. `pulumi` is what of Pulumi is on disk and in PATH and
which installer, of this daemon (with a home directory to extend PATH by, or
without) or left over by one that died, is at work. That installer is `curl | sh`:
it may end well with all installed or with nothing changed (OwnInstallerEnds), or
fail (OwnInstallerFails). `alone`, `read` and `doubt` are history, and so is the
difference between None and Ended in `listening`.

### Connections and McpServer: `pkg/runtime/runtime.go`, `grpc_handler.go:292-327`, `pkg/api/mcp_handler.go`, `main.go:333-407`

Connections is the directory of component files. `files` is what is in each:
absent, empty (truncated and not written yet), the default, a connection, or a
mixture of two; `boot` is how far the process has come, `writes` the file each
writer has open, `loaded` what Dapr took. os.WriteFile has two halves, for a
default CreateDefault and FillDefault, for a connection OpenFile and FillFile.
Either half may fail: for a default (CreateDefaultFails, FillDefaultFails) nobody
looks at the error and the boot goes on, for a connection the caller is told.
LoadComponents is Run, after which the process is "up"; RunFails leaves it "bare",
serving without Dapr, since that error is only printed. That the two seconds for
which Start waits are enough for Dapr to read the directory is assumed. `owed`
(confirmed and left alone), `stolen`, `torn` (by a crash or a failed write) and
`refused` are history.

McpServer is the process around it. `sent` is what the client has put into
stdin, `taken` how many values the decoder has taken of it, `at` where the loop
is, `out` what was put on stdout: for a reply the place of the request in
`sent`, 0 for the output of a task. Decode, DecodeEof and Spin are the decoder
with its three kinds of errors; a handler is one of three: it answers, it
submits (CallSubmit, then SendToQueue, which blocks) or it registers
(McpOpensFile, McpWritesFile). Encode blocks while stdout is full. A gRPC client
(CliRegisters) writes connections at the same time. Sigterm ends the worker and
not the loop, as in the code, where the signal's context does not reach
ServeStdio.

## The runs

| Run | Instance | What it shows |
|---|---|---|
| store_safety | 2 writers, 1 reader, 2 tasks, requests fail | the index is sound always, complete until two copies of it meet |
| store_lost_update | 2 writers, nothing fails | violated: of two concurrent saves one is missing from every list |
| worker | 3 runs of 2 tasks (two of one), channel of 1, SIGTERM and crashes | the worker implements RunLifecycle; channel and map are right; accepted runs end |
| service_safety | 1 task submitted twice, 2 clients, failures, crashes | a live record stands for work; the verdict of a single run is the last word |
| service_settles | 2 tasks, channel of 1, 1 client with group cancellation, fairness | every live task settles, or a failure or a stopped worker explains why not |
| service_restart_running | 1 task submitted twice, 1 client | violated: after a restart the new run cannot be cancelled |
| daemon | 2 commands, 2 daemons, a stale PID file, crashes | a PID file a daemon holds, if it has the name, names it; an undisturbed start serves |
| daemon_unfound | the same without crashes | violated: two commands find the file of a dead daemon, the second removes that of the daemon the first has started, which serves and is not found |
| process_tree | the shell and 3 processes below it, a /proc that cannot be listed or of which an entry cannot be read | what survives a force kill; when a cancelled run returns |
| log_readers | 4 lines, windows 0 to 2, 2 tasks, 3 requests | following, searching and showing a log that grows |
| infra_stacks | a named task and one without a name, 2 ports, 2 runs, 1 restart of the daemon, other servers on the default port, installers that fail or install nothing | what stands behind the record of a task that succeeded; who holds a stack; when Pulumi is missing |
| mcp_server | 3 processes, 2 values and registrations in all, failed writes of the defaults, a Dapr that does not come up, stdout and channel of 1 | replies in order, and at all; the components that were registered |

Why these bounds are enough to meet what is hard. Every race of the code is
between two parties: two saves, two runs of a task, an RPC and a run, two
commands; the instances have two of each, and a third where a bystander matters
(the reader of the store, the run of another task, the PID file left by a dead
daemon). A channel of one is full after one send, which a channel of 100 is too
late to show. Three processes below the shell are enough for a grandchild whose
parent exits while a third is forked. A log of four lines has matches with the
window clipped at either end, and a long line before, between or after them. Two
runs are enough for a deployment over one that failed, died or is still going on,
of the same task or of another on the same port; with three, the instance does
not change in kind and TLC takes too long. Of three processes of the MCP
server the first may be cut off or fail to write a default, the second find what
it left and change it, and the third start after both. Two values or registrations
together are enough for a request behind one that blocks or does not parse, and
for a registration that overlaps another. A server of somebody else's is on the
default port alone (`ForeignPorts`), which the requests without a port (`McpPorts`)
and with it come to; the other port is left to the tasks. The
client of the instance sends one value of each way through the loop (`Sendable`):
all other tools take the way of one of these. The
properties that TLAPS proves do not depend on bounds at all.

Fairness. Goroutines that can run do run, so each step of a run, of an RPC and
of the worker's loop is weakly fair; that a command ends is assumed where a run is
(`worker`, `service_settles`) and not in `process_tree`, whose
subject it is. Nobody is obliged to send a request, give a command, fork or exit.
In DaemonControl every process and command goes on once it was started. Of the
readers, the loop of logs -follow goes on ticking. In McpServer the loop and the
worker are fair, and so is a client in reading the replies to what it asked: one
that does not read is told apart by nothing the server does. A process whose loop
has ended exits. What tasks write to stdout is bounded, else a run could fill the
pipe before each reply. Nothing is assumed fair in InfraStacks, which states no
liveness: Pulumi and browsers take the time they take.

Deadlock is checked except in process_tree, infra_stacks and mcp_server, where
everything may have ended: every process, every run, every process of the MCP
server that the bound allows.

## Findings

* Concurrent SaveTasks lose a task from the index (`store.go:41`, no ETag).
* The end of an old run deletes the cancel function of the new one
  (`worker.go:72`).
* start (`main.go:220`) and stop, alone or in a restart (`main.go:249`), judge a PID
  file and then remove whatever has the name by then. Of two commands that both
  found the file of a dead daemon, one, a start, removes it and starts a daemon; the
  other, a start or a stop, removes the file of that daemon, which serves on and is
  found by no command. A trace of daemon_unfound has one of these two forms. (The
  second removal of the name at the end of a daemon is another way to the same,
  longer and not the one shown.)

Met while modelling, and stated by properties that hold around them, each by
the exception it makes:

* Tasks. A task cancelled while it is in the channel is executed all the same
  (`grpc_handler.go:282`), and nothing reads live records back after a restart
  (`main.go:381`): SettlesOrStranded. A cancellation without force kills the shell
  alone, and the run does not return while anything below it writes:
  CancelledRunReturns. Where /proc cannot be listed, as on darwin, a forced
  cancellation kills the shell and its group alone, and an entry that cannot be read
  hides whatever is below it (`grpc_handler.go:478, 497, 514`): SeenDescendantsDie.
  SubmitTask drops is_long_running.
* Deployments. The id is computed from the name, so that a stack of the same name
  in another project is a restart of the first, in the project of the first:
  DeployedAsAsked. If the outputs cannot be read, the URL of an earlier
  deployment stays: UrlIsOwn. The poll for a browser is answered by any HTTP
  server on the port, be it another task's browser, the user's own or no browser
  at all (`browser.go:35`, curl without -f), and a restart of a task whose browser
  died succeeds without one: BrowserBehindSuccess. What an installer of Pulumi left
  behind half-way counts as installed; `curl | sh` ends well where curl has failed
  (`setup.go:50`), so that success is logged with nothing installed, and without a
  home directory it is logged with PATH as it was (`setup.go:59`): PulumiFound. No operation destroys a stack, because no task is
  long-running.
* Component files. The errors of writing the defaults and of Run are dropped
  (`runtime.go:70, 86, 141-148`): the process serves without its store. A default
  that was cut off, by a crash or by a failed write, is never written again, and a
  connection named like the state store replaces it at the next start:
  StoreIsLoaded. A connection takes effect at the next start only:
  RegisteredIsLoaded.
* MCP. After something that is not JSON, or an end of stdin inside a value, the
  loop spins for ever; after SIGTERM it may wait for ever at a full channel:
  RequestsAnswered, EndsAtEof. SIGTERM does not end the process otherwise either,
  only the end of stdin does. Tasks write to the stream of the replies, between
  two of them: RepliesInOrder speaks of the replies alone.
* The log drawer shows an answer that was overtaken: DrawerShowsSelected.

## The proofs

Most theorems are `Spec => []P` by an inductive invariant that TLC has seen on the
instances first, some are about steps (`[][A]_vars`), and two say that a
specification implements another. All 28 invariants of the passing runs are
proved. Liveness stays with TLC.

* `SeqLemmas`: what Append and Tail do to the set of a sequence and to its
  injectivity.
* `StateStoreProofs`: TypeOK with IndexSound, then what every copy of the index
  held by a writer contains as long as nothing is disturbed; that copies are
  taken one at a time is the strengthening ConfirmedIndexed needs. Lists
  carry along what they still have to collect.
* `TaskServiceProofs`, the worker: WInv is WorkerTypeOK, QueueHoldsAccepted,
  NoStaleCancelFunc, ProgressInv (the status of a run follows its progress, and a
  run nobody could reach is not cancelled) and MapInv (a run that is alone owns its
  map entry). ProgressInv is what the refinement needs: a step of the worker is a
  step or a stutter of RunLifecycle.
* `TaskServiceProofs`, the service: ServiceRunsWorker shows that every step of the
  service is a step or a stutter of Worker, so that all that is proved of Worker
  holds in the service, and by ServiceImplementsLifecycle so does RunLifecycle. SInv
  adds RecordTruthful, RecordsExist (a run has its record) and VerdictEarned (a
  final record is that of a run which ended), without which a stale save could not
  be told from a good one. OnceSubmittedReported follows from these and the history
  of the single run.
* `LogReadersProofs`: FollowInv (what logs -follow owes is in the log, and has
  been printed when it ends), DrawerInv (the last request of an open drawer is
  for its task, and once answered in order is on display) and RestInv (what was
  printed or found is within the log), which together give TypeOK. ContextIsRight
  takes the algorithm of fillContext apart: what the scanner gives is a first part
  of the log (ScannedAreFirst, as there is a least line that is too long),
  FilledInPlace puts the lines around a match at their places whether or not the
  window was clipped, and ContextStays carries a result on as the log grows, since
  nothing is ever written before its end.
* `ProcessTreeProofs`: PInv. /proc is read entry by entry while parents change, so
  that some parents in the table are old and some new; TreeInv says that even both
  together have no cycle, of which CollectEnds is the part about the table. ScanInv:
  while the scan goes on, what was below the shell at its start and lost no ancestor
  has its parent among the same, and an entry that was read is still right; one that
  could not be read takes those below it out of the history (ReadStatFailsPInv), and
  without a list of /proc the shell is all there is in it (CancelForcePInv).
  DescendInv: these are therefore below the shell in the table, then among the
  targets, then dead. SurvivorsLeftGroup is inductive beside KillInv, which orders
  the places of the kill. `Below` is the least set closed under children, so that
  nothing is assumed of the number of processes and no recursion is needed.
* `InfraStacksProofs`: StacksInv is the types with StackHasOneUpdate and three
  strengthenings: HolderInv (the stack a run holds is its own, without which a
  run could give back another's), LastInv (the runs of a task have a last one,
  whose request a restart repeats) and OutputsInv (outputs are read of a stack
  that is at a program). SetupInv ties what was logged about Pulumi to the disk,
  to the installers at work and to what puts it in doubt (`doubt`). BrowserInv follows an answered port from the
  poll through the program of the stack and the run to the record, and a browser
  back to the run that launched it; "Calm" collects the steps it does not notice.
  WantedInv is for what a sequence of requests has asked for. AskedInv: of runs of
  a task that came one after another only the last may be in hand, its port is
  what the last request that named one asked for, the record agrees with it and
  succeeds by its verdict alone, and once it has deployed its stack is at its
  program. KindInv: type and project of a record are those of a request, and no
  later one changes them. UrlInv: a URL, and the program of a browser's stack, are
  those of a run of the task itself. Thirty actions come down to three shapes, each
  with a lemma that they have it: a request adds a run (Asks, Added), a run moves
  with its own object, record and stack (Moved), all else leaves runs, programs and
  ports as they are (Kept).
* `McpServerProofs`: ConnectionsInv says who is at a file: a writer that is alone
  finds it as it left it (AloneInv), so that what is confirmed is there and
  nobody is at it (OwedInv); a default is written only where there was nothing, and
  is whole by the time Dapr reads it, or refused, or torn.
  ServerMovesConnections shows that every step of the server is one of the
  component files or none. SessionInv adds to RepliesInOrder that the request in
  hand is the last value taken, from which the reply to it comes last.
* `DaemonControlProofs`: DInv is TypeOK, PlaceInv (who can be where), LockInv (a
  daemon holds the lock of the file it has open until it has removed the name,
  and has nothing open once it is gone) and NameInv (a daemon in its server is
  the one its file names; the name does not come back to the file of one that
  leaves). FileNamesDaemon alone is not inductive: only the lock says that a
  second daemon cannot write into the same file, and only NameInv that a file
  which is unlocked is no longer under the name. PortInv ties the port to the one
  process that listens, and nothing in it speaks of PID files: OneDaemonServes holds
  where those have failed (daemon_unfound), for it is net.Listen that keeps it.
  DaemonServesOn is the safety half of StartServes, which adds that such a daemon
  comes to be.

The assumptions are those named in the modules (`StoreFailsAssumption`,
`RolesAssumption`, `WorkerAssumption`, `ServiceAssumption`, `DaemonAssumption`,
`ProcessAssumption`, `ReaderAssumption`, `InfraAssumption`, `ConnectionsAssumption`,
`McpAssumption`): disjoint names, a capacity of at least one, LongRuns empty in the
service, a None that is no record and no program. No set of tasks, runs, processes
or requests is assumed finite unless its module names a bound.

Only model-checked are the liveness properties: TakenRunsEnd, QueuedRunsEnd,
SettlesOrStranded, StartServes, CancelledRunReturns, FollowEnds, RequestsAnswered
and EndsAtEof. They rest on fairness, and ENABLED is beyond the prover.

## Not modelled

* The command and the log path of a record: each is handed on as it is. Its group
  only selects what a cancellation visits (TaskService).
* gRPC and SQLite: each is a call that succeeds or fails. Of Dapr only the
  component files are modelled, of Pulumi only its lock, the program a stack is
  at and its installer.
* Destroy, and the daemons that Pulumi would run for long-running tasks: no
  operation reaches them.
* The arguments of an MCP call; those that do not decode become empty ones, which
  no document speaks of (`mcp_handler.go:199`).
* Time: timeouts end when they like, so that whether a restart serves within the
  seconds the code waits is not decided here.
* Reuse of PIDs, by which a force kill with a PID of long ago hits a stranger.
* A server run in the foreground or for MCP, which removes the PID file without
  having one.
* The skill installer: a repeated install repairs whatever one that was cut off
  has left, and nothing else looks at its directories while it runs.
* The search library, Taskfile execution, the messages and the generated code of
  the protocol, the server of the admin UI, static pages.
