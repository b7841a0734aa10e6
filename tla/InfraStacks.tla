------------------------------ MODULE InfraStacks ------------------------------
(***************************************************************************)
(* The tasks that Pulumi executes: their records, the stack each deploys   *)
(* to, the browsers such stacks start, and the Pulumi command line tool    *)
(* that the daemon looks for, or installs, when it starts.                 *)
(*                                                                         *)
(* The handlers and the worker interleave in module TaskService; here an   *)
(* RPC is one step and a record keeps the fields that TaskService leaves   *)
(* out: what a resubmission merges and what a deployment fills in.  A run  *)
(* is a task object handed to the worker; runs is the list of them, so     *)
(* that it is also the history of what was asked.                          *)
(*                                                                         *)
(* Pulumi (a stack has one update at a time, and forgets nothing), the     *)
(* browser and the installer are modelled from how the code uses them.     *)
(***************************************************************************)
EXTENDS Naturals, Sequences, FiniteSets

CONSTANTS Names,          \* names of tasks; the id is computed from the name
          Anonymous,      \* the random ids of tasks without a name
          Projects,       \* names of Pulumi projects
          DaemonsProject, \* "copilot-infra-daemons"
          Ports,          \* debugging ports of browsers
          DefaultPort,    \* 9222
          CliRequests,    \* what copilot-infra submit is given
          McpPorts,       \* what start_browser is given, None for no port
          MaxRuns,        \* bound on the number of runs
          MaxBoots,       \* bound on the number of times the daemon starts
          Foreign,        \* an HTTP server that no task has started
          ForeignPorts,   \* bound on the ports on which there may be one
          None, Stale, Ended

Ids == Names \cup Anonymous

\* The fields of a submission that matter here; None where one is not given.
Request == [id: Ids, type: {"infra", "browser"}, project: Projects \cup {None},
            port: Ports \cup {None}]

\* A task as it is saved, and the program of a stack, which a browser has one for
\* each port and binary.
Task == [type: {"infra", "browser"}, project: Projects \cup {None}, port: Ports \cup {None},
         status: {"pending", "running", "succeeded", "failed", "cancelled"},
         url: Ports \cup {None}]
Ranks == 1..2
Program == [port: Ports \cup {None}, bin: Ranks \cup {None}]

ASSUME InfraAssumption == /\ MaxRuns \in Nat /\ MaxBoots \in Nat
                          /\ Names \cap Anonymous = {}
                          /\ DefaultPort \in Ports
                          /\ CliRequests \subseteq Request
                          /\ \A q \in CliRequests : q.id \in Names
                          /\ McpPorts \subseteq Ports \cup {None}
                          /\ None \notin Ids \cup Projects \cup Ports \cup {DaemonsProject, Stale}
                          /\ None \notin Nat /\ Stale \notin Nat
                          /\ None \notin Task \cup Program
                          /\ DaemonsProject \notin Projects
                          /\ {Foreign, Ended} \cap (Ids \cup {None}) = {}
                          /\ Foreign # Ended

VARIABLES records,    \* id -> the record of the task, or None
          runs,       \* the task objects, in the order they were submitted
          registered, \* the worker's map: id -> the run that Cancel reaches, or None
          stacks,     \* <<project, type, id>> -> its lock and the program it is at
          starting,   \* browsers launched and not listening yet: <<id, port>>
          listening,  \* port -> the task whose browser listens there, or Foreign; None if
                      \* none ever has, Ended if none does since one has ended
          chromes,    \* the browsers that are installed, by rank in the search
          pulumi      \* what is on disk, what this process has in PATH, who installs; history:
                      \* what makes it doubtful that Pulumi is there when that was logged

vars == <<records, runs, registered, stacks, starting, listening, chromes, pulumi>>
browserVars == <<starting, listening, chromes>>

Keys == (Projects \cup {None, DaemonsProject}) \X {"infra", "browser"} \X Ids

\* EnsurePulumiBackground: pulumi is found where the installer puts it, whoever
\* did and however far it got, or an installer of this process's own is started.
\* Without a home directory nobody knows where to look.
EnsurePulumi(p, home) ==
  LET found == home /\ p.disk # "none"
      installer == IF found THEN "none" ELSE IF home THEN "home" ELSE "homeless"
  IN [p EXCEPT !.path = found, !.ready = found, !.own = installer,
               !.doubt = IF @ = "hollow" THEN "none" ELSE @]

Init == /\ records = [id \in Ids |-> None]
        /\ runs = << >>
        /\ registered = [id \in Ids |-> None]
        /\ stacks = [k \in Keys |-> [lock |-> None, program |-> None]]
        /\ starting = {}
        /\ listening = [p \in Ports |-> None]
        /\ chromes \in SUBSET {2}
        /\ \E d \in {"none", "complete"}, home \in BOOLEAN :
             pulumi = EnsurePulumi([disk |-> d, path |-> FALSE, own |-> "none", orphans |-> FALSE,
                                    ready |-> FALSE, doubt |-> "none", boots |-> 1], home)

-------------------------------------------------------------------------------
(* SubmitTask, RestartTask and CancelTask *)

Unfinished(run) == run.at \notin {"done", "lost"}

\* Worker.Cancel.
Signalled(id) == [i \in DOMAIN runs |->
                    IF registered[id] = i THEN [runs[i] EXCEPT !.cancelled = TRUE] ELSE runs[i]]

\* The record is saved and a task object of its own handed to the worker.
\* alone: no other run of the task is in hand from its submission to its end.
Hand(id, task, request) ==
  LET busy == \E i \in DOMAIN runs : runs[i].id = id /\ Unfinished(runs[i])
      before == [i \in DOMAIN runs |->
                   [Signalled(id)[i] EXCEPT !.alone = @ /\ ~(runs[i].id = id /\ Unfinished(runs[i]))]]
  IN /\ Len(runs) < MaxRuns
     /\ records' = [records EXCEPT ![id] = task]
     /\ runs' = Append(before, [id |-> id, request |-> request, task |-> task, at |-> "queued",
                                cancelled |-> FALSE, alone |-> ~busy, read |-> FALSE])
     /\ UNCHANGED <<registered, stacks, browserVars, pulumi>>

NewTask(q) == [type |-> q.type, project |-> q.project, port |-> q.port,
               status |-> "pending", url |-> None]

\* Mutant of Merged: the environment of the record is kept.
MergedKeepsEnv(task, q) == [task EXCEPT !.status = "pending"]

\* A resubmission takes over the environment, if there is one, and neither the
\* type nor the project; the URL of the last deployment stays.
Merged(task, q) == [task EXCEPT !.port = IF q.port = None THEN @ ELSE q.port,
                                !.status = "pending"]

SubmitTask(q) ==
  Hand(q.id, IF records[q.id] = None THEN NewTask(q) ELSE Merged(records[q.id], q), q)

\* copilot-infra submit, with -name.
RunSubmit == \E q \in CliRequests : SubmitTask(q)

\* The MCP tool deploy_infra: the name of the stack is that of the task.
DeployInfra(stack, project) ==
  SubmitTask([id |-> stack, type |-> "infra", project |-> project, port |-> None])

\* The MCP tool start_browser: a task without a name, with an id of its own.
StartBrowser(id, port) ==
  /\ records[id] = None
  /\ SubmitTask([id |-> id, type |-> "browser", project |-> None,
                 port |-> IF port = None THEN DefaultPort ELSE port])

LastRun(id) == CHOOSE i \in DOMAIN runs :
                 runs[i].id = id /\ \A j \in DOMAIN runs : runs[j].id = id => j <= i

RestartTask(id) ==
  /\ records[id] # None
  /\ Hand(id, [records[id] EXCEPT !.status = "pending"], runs[LastRun(id)].request)

\* IsLongRunning is never set, so that nothing is destroyed.
CancelTask(id) ==
  /\ records[id] # None
  /\ registered[id] # None \/ records[id].status \in {"pending", "running"}
  /\ records' = [records EXCEPT ![id].status = "cancelled"]
  /\ runs' = Signalled(id)
  /\ UNCHANGED <<registered, stacks, browserVars, pulumi>>

-------------------------------------------------------------------------------
(* The worker and the executor *)

\* Where a task is deployed.  Stacks of the two kinds do not share names: those of
\* browsers are ids.
StackOf(task, id) ==
  <<IF task.type = "browser" /\ task.project = None THEN DaemonsProject ELSE task.project,
    task.type, id>>

PortOf(task) == IF task.port = None THEN DefaultPort ELSE task.port

\* CHROME_BIN if it is usable, then the first of a list of commands and paths.
ResolveChromeBin == IF chromes = {} THEN None
                    ELSE CHOOSE c \in chromes : \A d \in chromes : c <= d

\* A program is told from another by its create command.
ProgramOf(run) == IF run.task.type = "infra" THEN [port |-> None, bin |-> None]
                  ELSE [port |-> PortOf(run.task), bin |-> ResolveChromeBin]

Free(p) == listening[p] \in {None, Ended}

At(r, label) == r \in DOMAIN runs /\ runs[r].at = label

\* Run r takes a step: to label, with its stack and the browsers as given.
Step(r, label, stack) ==
  /\ runs' = [runs EXCEPT ![r].at = label]
  /\ stacks' = [stacks EXCEPT ![StackOf(runs[r].task, runs[r].id)] = stack]
  /\ UNCHANGED <<records, registered, pulumi>>

Stack(r) == stacks[StackOf(runs[r].task, runs[r].id)]
Unlocked(r) == [Stack(r) EXCEPT !.lock = None]

\* processTask, up to the call of Execute.
Begin(r) ==
  /\ At(r, "queued")
  /\ runs' = [runs EXCEPT ![r].at = "deploy", ![r].task.status = "running"]
  /\ records' = [records EXCEPT ![runs[r].id] = [runs[r].task EXCEPT !.status = "running"]]
  /\ registered' = [registered EXCEPT ![runs[r].id] = r]
  /\ UNCHANGED <<stacks, browserVars, pulumi>>

PulumiUsable == pulumi.path /\ pulumi.disk = "complete"

\* Manager.Deploy: without Pulumi there is no stack; the stack is refused for a
\* fault of Pulumi's own, and for certain while it is in the hands of an update.
Deploy(r) ==
  /\ At(r, "deploy")
  /\ UNCHANGED browserVars
  /\ \/ ~PulumiUsable /\ Step(r, "lacking", Stack(r))
     \/ PulumiUsable /\ Step(r, "err", Stack(r))
     \/ PulumiUsable /\ Stack(r).lock = None /\ Step(r, "up", [Stack(r) EXCEPT !.lock = r])

\* Mutant of UpToDate: any browser the stack has will do.
UpToDateAnyBrowser(r) == runs[r].task.type = "infra" \/ Stack(r).program # None

\* Nothing to create: a program without resources, or the one the stack is at,
\* whether or not its browser is still alive.
UpToDate(r) == runs[r].task.type = "infra" \/ Stack(r).program = ProgramOf(runs[r])

UpWithoutResources(r) ==
  /\ At(r, "up")
  /\ UpToDate(r)
  /\ Step(r, "outputs", [lock |-> None,
                         program |-> IF runs[r].task.type = "infra" THEN ProgramOf(runs[r])
                                                                    ELSE Stack(r).program])
  /\ UNCHANGED browserVars

\* BrowserProgram: the create command puts a browser in the background ...
CreateBrowser(r) ==
  /\ At(r, "up")
  /\ ~UpToDate(r)
  /\ ResolveChromeBin # None
  /\ starting' = starting \cup {<<runs[r].id, PortOf(runs[r].task)>>}
  /\ runs' = [runs EXCEPT ![r].at = "polling"]
  /\ UNCHANGED <<records, registered, stacks, listening, chromes, pulumi>>

\* Mutant of BrowserReady: exit 0 after the last poll as well.
BrowserReadyUnseen(r) ==
  /\ At(r, "polling")
  /\ Step(r, "outputs", [lock |-> None, program |-> ProgramOf(runs[r])])
  /\ UNCHANGED browserVars

\* ... and polls its port until it is answered there, by that browser, by another or
\* by any HTTP server: curl is content with a page that is not found.
BrowserReady(r) ==
  /\ At(r, "polling")
  /\ ~Free(PortOf(runs[r].task))
  /\ Step(r, "outputs", [lock |-> None, program |-> ProgramOf(runs[r])])
  /\ UNCHANGED browserVars

\* Mutant of UpFails: the stack is not released.
UpFailsLocked(r) ==
  /\ At(r, "up") \/ At(r, "polling")
  /\ Step(r, "err", Stack(r))
  /\ UNCHANGED browserVars

\* No browser is found, no poll is answered, or Pulumi fails: what was created
\* stays, and so does the program the stack was at.
UpFails(r) ==
  /\ At(r, "up") \/ At(r, "polling")
  /\ Step(r, "err", Unlocked(r))
  /\ UNCHANGED browserVars

\* The context of the run has ended: Pulumi is interrupted, and may be killed
\* before it has released the stack.
UpInterrupted(r) ==
  /\ At(r, "up") \/ At(r, "polling")
  /\ runs[r].cancelled
  /\ \E lock \in {None, Stale} : Step(r, "err", [Stack(r) EXCEPT !.lock = lock])
  /\ UNCHANGED browserVars

\* Manager.GetOutputs: the debug_url of whatever program the stack is at by now.
DebugUrl(r) == Stack(r).program.port

\* Asked for by long-running and browser tasks only, and an error is dropped.
GetOutputs(r) ==
  /\ At(r, "outputs")
  /\ \/ /\ runs[r].task.type = "browser"
        /\ runs' = [runs EXCEPT ![r].at = "ok", ![r].read = TRUE,
                                ![r].task.url = DebugUrl(r)]
     \/ runs' = [runs EXCEPT ![r].at = "ok"]
  /\ UNCHANGED <<records, registered, stacks, browserVars, pulumi>>

\* Mutant of Verdict: the error is taken for the status.
VerdictIsLabel(run) == run.at

Verdict(run) == IF run.at = "ok" THEN "succeeded"
                ELSE IF run.cancelled THEN "cancelled" ELSE "failed"

\* processTask, from the return of Execute: the whole task object is saved.
Finish(r) ==
  /\ r \in DOMAIN runs /\ runs[r].at \in {"ok", "err", "lacking"}
  /\ LET task == [runs[r].task EXCEPT !.status = Verdict(runs[r])]
     IN /\ runs' = [runs EXCEPT ![r].at = "done", ![r].task = task]
        /\ records' = [records EXCEPT ![runs[r].id] = task]
  /\ registered' = [registered EXCEPT ![runs[r].id] = None]
  /\ UNCHANGED <<stacks, browserVars, pulumi>>

RunStep(r) == \/ Begin(r) \/ Deploy(r) \/ UpWithoutResources(r) \/ CreateBrowser(r)
              \/ BrowserReady(r) \/ UpFails(r) \/ UpInterrupted(r) \/ GetOutputs(r) \/ Finish(r)

-------------------------------------------------------------------------------
(* Browsers, the installer and the process *)

\* A browser that was launched listens, unless its port is taken.
BrowserListens(id, p) ==
  /\ <<id, p>> \in starting
  /\ starting' = starting \ {<<id, p>>}
  /\ listening' = [listening EXCEPT ![p] = IF Free(p) THEN id ELSE @]
  /\ UNCHANGED <<records, runs, registered, stacks, chromes, pulumi>>

ForeignListens(p) ==
  /\ p \in ForeignPorts
  /\ Free(p)
  /\ listening' = [listening EXCEPT ![p] = Foreign]
  /\ UNCHANGED <<records, runs, registered, stacks, starting, chromes, pulumi>>

\* The browser, or the other server, that listens on the port ends.
BrowserDies(p) ==
  /\ ~Free(p)
  /\ listening' = [listening EXCEPT ![p] = Ended]
  /\ UNCHANGED <<records, runs, registered, stacks, starting, chromes, pulumi>>

\* A browser that comes first in the search is installed.
ChromeInstalled ==
  /\ chromes # Ranks
  /\ chromes' = Ranks
  /\ UNCHANGED <<records, runs, registered, stacks, starting, listening, pulumi>>

Setup(p) == pulumi' = p /\ UNCHANGED <<records, runs, registered, stacks, browserVars>>

Installing == pulumi.own # "none" \/ pulumi.orphans

\* The installer replaces what is there, file by file.
InstallerWrites ==
  /\ Installing
  /\ pulumi.disk # "partial"
  /\ Setup([pulumi EXCEPT !.disk = "partial"])

\* It ends, with this on disk, and the process logs success, having extended PATH.
Installed(disk, path) ==
  /\ pulumi.own # "none"
  /\ Setup([pulumi EXCEPT !.disk = disk, !.own = "none", !.path = path, !.ready = TRUE,
                           !.doubt = IF disk = "partial" \/ @ = "spoiled" THEN "spoiled"
                                     ELSE IF disk = "none" \/ pulumi.own = "homeless" THEN "hollow"
                                     ELSE @])

\* Mutant of OwnInstallerEnds: PATH is as it was.
OwnInstallerEndsNoPath == \E disk \in {"complete", pulumi.disk} : Installed(disk, pulumi.path)

\* The installer of this process has done its work; or curl has failed, sh had no
\* script or half of one to run, and its exit status is 0 all the same.  PATH is
\* extended if there is a home directory.
OwnInstallerEnds ==
  \E disk \in {"complete", pulumi.disk} : Installed(disk, pulumi.own = "home")

\* It fails, half-way or before, which is logged and not repeated.
OwnInstallerFails ==
  /\ pulumi.own # "none"
  /\ Setup([pulumi EXCEPT !.own = "none",
                           !.doubt = IF pulumi.disk = "partial" THEN "spoiled" ELSE @])

OrphanEnds == pulumi.orphans /\ Setup([pulumi EXCEPT !.disk = "complete", !.orphans = FALSE])

\* The daemon dies and is started again.  Installers and browsers live on, an
\* update does not; no run is taken up again.
Crash ==
  /\ pulumi.boots < MaxBoots
  /\ \E home \in BOOLEAN :
       pulumi' = EnsurePulumi([pulumi EXCEPT !.orphans = Installing, !.boots = @ + 1,
                                             !.doubt = IF Installing THEN "spoiled" ELSE @], home)
  /\ runs' = [i \in DOMAIN runs |->
                IF Unfinished(runs[i]) THEN [runs[i] EXCEPT !.at = "lost"] ELSE runs[i]]
  /\ registered' = [id \in Ids |-> None]
  /\ \E lock \in {None, Stale} :
       stacks' = [k \in DOMAIN stacks |-> IF stacks[k].lock = None THEN stacks[k]
                                          ELSE [stacks[k] EXCEPT !.lock = lock]]
  /\ UNCHANGED <<records, browserVars>>

Next == \/ RunSubmit
        \/ \E stack \in Names, p \in Projects : DeployInfra(stack, p)
        \/ \E id \in Anonymous, port \in McpPorts : StartBrowser(id, port)
        \/ \E id \in Ids : RestartTask(id) \/ CancelTask(id)
        \/ \E r \in 1..MaxRuns : RunStep(r)
        \/ \E id \in Ids, p \in Ports : BrowserListens(id, p)
        \/ \E p \in Ports : ForeignListens(p) \/ BrowserDies(p)
        \/ ChromeInstalled
        \/ InstallerWrites \/ OwnInstallerEnds \/ OwnInstallerFails \/ OrphanEnds
        \/ Crash

Spec == Init /\ [][Next]_vars

-------------------------------------------------------------------------------
(* Properties *)

Run == [id: Ids, request: Request, task: Task,
        at: {"queued", "deploy", "lacking", "up", "polling", "outputs", "ok", "err", "done", "lost"},
        cancelled: BOOLEAN, alone: BOOLEAN, read: BOOLEAN]

TypeOK ==
  /\ records \in [Ids -> Task \cup {None}]
  /\ runs \in Seq(Run)
  /\ registered \in [Ids -> Nat \cup {None}]
  /\ stacks \in [Keys -> [lock: Nat \cup {None, Stale}, program: Program \cup {None}]]
  /\ starting \subseteq Ids \X Ports
  /\ listening \in [Ports -> Ids \cup {Foreign, None, Ended}]
  /\ chromes \subseteq Ranks
  /\ pulumi \in [disk: {"none", "partial", "complete"}, path: BOOLEAN,
                 own: {"none", "home", "homeless"}, orphans: BOOLEAN, ready: BOOLEAN,
                 doubt: {"none", "hollow", "spoiled"}, boots: Nat]

\* A stack is in the hands of at most one update, and one that is in the hands of
\* a run is so no longer than the update: whatever fails, is cancelled or dies, a
\* run that has ended does not hold it (executor.go:120, manager.go:45).
StackHasOneUpdate ==
  /\ \A r \in DOMAIN runs : runs[r].at \in {"up", "polling"} => Stack(r).lock = r
  /\ \A k \in Keys : stacks[k].lock \in Nat =>
       /\ stacks[k].lock \in DOMAIN runs
       /\ runs[stacks[k].lock].at \in {"up", "polling"}

\* The runs of the task were one after the other, and asked for one kind of task
\* in one project: only the first request decides on these.
RunsOf(id) == {i \in DOMAIN runs : runs[i].id = id}
Orderly(id) == \A i \in RunsOf(id) : runs[i].alone
OneKind(id) == \A i, j \in RunsOf(id) : /\ runs[i].request.type = runs[j].request.type
                                      /\ runs[i].request.project = runs[j].request.project

\* The port asked for last, by a request that named one.
WantedPort(id) ==
  LET naming == {i \in RunsOf(id) : runs[i].request.port # None}
  IN IF naming = {} THEN DefaultPort
     ELSE runs[CHOOSE i \in naming : \A j \in naming : j <= i].request.port

Succeeded(id) == records[id] # None /\ records[id].status = "succeeded"

\* What a task that succeeded has deployed is what the requests together asked
\* for, and in the stack they named, also after runs that failed half-way, were
\* cancelled or died (grpc_handler.go:59-82, executor.go:68-153).
DeployedAsAsked ==
  \A id \in Ids : Succeeded(id) /\ Orderly(id) /\ OneKind(id) =>
    LET program == stacks[StackOf(runs[LastRun(id)].request, id)].program
    IN /\ program # None
       /\ records[id].type = "browser" => program.port = WantedPort(id)

\* The URL in a record is that of a browser of this very task; once the outputs
\* were read, of the one it has now (executor.go:126-133: otherwise that of an
\* earlier deployment stays).
UrlIsOwn ==
  \A id \in Ids : records[id] # None /\ records[id].url # None =>
    /\ \E i \in RunsOf(id) : records[id].url = PortOf(runs[i].task)
    /\ Succeeded(id) /\ Orderly(id) /\ runs[LastRun(id)].read => records[id].url = PortOf(records[id])

\* On the port of a browser task that succeeded something has answered.  What
\* answers now is its own browser, unless that has ended, which a restart does not
\* mend, or another task asked for the port, or a server that no task has started is
\* there: to the poll that is a browser too (browser.go:32-42).
BrowserBehindSuccess ==
  \A id \in Ids : Succeeded(id) /\ records[id].type = "browser" =>
    LET port == PortOf(records[id])
    IN /\ listening[port] # None
       /\ \/ listening[port] \in {id, Foreign, Ended}
          \/ \E i \in DOMAIN runs \ RunsOf(id) : PortOf(runs[i].task) = port

\* No deployment lacks Pulumi after the daemon has logged that it is there, unless that
\* is in doubt: hollow, this process logged so though its installer had been given
\* nothing to run (setup.go:50: the status of curl | sh is that of sh) or though it
\* knows no home directory and so extends no PATH (setup.go:59), which the next start
\* looks into again; spoiled, an installer stopped half-way or outlived its daemon,
\* and whatever such a one leaves behind counts as installed ever after (setup.go:26).
Lacking(r) == At(r, "lacking")
PulumiFound ==
  [][\A r \in 1..MaxRuns : Lacking(r)' /\ ~Lacking(r) =>
       ~pulumi.ready \/ pulumi.doubt # "none"]_vars
===============================================================================
