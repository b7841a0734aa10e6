---------------------------- MODULE DaemonControl -----------------------------
(***************************************************************************)
(* The start, stop and restart commands of cmd/copilot-infra/main.go, the  *)
(* daemon processes they start and stop, and the PID file between them.    *)
(*                                                                         *)
(* The file under the name of the PID file may be removed while a process  *)
(* has it open, and another be created under the same name; so files are   *)
(* told apart from the name.  start creates or opens the file, locks it    *)
(* and starts the daemon, a second process that inherits the lock and runs *)
(* startDaemon once more; it writes its PID and runs the server.  Files,   *)
(* locks and Reborn are go-daemon's, as startDaemon uses them.             *)
(*                                                                         *)
(* A process is named by its PID, and a PID is used once.  Time is left    *)
(* out: a wait may end at any moment.                                      *)
(***************************************************************************)
EXTENDS Naturals, FiniteSets

CONSTANTS Procs,   \* the daemon processes: the bound on how many are ever started
          Old,     \* one that died and may have left its PID file behind
          Cmds,    \* command lines: start, stop, restart
          Files,   \* the bound on files open or named at one time
          NoProc, NoFile,
          Crashes  \* whether a daemon may die by itself

ASSUME DaemonAssumption == /\ Old \in Procs
                           /\ NoProc \notin Procs
                           /\ NoFile \notin Files
                           /\ Procs \cap Cmds = {}
                           /\ Crashes \in BOOLEAN

VARIABLES at,      \* where each command and each process is
          seen,    \* the PID each of them read from the PID file
          named,   \* the file under the name of the PID file
          content, \* file -> the PID in it
          lock,    \* file -> the process that holds its lock
          open,    \* the PID file each of them has open
          port,    \* the process that listens on the gRPC port
          term,    \* the processes whose context SIGTERM has ended
          again,   \* the commands that restart: a start follows the stop
          hit      \* history: a daemon was told to stop or died by itself

pidFile == <<named, content, lock, open>>
server == <<port, term, again, hit>>
vars == <<at, seen, pidFile, server>>

Agents == Cmds \cup Procs

Gone == {"unused", "dead"}
Alive(p) == at[p] \notin Gone
\* The PID is written and the process has not begun to clean up.
InServer == {"named", "notified", "serving"}

Init == /\ at = [a \in Agents |-> CASE a \in Cmds -> "idle"
                                    [] a = Old    -> "dead"
                                    [] OTHER      -> "unused"]
        /\ seen = [a \in Agents |-> NoProc]
        /\ \/ named = NoFile /\ content = [f \in Files |-> NoProc]
           \/ \E stale \in Files :
                /\ named = stale
                /\ content = [f \in Files |-> IF f = stale THEN Old ELSE NoProc]
        /\ lock = [f \in Files |-> NoProc]
        /\ open = [a \in Agents |-> NoFile]
        /\ port = NoProc
        /\ term = {}
        /\ again = {}
        /\ hit = FALSE

Goto(a, label) == at' = [at EXCEPT ![a] = label]

\* What Search finds in the PID file: a missing or empty one is an error.
Found == IF named = NoFile THEN NoProc ELSE content[named]

Search(a, label) == /\ seen' = [seen EXCEPT ![a] = Found]
                    /\ Goto(a, label)
                    /\ UNCHANGED <<pidFile, server>>

\* A PID is a local variable: it is gone when its use is over.
Forget(a) == seen' = [seen EXCEPT ![a] = NoProc]

\* os.Remove of the name, whatever file it stands for by now.
RemovePidFile(a, label) == /\ named' = NoFile
                           /\ Goto(a, label)
                           /\ Forget(a)
                           /\ UNCHANGED <<content, lock, open, server>>

\* Mutant of Frees: the lock outlives the process, as a lock that is a file would.
FreesNoLock(p) == /\ open' = [open EXCEPT ![p] = NoFile]
                  /\ port' = IF port = p THEN NoProc ELSE port
                  /\ term' = term \ {p}
                  /\ UNCHANGED lock

\* What the end of a process does: its lock and its port are free.
Frees(p) == /\ open' = [open EXCEPT ![p] = NoFile]
            /\ port' = IF port = p THEN NoProc ELSE port
            /\ term' = term \ {p}
            /\ lock' = [f \in Files |-> IF lock[f] = p THEN NoProc ELSE lock[f]]

\* The process is gone, its PID file stays.
Dies(p) == /\ at' = [at EXCEPT ![p] = "dead"]
           /\ Frees(p)
           /\ Forget(p)
           /\ UNCHANGED <<named, content, again>>

-------------------------------------------------------------------------------
(* startDaemon, run by the command and again by the process it starts *)

\* Bound: a command starts a daemon only while there is a process left for it.
Startable ==
  LET starting == {c \in Cmds : at[c] \in {"search", "check", "reborn", "lock"} \/ c \in again}
  IN  Cardinality({p \in Procs : at[p] = "unused"}) > Cardinality(starting)

Start(c) == /\ at[c] = "idle"
            /\ Startable
            /\ Goto(c, "search")
            /\ UNCHANGED <<seen, pidFile, server>>

StartSearch(a) == at[a] = "search" /\ Search(a, "check")

\* A daemon that is alive: "already running", the command or the process ends.
AlreadyRunning(a) ==
  /\ at[a] = "check"
  /\ seen[a] # NoProc
  /\ Alive(seen[a])
  /\ IF a \in Procs THEN Dies(a)
     ELSE Goto(a, "idle") /\ Forget(a) /\ UNCHANGED <<pidFile, port, term, again>>
  /\ UNCHANGED hit

RemoveStale(a) == /\ at[a] = "check"
                  /\ seen[a] # NoProc
                  /\ ~Alive(seen[a])
                  /\ RemovePidFile(a, "reborn")

NothingFound(a) == /\ at[a] = "check"
                   /\ seen[a] = NoProc
                   /\ Goto(a, "reborn")
                   /\ UNCHANGED <<seen, pidFile, server>>

\* Reborn in the command: open the file under the name, or create one.
OpenPidFile(c) ==
  /\ at[c] = "reborn"
  /\ c \in Cmds
  /\ \E f \in Files :
       /\ open' = [open EXCEPT ![c] = f]
       /\ \/ named = f /\ UNCHANGED <<named, content>>
          \/ /\ named = NoFile
             /\ \A a \in Agents : open[a] # f
             /\ named' = f
             /\ content' = [content EXCEPT ![f] = NoProc]
  /\ Goto(c, "lock")
  /\ UNCHANGED <<seen, lock, server>>

\* Mutant of Launch: the lock is not asked for.
LaunchUnlocked(c, p) ==
  /\ at[c] = "lock"
  /\ at[p] = "unused"
  /\ lock' = [lock EXCEPT ![open[c]] = p]
  /\ at' = [at EXCEPT ![c] = "idle", ![p] = "search"]
  /\ open' = [open EXCEPT ![c] = NoFile, ![p] = open[c]]
  /\ UNCHANGED <<seen, named, content, server>>

\* Mutant of Launch: the command writes the PID, and the daemon finds itself.
LaunchNamed(c, p) ==
  /\ at[c] = "lock"
  /\ lock[open[c]] = NoProc
  /\ at[p] = "unused"
  /\ lock' = [lock EXCEPT ![open[c]] = p]
  /\ content' = [content EXCEPT ![open[c]] = p]
  /\ at' = [at EXCEPT ![c] = "idle", ![p] = "search"]
  /\ open' = [open EXCEPT ![c] = NoFile, ![p] = open[c]]
  /\ UNCHANGED <<seen, named, server>>

\* Lock it and start the daemon, which inherits the lock.
Launch(c, p) ==
  /\ at[c] = "lock"
  /\ lock[open[c]] = NoProc
  /\ at[p] = "unused"
  /\ lock' = [lock EXCEPT ![open[c]] = p]
  /\ at' = [at EXCEPT ![c] = "idle", ![p] = "search"]
  /\ open' = [open EXCEPT ![c] = NoFile, ![p] = open[c]]
  /\ UNCHANGED <<seen, named, content, server>>

\* The lock is taken: log.Fatal.
LaunchFails(c) ==
  /\ at[c] = "lock"
  /\ lock[open[c]] # NoProc
  /\ open' = [open EXCEPT ![c] = NoFile]
  /\ Goto(c, "idle")
  /\ UNCHANGED <<seen, named, content, lock, server>>

\* Reborn in the new process: write the PID into the inherited file.
WritePid(p) ==
  /\ at[p] = "reborn"
  /\ p \in Procs
  /\ content' = [content EXCEPT ![open[p]] = p]
  /\ Goto(p, "named")
  /\ UNCHANGED <<seen, named, lock, open, server>>

-------------------------------------------------------------------------------
(* runServer *)

\* signal.NotifyContext: from here on SIGTERM does not kill the process.
NotifyContext(p) ==
  /\ at[p] = "named"
  /\ Goto(p, "notified")
  /\ UNCHANGED <<seen, pidFile, server>>

Listen(p) ==
  /\ at[p] = "notified"
  /\ port = NoProc
  /\ port' = p
  /\ Goto(p, "serving")
  /\ UNCHANGED <<seen, pidFile, term, again, hit>>

\* The port is taken: log.Fatalf, which runs no deferred function.
ListenFails(p) == /\ at[p] = "notified"
                  /\ port # NoProc
                  /\ Dies(p)
                  /\ UNCHANGED hit

\* The deferred os.Remove of runServer ...
ShutDown(p) == /\ at[p] = "serving"
               /\ p \in term
               /\ RemovePidFile(p, "leaving")

\* ... and the deferred Release of startDaemon: it unlocks the file ...
Unlock(p) ==
  /\ at[p] = "leaving"
  /\ lock' = [lock EXCEPT ![open[p]] = NoProc]
  /\ Goto(p, "unlocked")
  /\ UNCHANGED <<seen, named, content, open, server>>

\* ... and removes the name once more.
Release(p) == at[p] = "unlocked" /\ RemovePidFile(p, "released")

Exit(p) == at[p] = "released" /\ Dies(p) /\ UNCHANGED hit

\* A panic, log.Fatalf or SIGKILL.
Crash(p) == /\ Crashes
            /\ p \in Procs
            /\ Alive(p)
            /\ Dies(p)
            /\ hit' = TRUE

-------------------------------------------------------------------------------
(* stopDaemon *)

Stop(c) == /\ at[c] = "idle"
           /\ \/ again' = again
              \/ Startable /\ again' = again \cup {c}
           /\ Goto(c, "stopSearch")
           /\ UNCHANGED <<seen, pidFile, port, term, hit>>

\* restart goes on with startDaemon, whatever the stop has come to.
EndStop(c) == /\ Goto(c, IF c \in again THEN "search" ELSE "idle")
              /\ again' = again \ {c}
              /\ Forget(c)

StopSearch(c) == at[c] = "stopSearch" /\ Search(c, "stopCheck")

NotRunning(c) ==
  /\ at[c] = "stopCheck"
  /\ \/ seen[c] = NoProc /\ UNCHANGED named
     \/ seen[c] # NoProc /\ ~Alive(seen[c]) /\ named' = NoFile
  /\ EndStop(c)
  /\ UNCHANGED <<content, lock, open, port, term, hit>>

StopRunning(c) ==
  /\ at[c] = "stopCheck"
  /\ seen[c] # NoProc
  /\ Alive(seen[c])
  /\ Goto(c, "signal")
  /\ UNCHANGED <<seen, pidFile, server>>

\* SIGTERM: is an error if the process has gone ...
SignalNobody(c) ==
  /\ at[c] = "signal"
  /\ ~Alive(seen[c])
  /\ EndStop(c)
  /\ UNCHANGED <<pidFile, port, term, hit>>

\* ... ends the context of one between NotifyContext and its stop ...
SignalContext(c) ==
  /\ at[c] = "signal"
  /\ at[seen[c]] \in {"notified", "serving", "leaving"}
  /\ term' = term \cup {seen[c]}
  /\ hit' = TRUE
  /\ Goto(c, "wait")
  /\ UNCHANGED <<seen, pidFile, port, again>>

\* ... and kills any other.
SignalKills(c) ==
  /\ at[c] = "signal"
  /\ at[seen[c]] \in {"search", "check", "reborn", "named", "unlocked", "released"}
  /\ at' = [at EXCEPT ![c] = "wait", ![seen[c]] = "dead"]
  /\ Frees(seen[c])
  /\ Forget(seen[c])
  /\ hit' = TRUE
  /\ UNCHANGED <<named, content, again>>

SignalTerm(c) == SignalNobody(c) \/ SignalContext(c) \/ SignalKills(c)

\* The loop ends when the daemon is not found any more, or after five rounds.
EndWait(c) == /\ at[c] = "wait"
              /\ EndStop(c)
              /\ UNCHANGED <<pidFile, port, term, hit>>

-------------------------------------------------------------------------------
StartDaemon(a) == \/ StartSearch(a) \/ AlreadyRunning(a) \/ RemoveStale(a) \/ NothingFound(a)
                  \/ OpenPidFile(a) \/ LaunchFails(a) \/ \E p \in Procs : Launch(a, p)

RunServer(p) == \/ WritePid(p) \/ NotifyContext(p) \/ Listen(p) \/ ListenFails(p)
                \/ ShutDown(p) \/ Unlock(p) \/ Release(p) \/ Exit(p)

StopDaemon(c) == StopSearch(c) \/ NotRunning(c) \/ StopRunning(c) \/ SignalTerm(c) \/ EndWait(c)

Next == \/ \E a \in Agents : StartDaemon(a)
        \/ \E p \in Procs : RunServer(p) \/ Crash(p)
        \/ \E c \in Cmds : Start(c) \/ Stop(c) \/ StopDaemon(c)

Spec == Init /\ [][Next]_vars

\* Every process and every command that can run does; nobody has to give commands.
Fairness == /\ \A a \in Agents : WF_vars(StartDaemon(a))
            /\ \A p \in Procs : WF_vars(RunServer(p))
            /\ \A c \in Cmds : WF_vars(StopDaemon(c))

FairSpec == Spec /\ Fairness

-------------------------------------------------------------------------------
(* Properties *)

\* Every variable has its type; who holds a lock has the file open.
TypeOK ==
  /\ at \in [Agents -> {"idle", "search", "check", "reborn", "lock", "stopSearch", "stopCheck",
                        "signal", "wait", "leaving", "unlocked", "released"} \cup InServer \cup Gone]
  /\ seen \in [Agents -> Procs \cup {NoProc}]
  /\ named \in Files \cup {NoFile}
  /\ content \in [Files -> Procs \cup {NoProc}]
  /\ lock \in [Files -> Procs \cup {NoProc}]
  /\ \A f \in Files : lock[f] # NoProc => open[lock[f]] = f
  /\ open \in [Agents -> Files \cup {NoFile}]
  /\ port \in Procs \cup {NoProc}
  /\ term \subseteq Procs
  /\ again \subseteq Cmds
  /\ hit \in BOOLEAN

\* Of all daemons there are, one at most has the file under the name open, and
\* that file names it: while its PID file has not been removed, start finds a
\* daemon and stop reaches it, however many commands run and daemons crash at the
\* same time (main.go:203-268).
FileNamesDaemon ==
  named # NoFile =>
    \A p \in Procs : at[p] \in InServer /\ open[p] = named
      => content[named] = p /\ \A q \in Procs \ {p} : open[q] # named

\* A start that launches a daemon ends with one serving, that one or another,
\* unless a daemon is told to stop or crashes: commands that race each other, or
\* find the PID file of a dead daemon, do not undo each other's daemons.
StartServes == \A p \in Procs : at[p] = "search" ~> port # NoProc \/ hit

\* A daemon that serves, and was not told to stop, is found: status reports it and
\* stop stops it (main.go:55-56).
ServingIsFound == \A p \in Procs : at[p] = "serving" /\ p \notin term => Found = p
===============================================================================
