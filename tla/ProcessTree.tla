------------------------------ MODULE ProcessTree ------------------------------
(***************************************************************************)
(* The processes of a command that executeRawCommand runs: the shell it    *)
(* starts in a process group of its own, what that forks, the Wait for it  *)
(* (pkg/task/executor.go:155), and the two ways CancelTask ends it: the    *)
(* context, which kills the shell alone, and the force kill, which scans   *)
(* /proc for the descendants of the shell and kills them, the shell and    *)
(* its group (pkg/api/grpc_handler.go:471).                                *)
(*                                                                         *)
(* The processes of the command fork, exit, leave their group and close    *)
(* their output whenever they like, between any two steps of the kill.     *)
(* A process is named by its PID, and a PID is used once.                  *)
(***************************************************************************)
CONSTANTS Pids,     \* the bound on the processes the command ever has
          Shell,    \* the one that executeRawCommand starts
          Daemon,   \* its parent, the daemon
          Adopter,  \* the process that orphans are given to, and that reaps them
          NoPid

ASSUME ProcessAssumption == /\ Shell \in Pids
                            /\ {Daemon, Adopter, NoPid} \cap Pids = {}
                            /\ Daemon # Adopter /\ Daemon # NoPid /\ Adopter # NoPid

VARIABLES state,     \* of each process: unborn, alive, zombie (listed in /proc still), gone
          parent,    \* its parent
          grouped,   \* the processes in the group of the shell
          writes,    \* the processes that have the output pipe of the command open
          exec,      \* executeRawCommand: idle, started (no PID saved), reaped (the shell is), returned
          pid,       \* the PID in the record of the task
          cancelled, \* the context of the run is
          kill,      \* where the force kill is
          unread,    \* /proc entries it has still to read
          ppid,      \* the parents it has read
          targets,   \* descendants it has still to kill
          attached   \* history: the shell and those below it when the kill began, but
                     \* those that lost an ancestor before the scan was over and
                     \* those of which, or of an ancestor, the stat was not read

procs == <<state, parent, grouped, writes>>
force == <<kill, unread, ppid, targets, attached>>
vars == <<procs, exec, pid, cancelled, force>>

Alive == {p \in Pids : state[p] = "alive"}
Listed == {p \in Pids : state[p] \in {"alive", "zombie"}}

\* Those below root by the parents in "of": collect, called for root.  They are in
\* every set that has the children of root and of whatever it has.
Below(root, of) ==
  LET closed == {S \in SUBSET Pids : \A p \in Pids : of[p] \in S \cup {root} => p \in S}
  IN  {p \in Pids \ {root} : \A S \in closed : p \in S}

Nothing == [p \in Pids |-> NoPid]

Init == /\ state = [p \in Pids |-> "unborn"]
        /\ parent = Nothing
        /\ grouped = {}
        /\ writes = {}
        /\ exec = "idle"
        /\ pid = NoPid
        /\ cancelled = FALSE
        /\ kill = "none"
        /\ unread = {}
        /\ ppid = Nothing
        /\ targets = {}
        /\ attached = {}

-------------------------------------------------------------------------------
(* The processes of the command *)

Inherit(p, child, set) == IF p \in set THEN set \cup {child} ELSE set

\* The next PID, whichever that is.  The child stays in the group or leaves it,
\* keeps the output or closes it.
Fork(p) ==
  LET unborn == {q \in Pids \ {Shell} : state[q] = "unborn"}
      child == CHOOSE q \in unborn : TRUE
  IN  /\ state[p] = "alive"
      /\ unborn # {}
      /\ state' = [state EXCEPT ![child] = "alive"]
      /\ parent' = [parent EXCEPT ![child] = p]
      /\ grouped' \in {grouped, Inherit(p, child, grouped)}
      /\ writes' \in {writes, Inherit(p, child, writes)}
      /\ UNCHANGED <<exec, pid, cancelled, force>>

\* The processes of S end: what they have forked is given to the adopter, and
\* whatever has that for a parent is reaped when it ends.
End(S) ==
  LET newParent == [p \in Pids |-> IF parent[p] \in S THEN Adopter ELSE parent[p]]
      ended == S \cup {p \in Pids : state[p] = "zombie"}
      reaped == {p \in ended : newParent[p] = Adopter}
  IN  /\ state' = [p \in Pids |-> CASE p \in reaped -> "gone"
                                    [] p \in S \ reaped -> "zombie"
                                    [] OTHER -> state[p]]
      /\ parent' = [p \in Pids |-> IF p \in reaped THEN NoPid ELSE newParent[p]]
      /\ grouped' = grouped \ S
      /\ writes' = writes \ S
      /\ attached' = IF unread = {} THEN attached
                     ELSE attached \ UNION {Below(p, parent) : p \in S}

Exit(p) == /\ state[p] = "alive"
           /\ End({p})
           /\ UNCHANGED <<exec, pid, cancelled, kill, unread, ppid, targets>>

Reaped(p) == /\ state' = [state EXCEPT ![p] = "gone"]
             /\ parent' = [parent EXCEPT ![p] = NoPid]
             /\ UNCHANGED <<grouped, writes>>

\* A process waits for its child.
Reap(p) == /\ state[p] = "zombie"
           /\ parent[p] \in Alive
           /\ Reaped(p)
           /\ UNCHANGED <<exec, pid, cancelled, force>>

-------------------------------------------------------------------------------
(* executeRawCommand *)

\* cmd.Start, with Setpgid.
StartCommand ==
  /\ exec = "idle"
  /\ exec' = "started"
  /\ state' = [state EXCEPT ![Shell] = "alive"]
  /\ parent' = [parent EXCEPT ![Shell] = Daemon]
  /\ grouped' = {Shell}
  /\ writes' = {Shell}
  /\ UNCHANGED <<pid, cancelled, force>>

\* Mutant of SavePid: the PID of the wrong process.
SavePidOfDaemon ==
  /\ exec = "started"
  /\ exec' = "waiting"
  /\ pid' = Daemon
  /\ UNCHANGED <<procs, cancelled, force>>

\* SaveTask, which may be refused and is not tried again.
SavePid ==
  /\ exec = "started"
  /\ exec' = "waiting"
  /\ pid' \in {pid, Shell}
  /\ UNCHANGED <<procs, cancelled, force>>

\* Mutant of ContextKills: Command, which has no context.
ContextIgnored == FALSE /\ UNCHANGED vars

\* What CommandContext does when the context ends: it kills the shell, no other.
ContextKills ==
  /\ exec \in {"started", "waiting"}
  /\ cancelled
  /\ state[Shell] = "alive"
  /\ End({Shell})
  /\ UNCHANGED <<exec, pid, cancelled, kill, unread, ppid, targets>>

\* cmd.Wait: first for the shell ...
WaitReaps ==
  /\ exec = "waiting"
  /\ state[Shell] = "zombie"
  /\ Reaped(Shell)
  /\ exec' = "reaped"
  /\ UNCHANGED <<pid, cancelled, force>>

\* ... then for the end of the output, which is no file but a pipe.
WaitReturns ==
  /\ exec = "reaped"
  /\ writes = {}
  /\ exec' = "returned"
  /\ UNCHANGED <<procs, pid, cancelled, force>>

-------------------------------------------------------------------------------
(* CancelTask *)

\* Without force: the context of the run is cancelled, if it has not returned.
Cancel ==
  /\ exec # "returned"
  /\ ~cancelled
  /\ cancelled' = TRUE
  /\ UNCHANGED <<procs, exec, pid, force>>

\* With force: the PID of the record is read once; there is a kill if there is one.
CancelForce(next) ==
  /\ kill = "none"
  /\ exec # "idle"
  /\ kill' = next
  /\ UNCHANGED <<procs, exec, pid, cancelled, ppid, targets>>

CancelWithoutPid ==
  /\ CancelForce("signal")
  /\ pid = NoPid
  /\ UNCHANGED <<unread, attached>>

\* getChildPIDs lists /proc; of its entries, that of the shell itself tells nothing.
ListProc ==
  /\ CancelForce("scan")
  /\ pid # NoPid
  /\ unread' = Listed \ {Shell}
  /\ attached' = {Shell} \cup (Below(Shell, parent) \cap Listed)

\* Where that fails, be it that there is no /proc, no descendant is looked for.
ListProcFails ==
  /\ CancelForce("descendants")
  /\ pid # NoPid
  /\ unread' = {}
  /\ attached' = {Shell}

\* The entries are read one by one.
ReadStat(p) ==
  /\ kill = "scan"
  /\ p \in unread \cap Listed
  /\ unread' = unread \ {p}
  /\ ppid' = [ppid EXCEPT ![p] = parent[p]]
  /\ UNCHANGED <<procs, exec, pid, cancelled, kill, targets, attached>>

\* One that cannot be read is skipped: it has gone, or not, and then those below it
\* are not found either.
ReadStatFails(p) ==
  /\ kill = "scan"
  /\ p \in unread
  /\ unread' = unread \ {p}
  /\ attached' = attached \ ({p} \cup Below(p, parent))
  /\ UNCHANGED <<procs, exec, pid, cancelled, kill, ppid, targets>>

\* Mutant of Collect: the children only.
CollectChildren ==
  /\ kill = "scan"
  /\ unread = {}
  /\ kill' = "descendants"
  /\ targets' = {p \in Pids : ppid[p] = pid}
  /\ UNCHANGED <<procs, exec, pid, cancelled, unread, ppid, attached>>

Collect ==
  /\ kill = "scan"
  /\ unread = {}
  /\ kill' = "descendants"
  /\ targets' = Below(pid, ppid)
  /\ UNCHANGED <<procs, exec, pid, cancelled, unread, ppid, attached>>

\* SIGKILL to those of S that are alive.
Sigkill(S) == /\ End(S \cap Alive)
              /\ UNCHANGED <<exec, pid, cancelled, unread>>

\* Those found below a process before the process itself.
KillDescendant(p) ==
  /\ kill = "descendants"
  /\ p \in targets
  /\ targets \cap Below(p, ppid) = {}
  /\ targets' = targets \ {p}
  /\ Sigkill({p})
  /\ UNCHANGED <<kill, ppid>>

KillParent ==
  /\ kill = "descendants"
  /\ targets = {}
  /\ kill' = "group"
  /\ ppid' = Nothing
  /\ Sigkill({pid})
  /\ UNCHANGED targets

\* Mutant of KillGroup: the group is left out.
KillNoGroup ==
  /\ kill = "group"
  /\ kill' = "signal"
  /\ UNCHANGED <<procs, exec, pid, cancelled, unread, ppid, targets, attached>>

KillGroup ==
  /\ kill = "group"
  /\ kill' = "signal"
  /\ Sigkill(grouped)
  /\ UNCHANGED <<ppid, targets>>

\* worker.Cancel after the kill.
Signal ==
  /\ kill = "signal"
  /\ kill' = "done"
  /\ cancelled' = (cancelled \/ exec # "returned")
  /\ UNCHANGED <<procs, exec, pid, unread, ppid, targets, attached>>

-------------------------------------------------------------------------------
ExecuteStep == StartCommand \/ SavePid \/ ContextKills \/ WaitReaps \/ WaitReturns

KillStep == \/ \E p \in Pids : ReadStat(p) \/ ReadStatFails(p) \/ KillDescendant(p)
            \/ Collect \/ KillParent \/ KillGroup \/ Signal

Next == \/ \E p \in Pids : Fork(p) \/ Exit(p) \/ Reap(p)
        \/ Cancel \/ CancelWithoutPid \/ ListProc \/ ListProcFails
        \/ ExecuteStep
        \/ KillStep

\* The goroutine of the run and that of the call go on; the command need not end.
Spec == Init /\ [][Next]_vars /\ WF_vars(ExecuteStep) /\ WF_vars(KillStep)

-------------------------------------------------------------------------------
(* Properties *)

\* Every variable has its type; an orphan always has a parent that reaps it.
TypeOK ==
  /\ state \in [Pids -> {"unborn", "alive", "zombie", "gone"}]
  /\ parent \in [Pids -> Pids \cup {Daemon, Adopter, NoPid}]
  /\ exec \in {"idle", "started", "waiting", "reaped", "returned"}
  /\ pid \in {NoPid, Shell}
  /\ cancelled \in BOOLEAN
  /\ kill \in {"none", "scan", "descendants", "group", "signal", "done"}
  /\ ppid \in [Pids -> Pids \cup {Daemon, Adopter, NoPid}]
  /\ unread \cup targets \cup attached \subseteq Pids
  /\ grouped \cup writes \subseteq Alive
  /\ \A p \in Listed : parent[p] \in Alive \cup {Adopter, Daemon}

Killed == kill \in {"signal", "done"} /\ attached # {}

\* After a force kill nothing is left of the tree below the shell as the scan
\* could see it: a process that was there when the kill began survives only if it
\* lost an ancestor before the scan was over, or if its stat or that of an ancestor
\* could not be read - of none it can where there is no /proc, and then only the
\* shell and its group die (grpc_handler.go:471-493, 497, 514).
SeenDescendantsDie == Killed => attached \cap Alive = {}

\* ... and nothing is left of the process group, forked meanwhile or not: a
\* process survives only if it has left the group too.
SurvivorsLeftGroup == Killed => grouped = {}

\* A cancelled run ends, unless a process other than the shell goes on writing
\* to its output; after a force kill, only one that has left the group can
\* (executor.go:173, where Wait also waits for the output).
CancelledRunReturns ==
  <>[](cancelled => \/ exec = "returned"
                    \/ \E p \in writes : p # Shell /\ (Killed => p \notin grouped))
===============================================================================
