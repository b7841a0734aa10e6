-------------------------------- MODULE Worker --------------------------------
(***************************************************************************)
(* The background worker of pkg/worker/worker.go: a bounded channel of     *)
(* task objects, one loop that starts a goroutine for each, and the map    *)
(* "running" from a task id to the cancel function of its goroutine.       *)
(*                                                                         *)
(* A run is one *task.Task handed to Submit together with the goroutine    *)
(* that processes it.  Every RPC that (re)submits a task decodes a task    *)
(* object of its own, so one id may have several runs at once; the map has *)
(* one entry per id.  A cancel function is named by its run.               *)
(*                                                                         *)
(* Names that TaskService uses for the whole system are taken with the     *)
(* prefix Worker here.                                                     *)
(***************************************************************************)
EXTENDS Naturals, SequencesExt

CONSTANTS Ids,      \* task ids
          Runs,     \* task objects: the bound on how many are ever submitted
          NoRun,    \* no cancel function
          TaskOf,   \* the task id of each run
          LongRuns, \* the runs whose task object has IsLongRunning set
          Calls,    \* goroutines that serve an RPC and may call Cancel
          QueueCap, \* capacity of the channel (100 in the code)
          Stops     \* whether the process may be told to stop, or die

ASSUME WorkerAssumption == /\ NoRun \notin Runs
                           /\ TaskOf \in [Runs -> Ids]
                           /\ LongRuns \subseteq Runs
                           /\ QueueCap \in Nat \ {0}
                           /\ Stops \in BOOLEAN

VARIABLES queue,     \* the channel
          running,   \* id -> the run whose cancel function is registered
          grabbed,   \* the cancel function a caller of Cancel took from the map
          pc,        \* where each run is
          status,    \* the Status field of each run's task object
          cancelled, \* taskCtx.Err() # nil: the context of the run is done
          ctxDone,   \* the context of the process is done: SIGTERM or SIGINT
          loop       \* Start: "listening" or "returned"

workerVars == <<queue, running, grabbed, pc, status, cancelled, ctxDone, loop>>

\* Between the two critical sections of processTask.
Registered == {"registered", "executing", "waiting", "ok", "err", "finished"}
\* Execute has been called and its verdict not been recorded.
InExecute == {"executing", "waiting", "ok", "err"}
\* Accepted, and not yet at the end of processTask.
Unfinished == {"queued", "taken", "registered"} \cup InExecute

WorkerInit == /\ queue = << >>
              /\ running = [id \in Ids |-> NoRun]
              /\ grabbed = [c \in Calls |-> NoRun]
              /\ pc = [r \in Runs |-> "unused"]
              /\ status = [r \in Runs |-> "pending"]
              /\ cancelled = [r \in Runs |-> FALSE]
              /\ ctxDone = FALSE
              /\ loop = "listening"

Goto(r, label) == pc' = [pc EXCEPT ![r] = label]

-------------------------------------------------------------------------------
(* Submit and Cancel, called by the handlers *)

\* The send blocks while the channel is full.
Submit(r) ==
  /\ pc[r] = "unused"
  /\ Len(queue) < QueueCap
  /\ queue' = Append(queue, r)
  /\ Goto(r, "queued")
  /\ UNCHANGED <<running, grabbed, status, cancelled, ctxDone, loop>>

\* Cancel looks the id up under the lock ...
LookupCancel(c, id) ==
  /\ grabbed[c] = NoRun
  /\ grabbed' = [grabbed EXCEPT ![c] = running[id]]
  /\ UNCHANGED <<queue, running, pc, status, cancelled, ctxDone, loop>>

\* ... and calls what it found after the lock is released.
CallCancel(c) ==
  /\ grabbed[c] # NoRun
  /\ cancelled' = [cancelled EXCEPT ![grabbed[c]] = TRUE]
  /\ grabbed' = [grabbed EXCEPT ![c] = NoRun]
  /\ UNCHANGED <<queue, running, pc, status, ctxDone, loop>>

-------------------------------------------------------------------------------
(* Start *)

\* Mutants of Take: the task stays in the channel; the last one is never taken.
TakePeeks ==
  /\ loop = "listening"
  /\ queue # << >>
  /\ Goto(Head(queue), "taken")
  /\ UNCHANGED <<queue, running, grabbed, status, cancelled, ctxDone, loop>>
TakeLeavesOne ==
  /\ loop = "listening"
  /\ Len(queue) > 1
  /\ queue' = Tail(queue)
  /\ Goto(Head(queue), "taken")
  /\ UNCHANGED <<running, grabbed, status, cancelled, ctxDone, loop>>

\* select: a task is ready.  Go may choose this case when ctx is done as well.
Take ==
  /\ loop = "listening"
  /\ queue # << >>
  /\ queue' = Tail(queue)
  /\ Goto(Head(queue), "taken")
  /\ UNCHANGED <<running, grabbed, status, cancelled, ctxDone, loop>>

\* select: ctx is done.
LoopReturn ==
  /\ loop = "listening"
  /\ ctxDone
  /\ loop' = "returned"
  /\ UNCHANGED <<queue, running, grabbed, pc, status, cancelled, ctxDone>>

-------------------------------------------------------------------------------
(* processTask *)

\* Mutant of Register: no entry in the map.
RegisterNothing(r) ==
  /\ pc[r] = "taken"
  /\ cancelled' = [cancelled EXCEPT ![r] = ctxDone]
  /\ Goto(r, "registered")
  /\ UNCHANGED <<queue, running, grabbed, status, ctxDone, loop>>

\* WithCancel(ctx) and the map entry, which replaces that of an earlier run.
Register(r) ==
  /\ pc[r] = "taken"
  /\ running' = [running EXCEPT ![TaskOf[r]] = r]
  /\ cancelled' = [cancelled EXCEPT ![r] = ctxDone]
  /\ Goto(r, "registered")
  /\ UNCHANGED <<queue, grabbed, status, ctxDone, loop>>

\* Status = Running, saved; Execute is called.
Begin(r) ==
  /\ pc[r] = "registered"
  /\ status' = [status EXCEPT ![r] = "running"]
  /\ Goto(r, "executing")
  /\ UNCHANGED <<queue, running, grabbed, cancelled, ctxDone, loop>>

\* executeRawCommand has started the command, saves its PID and waits for it.
CommandStarted(r) ==
  /\ pc[r] = "executing"
  /\ r \notin LongRuns
  /\ Goto(r, "waiting")
  /\ UNCHANGED <<queue, running, grabbed, status, cancelled, ctxDone, loop>>

\* Execute returns.  A command that was cancelled may still have succeeded, and
\* one that was not may fail: nothing ties the result to the context.
ExecuteReturns(r) ==
  /\ pc[r] \in {"executing", "waiting"}
  /\ \E result \in {"ok", "err"} : Goto(r, result)
  /\ UNCHANGED <<queue, running, grabbed, status, cancelled, ctxDone, loop>>

\* Mutants of Verdict: the error is not compared with that of the context; the
\* result is taken for the status.
VerdictIgnoresContext(r) == IF pc[r] = "err" THEN "failed"
                            ELSE IF r \in LongRuns THEN status[r] ELSE "succeeded"
VerdictIsResult(r) == pc[r]

\* The status that processTask gives the task once Execute has returned.
Verdict(r) == IF pc[r] = "err"
                THEN IF cancelled[r] THEN "cancelled" ELSE "failed"
                ELSE IF r \in LongRuns THEN status[r] ELSE "succeeded"

\* Mutant of Finish: an early return on the error path.
FinishOnlyOk(r) ==
  /\ pc[r] = "ok"
  /\ status' = [status EXCEPT ![r] = Verdict(r)]
  /\ Goto(r, "finished")
  /\ UNCHANGED <<queue, running, grabbed, cancelled, ctxDone, loop>>

Finish(r) ==
  /\ pc[r] \in {"ok", "err"}
  /\ status' = [status EXCEPT ![r] = Verdict(r)]
  /\ Goto(r, "finished")
  /\ UNCHANGED <<queue, running, grabbed, cancelled, ctxDone, loop>>

\* Mutant of Unregister: the entry stays.
UnregisterNothing(r) ==
  /\ pc[r] = "finished"
  /\ cancelled' = [cancelled EXCEPT ![r] = TRUE]
  /\ Goto(r, "done")
  /\ UNCHANGED <<queue, running, grabbed, status, ctxDone, loop>>

\* The deferred function deletes the entry of the id, whichever run it is of,
\* and cancels the run's own context.
Unregister(r) ==
  /\ pc[r] = "finished"
  /\ running' = [running EXCEPT ![TaskOf[r]] = NoRun]
  /\ cancelled' = [cancelled EXCEPT ![r] = TRUE]
  /\ Goto(r, "done")
  /\ UNCHANGED <<queue, grabbed, status, ctxDone, loop>>

-------------------------------------------------------------------------------
(* The process *)

\* SIGTERM ends the context every task context derives from.
Sigterm ==
  /\ Stops
  /\ ~ctxDone
  /\ ctxDone' = TRUE
  /\ cancelled' = [r \in Runs |-> cancelled[r] \/ pc[r] \in Registered]
  /\ UNCHANGED <<queue, running, grabbed, pc, status, loop>>

\* The process ends at any point and is started again: main builds a new worker,
\* and nothing reads back what the old one had in hand.
Reboot ==
  /\ Stops
  /\ queue' = << >>
  /\ running' = [id \in Ids |-> NoRun]
  /\ grabbed' = [c \in Calls |-> NoRun]
  /\ pc' = [r \in Runs |-> IF pc[r] \in Unfinished THEN "lost"
                           ELSE IF pc[r] = "finished" THEN "done" ELSE pc[r]]
  /\ ctxDone' = FALSE
  /\ loop' = "listening"
  /\ UNCHANGED <<status, cancelled>>

\* One step of the goroutine of run r.
RunStep(r) == \/ Register(r) \/ Begin(r) \/ CommandStarted(r)
              \/ ExecuteReturns(r) \/ Finish(r) \/ Unregister(r)

WorkerNext == \/ \E r \in Runs : Submit(r) \/ RunStep(r)
              \/ \E c \in Calls : CallCancel(c) \/ \E id \in Ids : LookupCancel(c, id)
              \/ Take \/ LoopReturn
              \/ Sigterm \/ Reboot

WorkerSpec == WorkerInit /\ [][WorkerNext]_workerVars

\* The Go scheduler runs every goroutine that can run, and every command ends.
WorkerFairness == /\ WF_workerVars(Take)
                  /\ \A r \in Runs : WF_workerVars(RunStep(r))

FairWorkerSpec == WorkerSpec /\ WorkerFairness

-------------------------------------------------------------------------------
(* Properties *)

WorkerTypeOK ==
  /\ queue \in Seq(Runs)
  /\ running \in [Ids -> Runs \cup {NoRun}]
  /\ grabbed \in [Calls -> Runs \cup {NoRun}]
  /\ pc \in [Runs -> {"unused", "taken", "queued", "finished", "done", "lost"} \cup Registered]
  /\ status \in [Runs -> {"pending", "running", "succeeded", "failed", "cancelled"}]
  /\ cancelled \in [Runs -> BOOLEAN]
  /\ ctxDone \in BOOLEAN
  /\ loop \in {"listening", "returned"}

\* The channel holds exactly the runs accepted and not taken, each once: no task
\* object is processed by two goroutines or dropped (worker.go:34-58).
QueueHoldsAccepted ==
  /\ IsInjective(queue)
  /\ Len(queue) <= QueueCap
  /\ ToSet(queue) = {r \in Runs : pc[r] = "queued"}

\* An entry of the map is the cancel function of a run of that very task whose
\* goroutine is still there, though several runs of the task replace and delete
\* each other's entries (worker.go:65-75).
NoStaleCancelFunc ==
  \A id \in Ids : running[id] # NoRun =>
    TaskOf[running[id]] = id /\ pc[running[id]] \in Registered

\* While no other run of its task has come as far as its own map entry, the entry
\* of the task is that of the run that is executing: Cancel reaches it
\* (worker.go:38-48).
AloneInMap(r) == \A s \in Runs : TaskOf[s] = TaskOf[r] /\ s # r =>
                   pc[s] \in {"unused", "queued", "taken", "lost"}
ExecutingIsCancellable ==
  \A r \in Runs : pc[r] \in InExecute /\ AloneInMap(r) => running[TaskOf[r]] = r

\* What a client sees of the worker is RunLifecycle: the phase of an accepted
\* run is the status its task object carries.
Lifecycle == INSTANCE RunLifecycle WITH
  phase <- [r \in Runs |-> CASE pc[r] = "unused" -> "new"
                             [] pc[r] = "lost" -> "lost"
                             [] OTHER -> status[r]],
  asked <- {r \in Runs : cancelled[r]}
ImplementsLifecycle == Lifecycle!Spec

\* A run the loop has taken ends or is lost with the process, also when the
\* process is shutting down; one still in the channel does too unless the loop
\* has returned (worker.go:50-107).
TakenRunsEnd == \A r \in Runs : pc[r] = "taken" ~> pc[r] \in {"done", "lost"}
QueuedRunsEnd ==
  \A r \in Runs : pc[r] = "queued" ~> pc[r] \in {"done", "lost"} \/ loop = "returned"
===============================================================================
