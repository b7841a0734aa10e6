----------------------------- MODULE TaskService ------------------------------
(***************************************************************************)
(* The task service: the RPC handlers of pkg/api/grpc_handler.go that      *)
(* change tasks, the background worker of module Worker and the records of *)
(* the store, composed.  Each RPC runs in a goroutine of its own and none  *)
(* of them holds a lock, so their steps interleave with each other's and   *)
(* with the worker's.                                                      *)
(*                                                                         *)
(* A record is abstracted to its Status: the other fields are copied and   *)
(* never compared.  The task index is the subject of module StateStore;    *)
(* here a list may leave any task out.  Force (killing the process of the  *)
(* recorded PID) makes Execute return, which Execute may do anyway.        *)
(*                                                                         *)
(* SubmitTask never copies is_long_running from the request, so no task    *)
(* object has IsLongRunning set and the branches of CancelTask that        *)
(* destroy a Pulumi stack are not reached.                                 *)
(***************************************************************************)
EXTENDS Worker, FiniteSets

CONSTANTS NoId,      \* no task id
          StoreFails \* whether a request to the store may fail

ASSUME ServiceAssumption == /\ NoId \notin Ids
                            /\ StoreFails \in BOOLEAN
                            /\ LongRuns = {}

VARIABLES store,   \* id -> the Status in its record, or "absent"
          at,      \* where each RPC is
          cur,     \* the task an RPC is at
          todo,    \* the tasks it has still to go through
          live,    \* the tasks it has read as pending or running: its snapshot
          stranded \* history: the ids whose record a failure has left behind

callVars == <<at, cur, todo, live>>
serviceVars == <<store, stranded, callVars>>
vars == <<workerVars, serviceVars>>

Live == {"pending", "running"}
Final == {"succeeded", "failed", "cancelled"}
\* The RPC will hand a task object to the worker.
Submitting == {"cancelPrevious", "savePending", "submit"}

Init == /\ WorkerInit
        /\ store = [id \in Ids |-> "absent"]
        /\ at = [c \in Calls |-> "idle"]
        /\ cur = [c \in Calls |-> NoId]
        /\ todo = [c \in Calls |-> {}]
        /\ live = [c \in Calls |-> {}]
        /\ stranded = {}

Stored == {id \in Ids : store[id] # "absent"}
LiveIds == {id \in Ids : store[id] \in Live}

\* A request of a handler fails for a fault of the store, or because the
\* process is going down with it.
MayFail == StoreFails \/ ctxDone

\* SaveTask writes the record.
Save(id, s) == /\ store' = [store EXCEPT ![id] = s]
               /\ stranded' = stranded \ {id}

\* A failure leaves the record of id with a status of the past.
Strand(id) == stranded' = stranded \cup {id}

CallGoto(c, label) == at' = [at EXCEPT ![c] = label]

-------------------------------------------------------------------------------
(* SubmitTask and RestartTask *)

\* Bound: an RPC that submits is accepted while a task object is left for it.
ObjectLeft(id) ==
  Cardinality({c \in Calls : at[c] \in Submitting /\ cur[c] = id})
    < Cardinality({r \in Runs : TaskOf[r] = id /\ pc[r] = "unused"})

StartSubmitting(c, id, label) ==
  /\ at[c] = "idle"
  /\ ObjectLeft(id)
  /\ cur' = [cur EXCEPT ![c] = id]
  /\ CallGoto(c, label)
  /\ UNCHANGED <<workerVars, store, stranded, todo, live>>

\* SubmitTask of a name that has no record.  The error of GetTask is dropped, so
\* a failed read counts as no record.
SubmitNew(c, id) ==
  /\ id \notin Stored \/ MayFail
  /\ StartSubmitting(c, id, "savePending")

\* SubmitTask of a name that has a record, or RestartTask.
SubmitAgain(c, id) ==
  /\ id \in Stored
  /\ StartSubmitting(c, id, "cancelPrevious")

\* Mutant of CancelPrevious: the id is lost on the way.
CancelPreviousLosesId(c) ==
  /\ at[c] = "cancelPrevious"
  /\ LookupCancel(c, cur[c])
  /\ CallGoto(c, "savePending")
  /\ cur' = [cur EXCEPT ![c] = NoId]
  /\ UNCHANGED <<store, stranded, todo, live>>

CancelPrevious(c) ==
  /\ at[c] = "cancelPrevious"
  /\ LookupCancel(c, cur[c])
  /\ CallGoto(c, "savePending")
  /\ UNCHANGED <<store, stranded, cur, todo, live>>

\* Mutant of SavePending: the RPC returns without submitting.
SavePendingOnly(c) ==
  /\ at[c] = "savePending"
  /\ grabbed[c] = NoRun
  /\ Save(cur[c], "pending")
  /\ CallGoto(c, "idle")
  /\ cur' = [cur EXCEPT ![c] = NoId]
  /\ UNCHANGED <<workerVars, todo, live>>

SavePending(c) ==
  /\ at[c] = "savePending"
  /\ grabbed[c] = NoRun
  /\ Save(cur[c], "pending")
  /\ CallGoto(c, "submit")
  /\ UNCHANGED <<workerVars, cur, todo, live>>

\* The RPC returns the error and submits nothing, although the record may have
\* been written before the request failed.
SavePendingFails(c) ==
  /\ at[c] = "savePending"
  /\ grabbed[c] = NoRun
  /\ MayFail
  /\ \/ UNCHANGED <<store, stranded>>
     \/ store' = [store EXCEPT ![cur[c]] = "pending"] /\ Strand(cur[c])
  /\ CallGoto(c, "idle")
  /\ cur' = [cur EXCEPT ![c] = NoId]
  /\ UNCHANGED <<workerVars, todo, live>>

\* Mutant of SendToQueue: a full channel drops the task.
SendOrDrop(c) ==
  /\ at[c] = "submit"
  /\ \/ \E r \in Runs : TaskOf[r] = cur[c] /\ Submit(r)
     \/ Len(queue) = QueueCap /\ UNCHANGED workerVars
  /\ CallGoto(c, "idle")
  /\ cur' = [cur EXCEPT ![c] = NoId]
  /\ UNCHANGED <<store, stranded, todo, live>>

\* worker.Submit, which blocks while the channel is full; then the RPC returns.
SendToQueue(c) ==
  /\ at[c] = "submit"
  /\ \E r \in Runs : TaskOf[r] = cur[c] /\ Submit(r)
  /\ CallGoto(c, "idle")
  /\ cur' = [cur EXCEPT ![c] = NoId]
  /\ UNCHANGED <<store, stranded, todo, live>>

-------------------------------------------------------------------------------
(* CancelTask *)

\* By id: GetTask.
CancelTask(c, id) ==
  /\ at[c] = "idle"
  /\ id \in Stored
  /\ todo' = [todo EXCEPT ![c] = {id}]
  /\ live' = [live EXCEPT ![c] = {id} \cap LiveIds]
  /\ CallGoto(c, "signal")
  /\ UNCHANGED <<workerVars, store, stranded, cur>>

\* By group: ListTasks reads the records of the group one by one.
CancelGroup(c, group) ==
  /\ at[c] = "idle"
  /\ group # {}
  /\ todo' = [todo EXCEPT ![c] = group]
  /\ CallGoto(c, "list")
  /\ UNCHANGED <<workerVars, store, stranded, cur, live>>

ReadListed(c, id) ==
  /\ at[c] = "list"
  /\ id \in todo[c]
  /\ todo' = [todo EXCEPT ![c] = @ \ {id}]
  /\ live' = [live EXCEPT ![c] = @ \cup ({id} \cap LiveIds)]
  /\ UNCHANGED <<workerVars, store, stranded, at, cur>>

\* The loop goes through those the list shows as pending or running.
EndListing(c) ==
  /\ at[c] = "list"
  /\ todo[c] = {}
  /\ todo' = [todo EXCEPT ![c] = live[c]]
  /\ CallGoto(c, "signal")
  /\ UNCHANGED <<workerVars, store, stranded, cur, live>>

\* worker.Cancel found a cancel function, or the snapshot says the task is live:
\* its record will be marked cancelled.  Otherwise the RPC is an error.
Signal(c, id) ==
  /\ at[c] = "signal"
  /\ id \in todo[c]
  /\ LookupCancel(c, id)
  /\ todo' = [todo EXCEPT ![c] = @ \ {id}]
  /\ IF running[id] # NoRun \/ id \in live[c]
       THEN CallGoto(c, "saveCancelled") /\ cur' = [cur EXCEPT ![c] = id]
       ELSE UNCHANGED <<at, cur>>
  /\ UNCHANGED <<store, stranded, live>>

\* Mutant of SaveCancelled: the status of the snapshot is saved back.
SaveSnapshot(c) ==
  /\ at[c] = "saveCancelled"
  /\ grabbed[c] = NoRun
  /\ Save(cur[c], "running")
  /\ CallGoto(c, "signal")
  /\ cur' = [cur EXCEPT ![c] = NoId]
  /\ UNCHANGED <<workerVars, todo, live>>

\* The error of this SaveTask is dropped.
SaveCancelled(c) ==
  /\ at[c] = "saveCancelled"
  /\ grabbed[c] = NoRun
  /\ \/ Save(cur[c], "cancelled")
     \/ MayFail /\ UNCHANGED <<store, stranded>>
  /\ CallGoto(c, "signal")
  /\ cur' = [cur EXCEPT ![c] = NoId]
  /\ UNCHANGED <<workerVars, todo, live>>

EndCancel(c) ==
  /\ at[c] = "signal"
  /\ todo[c] = {}
  /\ CallGoto(c, "idle")
  /\ live' = [live EXCEPT ![c] = {}]
  /\ UNCHANGED <<workerVars, store, stranded, cur, todo>>

-------------------------------------------------------------------------------
(* The worker, with what it saves *)

\* processTask saves with the context of the process and drops the error.
WorkerSaves(id, s) == \/ ~ctxDone /\ Save(id, s)
                      \/ (ctxDone \/ StoreFails) /\ UNCHANGED store /\ Strand(id)

BeginTask(r) == /\ Begin(r)
                /\ WorkerSaves(TaskOf[r], "running")
                /\ UNCHANGED callVars

\* The PID is saved with the context of the task, by now perhaps cancelled.
SavePid(r) ==
  /\ CommandStarted(r)
  /\ \/ ~cancelled[r] /\ Save(TaskOf[r], status[r])
     \/ (cancelled[r] \/ StoreFails) /\ UNCHANGED <<store, stranded>>
  /\ UNCHANGED callVars

\* Mutants of FinishTask: the final status is not saved; the old one is.
FinishTaskUnsaved(r) == /\ Finish(r)
                        /\ UNCHANGED serviceVars
FinishTaskStale(r) == /\ Finish(r)
                      /\ WorkerSaves(TaskOf[r], status[r])
                      /\ UNCHANGED callVars

FinishTask(r) == /\ Finish(r)
                 /\ WorkerSaves(TaskOf[r], Verdict(r))
                 /\ UNCHANGED callVars

\* The steps of the worker that touch no record.
WorkerOnly == /\ \/ Take
                 \/ LoopReturn
                 \/ \E c \in Calls : CallCancel(c)
                 \/ \E r \in Runs : Register(r) \/ ExecuteReturns(r) \/ Unregister(r)
                 \/ Sigterm
              /\ UNCHANGED serviceVars

\* The RPCs in progress are gone; the records stay as they are.
RebootService ==
  /\ Reboot
  /\ at' = [c \in Calls |-> "idle"]
  /\ cur' = [c \in Calls |-> NoId]
  /\ todo' = [c \in Calls |-> {}]
  /\ live' = [c \in Calls |-> {}]
  /\ stranded' = stranded \cup LiveIds
  /\ UNCHANGED store

-------------------------------------------------------------------------------
CallStep(c) == \/ CancelPrevious(c) \/ SavePending(c) \/ SavePendingFails(c)
               \/ SendToQueue(c)
               \/ EndListing(c) \/ SaveCancelled(c) \/ EndCancel(c)
               \/ \E id \in Ids : ReadListed(c, id) \/ Signal(c, id)

Request(c) == \/ \E id \in Ids : SubmitNew(c, id) \/ SubmitAgain(c, id) \/ CancelTask(c, id)
              \/ \E group \in SUBSET Stored : CancelGroup(c, group)

Next == \/ \E c \in Calls : Request(c) \/ CallStep(c)
        \/ \E r \in Runs : BeginTask(r) \/ SavePid(r) \/ FinishTask(r)
        \/ WorkerOnly
        \/ RebootService

Spec == Init /\ [][Next]_vars

\* Every goroutine that can run does, and every command ends.  No client is
\* obliged to make a request.
Fairness ==
  /\ WF_vars(Take /\ UNCHANGED serviceVars)
  /\ \A c \in Calls : WF_vars(CallStep(c) \/ (CallCancel(c) /\ UNCHANGED serviceVars))
  /\ \A r \in Runs :
       /\ WF_vars((Register(r) \/ ExecuteReturns(r) \/ Unregister(r)) /\ UNCHANGED serviceVars)
       /\ WF_vars(BeginTask(r) \/ SavePid(r) \/ FinishTask(r))

FairSpec == Spec /\ Fairness

-------------------------------------------------------------------------------
(* Properties *)

\* Every variable has its type: a call about to save or submit has a task.
CallsOK ==
  /\ at \in [Calls -> {"idle", "list", "signal", "saveCancelled"} \cup Submitting]
  /\ cur \in [Calls -> Ids \cup {NoId}]
  /\ todo \in [Calls -> SUBSET Ids]
  /\ live \in [Calls -> SUBSET Ids]
  /\ \A c \in Calls : at[c] \in Submitting \cup {"saveCancelled"} => cur[c] \in Ids
RecordsOK ==
  /\ store \in [Ids -> {"absent"} \cup Live \cup Final]
  /\ stranded \subseteq Ids
TypeOK == WorkerTypeOK /\ CallsOK /\ RecordsOK

\* A task that the store shows as pending is about to be queued, queued or about
\* to run, and one shown as running is being run, unless a failed request or the
\* death of the process has left its record behind: no interleaving of RPCs,
\* runs and their saves loses a task (grpc_handler.go:39-117, worker.go:62-107).
RecordTruthful ==
  \A id \in Ids \ stranded :
    /\ store[id] = "pending" =>
         \/ \E c \in Calls : at[c] = "submit" /\ cur[c] = id
         \/ \E r \in Runs : TaskOf[r] = id /\ pc[r] \in {"queued", "taken", "registered"}
    /\ store[id] = "running" => \E r \in Runs : TaskOf[r] = id /\ pc[r] \in InExecute

\* A task that has been submitted once and run to the end shows the verdict of
\* that run, or cancelled; no save that was under way, the one of the PID, of an
\* RPC or of the worker, puts an older status over it.
OnceSubmitted(r) ==
  /\ \A s \in Runs : TaskOf[s] = TaskOf[r] => s = r \/ pc[s] = "unused"
  /\ ~\E c \in Calls : at[c] = "submit" /\ cur[c] = TaskOf[r]
OnceSubmittedReported ==
  \A r \in Runs :
    pc[r] \in {"finished", "done"} /\ OnceSubmitted(r) /\ TaskOf[r] \notin stranded
      => store[TaskOf[r]] \in {status[r], "cancelled"}

\* A pending or running task ends, unless a failure has left its record behind or
\* the loop of the worker has returned (worker.go:50-107, grpc_handler.go:39-290).
SettlesOrStranded ==
  \A id \in Ids : store[id] \in Live
    ~> store[id] \in Final \/ id \in stranded \/ loop = "returned"

\* What the documentation lets a client expect and the code does not do:
\* CancelTask has a way to stop a task that is executing: the worker knows its
\* cancel function, or the record says it is live.
ExecutingCanBeCancelled ==
  \A r \in Runs : pc[r] \in InExecute /\ ~cancelled[r]
    => running[TaskOf[r]] # NoRun \/ store[TaskOf[r]] \in Live
===============================================================================
