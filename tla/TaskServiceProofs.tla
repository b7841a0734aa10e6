-------------------------- MODULE TaskServiceProofs ---------------------------
(***************************************************************************)
(* Proofs about Worker, for any number of tasks, runs and callers, any     *)
(* capacity of the channel, and with the process stopping or not; and      *)
(* about TaskService, which runs it, whatever fails or stops.              *)
(***************************************************************************)
EXTENDS TaskService, SeqLemmas

-------------------------------------------------------------------------------
(* The worker *)

\* The status of a run follows its progress, and only a run that has had a
\* context is cancelled or has its cancel function in somebody's hands.
ProgressInv ==
  /\ \A r \in Runs :
       /\ pc[r] \in {"unused", "queued", "taken", "registered"} => status[r] = "pending"
       /\ pc[r] \in InExecute => status[r] = "running"
       /\ cancelled[r] => pc[r] \notin {"unused", "queued", "taken"}
  /\ \A c \in Calls : grabbed[c] # NoRun => pc[grabbed[c]] \notin {"unused", "queued", "taken"}

\* A run that is alone with its map entry has it.
MapInv == \A r \in Runs : pc[r] \in Registered /\ AloneInMap(r) => running[TaskOf[r]] = r

\* The inductive invariant.
WInv == /\ WorkerTypeOK /\ QueueHoldsAccepted /\ NoStaleCancelFunc
        /\ ProgressInv /\ MapInv

LEMMA InitWInv == WorkerInit => WInv
<1> SUFFICES ASSUME WorkerInit PROVE WInv
  OBVIOUS
<1> USE WorkerAssumption DEF WorkerInit
<1>1. WorkerTypeOK
  <2>1. queue \in Seq(Runs)
    OBVIOUS
  <2>2. QED BY <2>1 DEF WorkerTypeOK
<1>2. QueueHoldsAccepted
  <2>1. Len(queue) <= QueueCap
    OBVIOUS
  <2>2. QED BY <2>1, ShortLists DEF QueueHoldsAccepted
<1>3. NoStaleCancelFunc
  BY DEF NoStaleCancelFunc
<1>4. ProgressInv
  BY DEF ProgressInv, InExecute
<1>5. MapInv
  BY DEF MapInv, Registered
<1>6. QED BY <1>1, <1>2, <1>3, <1>4, <1>5 DEF WInv

LEMMA SubmitWInv == ASSUME WInv, NEW r \in Runs, Submit(r) PROVE WInv'
<1> USE WorkerAssumption DEF Goto
<1>1. /\ Append(queue, r) \in Seq(Runs)
      /\ ToSet(Append(queue, r)) = ToSet(queue) \cup {r}
      /\ r \notin ToSet(queue)
  BY AppendToSet DEF WInv, WorkerTypeOK, QueueHoldsAccepted, Submit
<1>2. IsInjective(Append(queue, r))
  BY <1>1, AppendKeepsInjective DEF WInv, WorkerTypeOK, QueueHoldsAccepted
<1>3. WorkerTypeOK'
  BY <1>1 DEF WInv, WorkerTypeOK, Submit
<1>4. QueueHoldsAccepted'
  <2>1. Len(queue') <= QueueCap
    BY DEF WInv, WorkerTypeOK, Submit
  <2>2. {s \in Runs : pc'[s] = "queued"} = {s \in Runs : pc[s] = "queued"} \cup {r}
    BY DEF WInv, WorkerTypeOK, Submit
  <2>3. queue' = Append(queue, r)
    BY DEF Submit
  <2>4. QED BY <1>1, <1>2, <2>1, <2>2, <2>3 DEF WInv, QueueHoldsAccepted
<1>5. NoStaleCancelFunc'
  BY DEF WInv, WorkerTypeOK, NoStaleCancelFunc, Registered, Submit
<1>6. ProgressInv'
  BY DEF WInv, WorkerTypeOK, ProgressInv, InExecute, Submit
<1>7. MapInv'
  BY DEF WInv, WorkerTypeOK, MapInv, AloneInMap, Registered, Submit
<1>8. QED BY <1>3, <1>4, <1>5, <1>6, <1>7 DEF WInv

LEMMA LookupCancelWInv ==
  ASSUME WInv, NEW c \in Calls, NEW id \in Ids, LookupCancel(c, id)
  PROVE  WInv'
<1> USE WorkerAssumption DEF LookupCancel
<1>1. WorkerTypeOK' /\ QueueHoldsAccepted' /\ NoStaleCancelFunc' /\ MapInv'
  BY DEF WInv, WorkerTypeOK, QueueHoldsAccepted, NoStaleCancelFunc, MapInv, AloneInMap
<1>2. ProgressInv'
  BY DEF WInv, WorkerTypeOK, ProgressInv, NoStaleCancelFunc, Registered
<1>3. QED BY <1>1, <1>2 DEF WInv

LEMMA CallCancelWInv == ASSUME WInv, NEW c \in Calls, CallCancel(c) PROVE WInv'
<1> USE WorkerAssumption DEF CallCancel
<1>1. WorkerTypeOK' /\ QueueHoldsAccepted' /\ NoStaleCancelFunc' /\ MapInv'
  BY DEF WInv, WorkerTypeOK, QueueHoldsAccepted, NoStaleCancelFunc, MapInv, AloneInMap
<1>2. ProgressInv'
  BY DEF WInv, WorkerTypeOK, ProgressInv
<1>3. QED BY <1>1, <1>2 DEF WInv

LEMMA TakeWInv == ASSUME WInv, Take PROVE WInv'
<1> USE WorkerAssumption DEF Goto
<1> DEFINE h == Head(queue)
<1>1. /\ h \in Runs /\ Tail(queue) \in Seq(Runs)
      /\ ToSet(queue) = ToSet(Tail(queue)) \cup {h} /\ h \notin ToSet(Tail(queue))
      /\ IsInjective(Tail(queue))
  BY TailToSet, TailKeepsInjective DEF WInv, WorkerTypeOK, QueueHoldsAccepted, Take
<1>2. pc[h] = "queued" /\ pc' = [pc EXCEPT ![h] = "taken"] /\ queue' = Tail(queue)
  BY <1>1 DEF WInv, QueueHoldsAccepted, Take
<1>3. Len(queue') <= QueueCap
  BY DEF WInv, WorkerTypeOK, QueueHoldsAccepted, Take
<1> HIDE DEF h
<1>4. WorkerTypeOK'
  BY <1>1, <1>2 DEF WInv, WorkerTypeOK, Take
<1>5. QueueHoldsAccepted'
  <2>1. {s \in Runs : pc'[s] = "queued"} = {s \in Runs : pc[s] = "queued"} \ {h}
    BY <1>1, <1>2 DEF WInv, WorkerTypeOK
  <2>2. QED BY <1>1, <1>2, <1>3, <2>1 DEF WInv, QueueHoldsAccepted
<1>6. NoStaleCancelFunc'
  BY <1>1, <1>2 DEF WInv, WorkerTypeOK, NoStaleCancelFunc, Registered, Take
<1>7. ProgressInv'
  BY <1>1, <1>2 DEF WInv, WorkerTypeOK, ProgressInv, InExecute, Take
<1>8. MapInv'
  BY <1>1, <1>2 DEF WInv, WorkerTypeOK, MapInv, AloneInMap, Registered, Take
<1>9. QED BY <1>4, <1>5, <1>6, <1>7, <1>8 DEF WInv

LEMMA RegisterWInv == ASSUME WInv, NEW r \in Runs, Register(r) PROVE WInv'
<1> USE WorkerAssumption DEF Register, Goto
<1>1. WorkerTypeOK'
  BY DEF WInv, WorkerTypeOK, Registered
<1>2. QueueHoldsAccepted'
  BY DEF WInv, WorkerTypeOK, QueueHoldsAccepted
<1>3. NoStaleCancelFunc'
  BY DEF WInv, WorkerTypeOK, NoStaleCancelFunc, Registered
<1>4. ProgressInv'
  BY DEF WInv, WorkerTypeOK, ProgressInv, InExecute
<1>5. MapInv'
  BY DEF WInv, WorkerTypeOK, MapInv, AloneInMap, Registered
<1>6. QED BY <1>1, <1>2, <1>3, <1>4, <1>5 DEF WInv

\* The steps of a goroutine between its two critical sections.
LEMMA ProcessWInv ==
  ASSUME WInv, NEW r \in Runs,
         Begin(r) \/ CommandStarted(r) \/ ExecuteReturns(r) \/ Finish(r)
  PROVE  WInv'
<1> USE WorkerAssumption DEF Begin, CommandStarted, ExecuteReturns, Finish, Goto
<1>1. WorkerTypeOK'
  BY DEF WInv, WorkerTypeOK, Registered, Verdict
<1>2. QueueHoldsAccepted'
  BY DEF WInv, WorkerTypeOK, QueueHoldsAccepted
<1>3. NoStaleCancelFunc'
  BY DEF WInv, WorkerTypeOK, NoStaleCancelFunc, Registered
<1>4. ProgressInv'
  BY DEF WInv, WorkerTypeOK, ProgressInv, InExecute
<1>5. MapInv'
  BY DEF WInv, WorkerTypeOK, MapInv, AloneInMap, Registered
<1>6. QED BY <1>1, <1>2, <1>3, <1>4, <1>5 DEF WInv

LEMMA UnregisterWInv == ASSUME WInv, NEW r \in Runs, Unregister(r) PROVE WInv'
<1> USE WorkerAssumption DEF Unregister, Goto
<1>1. WorkerTypeOK'
  BY DEF WInv, WorkerTypeOK
<1>2. QueueHoldsAccepted'
  BY DEF WInv, WorkerTypeOK, QueueHoldsAccepted
<1>3. NoStaleCancelFunc'
  BY DEF WInv, WorkerTypeOK, NoStaleCancelFunc, Registered
<1>4. ProgressInv'
  BY DEF WInv, WorkerTypeOK, ProgressInv, InExecute
<1>5. MapInv'
  BY DEF WInv, WorkerTypeOK, MapInv, AloneInMap, Registered
<1>6. QED BY <1>1, <1>2, <1>3, <1>4, <1>5 DEF WInv

LEMMA LoopReturnWInv == ASSUME WInv, LoopReturn PROVE WInv'
BY DEF WInv, WorkerTypeOK, QueueHoldsAccepted, NoStaleCancelFunc, ProgressInv, MapInv,
       AloneInMap, LoopReturn

LEMMA SigtermWInv == ASSUME WInv, Sigterm PROVE WInv'
<1> USE DEF Sigterm
<1>1. WorkerTypeOK' /\ QueueHoldsAccepted' /\ NoStaleCancelFunc' /\ MapInv'
  BY DEF WInv, WorkerTypeOK, QueueHoldsAccepted, NoStaleCancelFunc, MapInv, AloneInMap
<1>2. ProgressInv'
  BY DEF WInv, WorkerTypeOK, ProgressInv, Registered
<1>3. QED BY <1>1, <1>2 DEF WInv

LEMMA RebootWInv == ASSUME WInv, Reboot PROVE WInv'
<1> USE WorkerAssumption DEF Reboot
<1>1. \A r \in Runs : \/ pc'[r] = pc[r] /\ pc[r] \in {"unused", "done", "lost"}
                      \/ pc'[r] \in {"done", "lost"}
  BY DEF WInv, WorkerTypeOK, Registered, Unfinished, InExecute
<1>2. WorkerTypeOK'
  <2>1. queue' \in Seq(Runs)
    OBVIOUS
  <2>2. pc' \in [Runs -> {"unused", "done", "lost"}]
    BY <1>1
  <2>3. QED BY <2>1, <2>2 DEF WInv, WorkerTypeOK
<1>3. QueueHoldsAccepted'
  <2>1. Len(queue') <= QueueCap
    OBVIOUS
  <2>2. QED BY <1>1, <2>1, ShortLists DEF QueueHoldsAccepted
<1>4. NoStaleCancelFunc'
  BY DEF NoStaleCancelFunc
<1>5. ProgressInv'
  BY <1>1 DEF WInv, ProgressInv, InExecute
<1>6. MapInv'
  BY <1>1 DEF MapInv, Registered
<1>7. QED BY <1>2, <1>3, <1>4, <1>5, <1>6 DEF WInv

LEMMA NextWInv == WInv /\ [WorkerNext]_workerVars => WInv'
<1> SUFFICES ASSUME WInv, [WorkerNext]_workerVars PROVE WInv'
  OBVIOUS
<1>1. ASSUME NEW r \in Runs, Submit(r) \/ RunStep(r) PROVE WInv'
  BY <1>1, SubmitWInv, RegisterWInv, ProcessWInv, UnregisterWInv DEF RunStep
<1>2. ASSUME NEW c \in Calls, CallCancel(c) \/ \E id \in Ids : LookupCancel(c, id)
      PROVE  WInv'
  BY <1>2, CallCancelWInv, LookupCancelWInv
<1>3. CASE Take \/ LoopReturn \/ Sigterm \/ Reboot
  BY <1>3, TakeWInv, LoopReturnWInv, SigtermWInv, RebootWInv
<1>4. CASE UNCHANGED workerVars
  BY <1>4 DEF workerVars, WInv, WorkerTypeOK, QueueHoldsAccepted, NoStaleCancelFunc,
              ProgressInv, MapInv, AloneInMap
<1>5. QED BY <1>1, <1>2, <1>3, <1>4 DEF WorkerNext

\* The parts of WInv hold together at every step of the worker.
THEOREM WorkerInvariance == WorkerSpec => []WInv
BY InitWInv, NextWInv, PTL DEF WorkerSpec

\* Every variable of the worker keeps its type.
THEOREM WorkerTypeCorrect == WorkerSpec => []WorkerTypeOK
<1>1. WInv => WorkerTypeOK
  BY DEF WInv
<1>2. QED BY <1>1, WorkerInvariance, PTL

\* The channel neither loses nor duplicates a task object.
THEOREM QueueCorrect == WorkerSpec => []QueueHoldsAccepted
<1>1. WInv => QueueHoldsAccepted
  BY DEF WInv
<1>2. QED BY <1>1, WorkerInvariance, PTL

\* The map has no entry of a goroutine that has gone.
THEOREM MapCorrect == WorkerSpec => []NoStaleCancelFunc
<1>1. WInv => NoStaleCancelFunc
  BY DEF WInv
<1>2. QED BY <1>1, WorkerInvariance, PTL

\* Cancel reaches the run of a task that has no other.
THEOREM CancelReaches == WorkerSpec => []ExecutingIsCancellable
<1>1. WInv => ExecutingIsCancellable
  BY DEF WInv, MapInv, ExecutingIsCancellable, Registered, InExecute
<1>2. QED BY <1>1, WorkerInvariance, PTL

-------------------------------------------------------------------------------
(* The worker implements RunLifecycle *)

phaseOf == [r \in Runs |-> CASE pc[r] = "unused" -> "new"
                             [] pc[r] = "lost" -> "lost"
                             [] OTHER -> status[r]]
askedOf == {r \in Runs : cancelled[r]}

LEMMA InitLifecycle == WorkerInit => Lifecycle!Init
BY DEF WorkerInit, Lifecycle!Init

\* Steps that show in no phase; some of them ask runs to stop.
LEMMA HiddenStep ==
  ASSUME WInv, phaseOf' = phaseOf, askedOf \subseteq askedOf'
  PROVE  [Lifecycle!Next]_Lifecycle!vars
<1>1. askedOf' \subseteq Runs
  BY DEF askedOf
<1>2. Lifecycle!Ask
  BY <1>1 DEF Lifecycle!Ask, phaseOf, askedOf
<1>3. QED BY <1>2 DEF Lifecycle!Next

LEMMA LifecycleStep == WInv /\ [WorkerNext]_workerVars => [Lifecycle!Next]_Lifecycle!vars
<1> SUFFICES ASSUME WInv, [WorkerNext]_workerVars PROVE [Lifecycle!Next]_Lifecycle!vars
  OBVIOUS
<1> USE WorkerAssumption
<1>1. ASSUME NEW r \in Runs, Submit(r) PROVE Lifecycle!Next
  <2>1. /\ phaseOf[r] = "new" /\ askedOf' = askedOf
        /\ phaseOf' = [phaseOf EXCEPT ![r] = "pending"]
    BY <1>1 DEF WInv, WorkerTypeOK, ProgressInv, Submit, Goto, phaseOf, askedOf
  <2>2. Lifecycle!Accept(r)
    BY <2>1 DEF Lifecycle!Accept, Lifecycle!Move, phaseOf, askedOf
  <2>3. QED BY <2>2 DEF Lifecycle!Next
<1>2. ASSUME NEW r \in Runs, Begin(r) PROVE Lifecycle!Next
  <2>1. /\ phaseOf[r] = "pending" /\ askedOf' = askedOf
        /\ phaseOf' = [phaseOf EXCEPT ![r] = "running"]
    BY <1>2 DEF WInv, WorkerTypeOK, ProgressInv, Begin, Goto, phaseOf, askedOf
  <2>2. Lifecycle!Start(r)
    BY <2>1 DEF Lifecycle!Start, Lifecycle!Move, phaseOf, askedOf
  <2>3. QED BY <2>2 DEF Lifecycle!Next
<1>3. ASSUME NEW r \in Runs, Finish(r) PROVE [Lifecycle!Next]_Lifecycle!vars
  <2>1. /\ phaseOf[r] = "running" /\ askedOf' = askedOf
        /\ phaseOf' = [phaseOf EXCEPT ![r] = Verdict(r)]
    BY <1>3 DEF WInv, WorkerTypeOK, ProgressInv, Finish, Goto, phaseOf, askedOf, InExecute
  <2>2. CASE Verdict(r) = "succeeded"
    <3>1. Lifecycle!Succeed(r)
      BY <2>1, <2>2 DEF Lifecycle!Succeed, Lifecycle!Move, phaseOf, askedOf
    <3>2. QED BY <3>1 DEF Lifecycle!Next
  <2>3. CASE Verdict(r) = "failed" /\ ~cancelled[r]
    <3>1. Lifecycle!Fail(r)
      BY <2>1, <2>3 DEF Lifecycle!Fail, Lifecycle!Move, phaseOf, askedOf
    <3>2. QED BY <3>1 DEF Lifecycle!Next
  <2>4. CASE Verdict(r) = "cancelled" /\ cancelled[r]
    <3>1. Lifecycle!Stop(r)
      BY <2>1, <2>4 DEF Lifecycle!Stop, Lifecycle!Move, phaseOf, askedOf
    <3>2. QED BY <3>1 DEF Lifecycle!Next
  <2>5. CASE Verdict(r) = "running"
    <3>1. phaseOf' = phaseOf
      BY <2>1, <2>5 DEF phaseOf
    <3>2. QED BY <2>1, <3>1, HiddenStep
  <2>6. QED BY <1>3, <2>2, <2>3, <2>4, <2>5
            DEF WInv, ProgressInv, InExecute, Verdict, Finish
<1>4. ASSUME NEW r \in Runs,
             Register(r) \/ CommandStarted(r) \/ ExecuteReturns(r) \/ Unregister(r)
      PROVE  [Lifecycle!Next]_Lifecycle!vars
  <2>1. phaseOf' = phaseOf
    BY <1>4 DEF WInv, WorkerTypeOK, Register, CommandStarted, ExecuteReturns, Unregister,
                Goto, phaseOf
  <2>2. askedOf \subseteq askedOf'
    BY <1>4 DEF WInv, WorkerTypeOK, ProgressInv, Register, CommandStarted, ExecuteReturns,
                Unregister, askedOf
  <2>3. QED BY <2>1, <2>2, HiddenStep
<1>5. ASSUME NEW c \in Calls, CallCancel(c) \/ \E id \in Ids : LookupCancel(c, id)
      PROVE  [Lifecycle!Next]_Lifecycle!vars
  <2>1. phaseOf' = phaseOf /\ askedOf \subseteq askedOf'
    BY <1>5 DEF WInv, WorkerTypeOK, CallCancel, LookupCancel, phaseOf, askedOf
  <2>2. QED BY <2>1, HiddenStep
<1>6. CASE Take
  <2>1. Head(queue) \in Runs /\ pc[Head(queue)] = "queued"
    BY <1>6, TailToSet DEF WInv, WorkerTypeOK, QueueHoldsAccepted, Take
  <2>2. phaseOf' = phaseOf /\ askedOf' = askedOf
    BY <1>6, <2>1 DEF WInv, WorkerTypeOK, Take, Goto, phaseOf, askedOf
  <2>3. QED BY <2>2, HiddenStep
<1>7. CASE LoopReturn \/ Sigterm
  <2>1. phaseOf' = phaseOf /\ askedOf \subseteq askedOf'
    BY <1>7 DEF WInv, WorkerTypeOK, LoopReturn, Sigterm, phaseOf, askedOf
  <2>2. QED BY <2>1, HiddenStep
<1>8. CASE Reboot
  <2> DEFINE dropped == {r \in Runs : pc[r] \in Unfinished}
  <2>1. \A r \in dropped : phaseOf[r] \in {"pending", "running"}
    BY DEF WInv, ProgressInv, phaseOf, Unfinished, InExecute
  <2>2. phaseOf' = [r \in Runs |-> IF r \in dropped THEN "lost" ELSE phaseOf[r]]
    BY <1>8 DEF WInv, WorkerTypeOK, Reboot, phaseOf, Unfinished, InExecute
  <2>3. askedOf' = askedOf
    BY <1>8 DEF Reboot, askedOf
  <2>4. Lifecycle!Crash
    BY <2>1, <2>2, <2>3 DEF Lifecycle!Crash, phaseOf, askedOf
  <2>5. QED BY <2>4 DEF Lifecycle!Next
<1>9. CASE UNCHANGED workerVars
  BY <1>9 DEF workerVars, Lifecycle!vars
<1>10. QED BY <1>1, <1>2, <1>3, <1>4, <1>5, <1>6, <1>7, <1>8, <1>9 DEF WorkerNext, RunStep

\* The worker implements RunLifecycle: a run starts and ends at most once, is
\* cancelled only when asked to, and does not fail once asked.
THEOREM WorkerImplementsLifecycle == WorkerSpec => ImplementsLifecycle
BY InitLifecycle, LifecycleStep, WorkerInvariance, PTL
   DEF WorkerSpec, ImplementsLifecycle, Lifecycle!Spec

-------------------------------------------------------------------------------
(* The service *)

\* A run, and an RPC about to submit one, has its record in the store.
RecordsExist ==
  /\ \A r \in Runs : pc[r] # "unused" => store[TaskOf[r]] # "absent"
  /\ \A c \in Calls : at[c] = "submit" => store[cur[c]] # "absent"

\* A verdict in a record is that of a run of the task which has ended.
VerdictEarned ==
  \A id \in Ids : store[id] \in {"succeeded", "failed"} =>
    \E r \in Runs : TaskOf[r] = id /\ pc[r] \in {"finished", "done"} /\ status[r] = store[id]

\* The inductive invariant, next to WInv and CallsOK.
SInv == RecordsOK /\ RecordTruthful /\ RecordsExist /\ VerdictEarned

-------------------------------------------------------------------------------
(* The RPCs keep track of their task, and the service runs the worker *)

LEMMA CallsInvariance == Spec => []CallsOK
<1>1. Init => CallsOK
  BY DEF Init, CallsOK, Submitting
<1>2. CallsOK /\ [Next]_vars => CallsOK'
  <2> SUFFICES ASSUME CallsOK, [Next]_vars PROVE CallsOK'
    OBVIOUS
  <2> USE ServiceAssumption DEF CallsOK, Submitting, CallGoto
  <2>1. ASSUME NEW c \in Calls, Request(c) PROVE CallsOK'
    <3>1. ASSUME NEW id \in Ids, SubmitNew(c, id) \/ SubmitAgain(c, id) PROVE CallsOK'
      BY <3>1 DEF SubmitNew, SubmitAgain, StartSubmitting
    <3>2. ASSUME NEW id \in Ids, CancelTask(c, id) PROVE CallsOK'
      BY <3>2 DEF CancelTask
    <3>3. ASSUME NEW group \in SUBSET Stored, CancelGroup(c, group) PROVE CallsOK'
      BY <3>3 DEF CancelGroup, Stored
    <3>4. QED BY <2>1, <3>1, <3>2, <3>3 DEF Request
  <2>2. ASSUME NEW c \in Calls, CallStep(c) PROVE CallsOK'
    <3>1. CASE CancelPrevious(c) \/ SavePending(c) \/ SavePendingFails(c) \/ SendToQueue(c)
      BY <3>1 DEF CancelPrevious, SavePending, SavePendingFails, SendToQueue
    <3>2. CASE EndListing(c) \/ SaveCancelled(c) \/ EndCancel(c)
      BY <3>2 DEF EndListing, SaveCancelled, EndCancel
    <3>3. ASSUME NEW id \in Ids, ReadListed(c, id) PROVE CallsOK'
      BY <3>3 DEF ReadListed, LiveIds
    <3>4. ASSUME NEW id \in Ids, Signal(c, id) PROVE CallsOK'
      BY <3>4 DEF Signal
    <3>5. QED BY <2>2, <3>1, <3>2, <3>3, <3>4 DEF CallStep
  <2>3. CASE RebootService
    BY <2>3 DEF RebootService
  <2>4. CASE \/ \E r \in Runs : BeginTask(r) \/ SavePid(r) \/ FinishTask(r)
             \/ WorkerOnly \/ UNCHANGED vars
    BY <2>4 DEF BeginTask, SavePid, FinishTask, WorkerOnly, vars, serviceVars, callVars
  <2>5. QED BY <2>1, <2>2, <2>3, <2>4 DEF Next
<1>3. QED BY <1>1, <1>2, PTL DEF Spec

LEMMA ServiceStep == CallsOK /\ [Next]_vars => [WorkerNext]_workerVars
<1> SUFFICES ASSUME CallsOK, [Next]_vars PROVE WorkerNext \/ UNCHANGED workerVars
  OBVIOUS
<1>1. ASSUME NEW c \in Calls, Request(c) PROVE UNCHANGED workerVars
  BY <1>1 DEF Request, SubmitNew, SubmitAgain, StartSubmitting, CancelTask, CancelGroup
<1>2. ASSUME NEW c \in Calls, CallStep(c) PROVE WorkerNext \/ UNCHANGED workerVars
  <2>1. CASE CancelPrevious(c)
    BY <2>1 DEF CancelPrevious, WorkerNext, CallsOK, Submitting
  <2>2. CASE SendToQueue(c)
    BY <2>2 DEF SendToQueue, WorkerNext
  <2>3. CASE \E id \in Ids : ReadListed(c, id) \/ Signal(c, id)
    BY <2>3 DEF ReadListed, Signal, WorkerNext
  <2>4. CASE \/ SavePending(c) \/ SavePendingFails(c) \/ EndListing(c)
             \/ SaveCancelled(c) \/ EndCancel(c)
    BY <2>4 DEF SavePending, SavePendingFails, EndListing, SaveCancelled, EndCancel
  <2>5. QED BY <1>2, <2>1, <2>2, <2>3, <2>4 DEF CallStep
<1>3. ASSUME NEW r \in Runs, BeginTask(r) \/ SavePid(r) \/ FinishTask(r) PROVE WorkerNext
  BY <1>3 DEF BeginTask, SavePid, FinishTask, WorkerNext, RunStep
<1>4. CASE WorkerOnly \/ RebootService
  BY <1>4 DEF WorkerOnly, RebootService, WorkerNext, RunStep
<1>5. CASE UNCHANGED vars
  BY <1>5 DEF vars
<1>6. QED BY <1>1, <1>2, <1>3, <1>4, <1>5 DEF Next

\* What the service does to the worker, the worker specification allows: all that
\* is proved of Worker holds in the service.
THEOREM ServiceRunsWorker == Spec => WorkerSpec
<1>1. Init => WorkerInit
  BY DEF Init
<1>2. QED BY <1>1, ServiceStep, CallsInvariance, PTL DEF Spec, WorkerSpec

-------------------------------------------------------------------------------
(* What a record tells *)

LEMMA InitSInv == Init => SInv
BY DEF Init, WorkerInit, SInv, RecordsOK, RecordTruthful, RecordsExist, VerdictEarned, Live

\* No record is ever deleted, so RecordsExist only depends on who is new.
LEMMA RecordsStay ==
  ASSUME RecordsExist,
         \A id \in Ids : store[id] # "absent" => store'[id] # "absent",
         \A r \in Runs : pc'[r] # "unused" => pc[r] # "unused",
         \A c \in Calls : at'[c] = "submit"
           => at[c] = "submit" /\ cur'[c] = cur[c] /\ cur[c] \in Ids
  PROVE  RecordsExist'
BY WorkerAssumption DEF RecordsExist

\* An RPC moves on to a step that is not "submit", and no record changes.
LEMMA QuietCallSInv ==
  ASSUME SInv, CallsOK, NEW c \in Calls,
         at[c] # "submit", at'[c] # "submit",
         \A d \in Calls \ {c} : at'[d] = at[d] /\ cur'[d] = cur[d],
         UNCHANGED <<store, stranded, pc, status>>
  PROVE  SInv'
<1>1. RecordsOK' /\ VerdictEarned'
  BY DEF SInv, RecordsOK, VerdictEarned
<1>2. RecordTruthful' /\ RecordsExist'
  BY DEF SInv, RecordTruthful, RecordsExist
<1>3. QED BY <1>1, <1>2 DEF SInv

LEMMA CallSInv ==
  ASSUME SInv, CallsOK, WInv, NEW c \in Calls, Request(c) \/ CallStep(c)
  PROVE  SInv'
<1> USE DEF CallGoto
<1>1. CASE Request(c) \/ CancelPrevious(c) \/ EndListing(c) \/ EndCancel(c)
           \/ \E id \in Ids : ReadListed(c, id) \/ Signal(c, id)
  <2>1. /\ at[c] # "submit" /\ at'[c] # "submit"
        /\ \A d \in Calls \ {c} : at'[d] = at[d] /\ cur'[d] = cur[d]
        /\ UNCHANGED <<store, stranded, pc, status>>
    BY <1>1 DEF CallsOK, Request, SubmitNew, SubmitAgain, StartSubmitting, CancelTask,
                CancelGroup, CancelPrevious, EndListing, EndCancel, ReadListed, Signal,
                LookupCancel, workerVars
  <2>2. QED BY <2>1, QuietCallSInv
<1>2. CASE SavePending(c)
  <2> USE <1>2 DEF SavePending, Save, workerVars
  <2>1. RecordsOK' /\ VerdictEarned'
    BY DEF SInv, RecordsOK, VerdictEarned, Live
  <2>2. RecordTruthful'
    BY DEF SInv, CallsOK, RecordsOK, RecordTruthful
  <2>3. RecordsExist'
    BY DEF SInv, CallsOK, Submitting, RecordsOK, RecordsExist
  <2>4. QED BY <2>1, <2>2, <2>3 DEF SInv
<1>3. CASE SavePendingFails(c)
  <2> USE <1>3 DEF SavePendingFails, Strand, workerVars
  <2>1. RecordsOK' /\ VerdictEarned'
    BY DEF SInv, CallsOK, Submitting, RecordsOK, VerdictEarned, Live
  <2>2. RecordTruthful'
    BY DEF SInv, CallsOK, RecordsOK, RecordTruthful
  <2>3. \A id \in Ids : store[id] # "absent" => store'[id] # "absent"
    BY DEF SInv, RecordsOK
  <2>4. RecordsExist'
    BY <2>3, RecordsStay DEF SInv, CallsOK, Submitting
  <2>5. QED BY <2>1, <2>2, <2>4 DEF SInv
<1>4. CASE SendToQueue(c)
  <2> PICK q \in Runs : TaskOf[q] = cur[c] /\ Submit(q)
    BY <1>4 DEF SendToQueue
  <2> USE <1>4 DEF SendToQueue, Submit, Goto
  <2>1. RecordsOK' /\ VerdictEarned'
    BY DEF SInv, WInv, WorkerTypeOK, RecordsOK, VerdictEarned
  <2>2. RecordTruthful'
    BY DEF SInv, WInv, WorkerTypeOK, CallsOK, RecordTruthful, InExecute
  <2>3. RecordsExist'
    BY DEF SInv, WInv, WorkerTypeOK, CallsOK, RecordsExist
  <2>4. QED BY <2>1, <2>2, <2>3 DEF SInv
<1>5. CASE SaveCancelled(c)
  <2> USE <1>5 DEF SaveCancelled, Save, workerVars
  <2>1. RecordsOK' /\ VerdictEarned'
    BY DEF SInv, CallsOK, RecordsOK, VerdictEarned, Final
  <2>2. RecordTruthful'
    BY DEF SInv, CallsOK, RecordsOK, RecordTruthful
  <2>3. \A id \in Ids : store[id] # "absent" => store'[id] # "absent"
    BY DEF SInv, RecordsOK
  <2>4. RecordsExist'
    BY <2>3, RecordsStay DEF SInv, CallsOK, Submitting
  <2>5. QED BY <2>1, <2>2, <2>4 DEF SInv
<1>6. QED BY <1>1, <1>2, <1>3, <1>4, <1>5 DEF CallStep

LEMMA BeginTaskSInv ==
  ASSUME SInv, WInv, CallsOK, NEW r \in Runs, BeginTask(r)
  PROVE  SInv'
<1> USE WorkerAssumption DEF BeginTask, Begin, WorkerSaves, Save, Strand, Goto, callVars
<1>1. RecordsOK'
  BY DEF SInv, RecordsOK, Live
<1>2. VerdictEarned'
  BY DEF SInv, WInv, WorkerTypeOK, RecordsOK, VerdictEarned
<1>3. RecordTruthful'
  BY DEF SInv, WInv, WorkerTypeOK, RecordsOK, RecordTruthful, InExecute
<1>4. RecordsExist'
  BY DEF SInv, WInv, WorkerTypeOK, CallsOK, Submitting, RecordsOK, RecordsExist
<1>5. QED BY <1>1, <1>2, <1>3, <1>4 DEF SInv

LEMMA SavePidSInv ==
  ASSUME SInv, WInv, CallsOK, NEW r \in Runs, SavePid(r)
  PROVE  SInv'
<1> USE WorkerAssumption DEF SavePid, CommandStarted, Save, Goto, callVars
<1>1. status[r] = "running"
  BY DEF WInv, ProgressInv, InExecute
<1>2. RecordsOK' /\ VerdictEarned'
  BY <1>1 DEF SInv, WInv, WorkerTypeOK, RecordsOK, VerdictEarned, Live
<1>3. RecordTruthful'
  BY <1>1 DEF SInv, WInv, WorkerTypeOK, RecordsOK, RecordTruthful, InExecute
<1>4. RecordsExist'
  BY <1>1 DEF SInv, WInv, WorkerTypeOK, CallsOK, Submitting, RecordsOK, RecordsExist
<1>5. QED BY <1>2, <1>3, <1>4 DEF SInv

LEMMA FinishTaskSInv ==
  ASSUME SInv, WInv, CallsOK, NEW r \in Runs, FinishTask(r)
  PROVE  SInv'
<1> USE WorkerAssumption DEF FinishTask, Finish, WorkerSaves, Save, Strand, Goto, callVars
<1>1. Verdict(r) \in Final
  BY ServiceAssumption DEF Verdict, Final
<1>2. RecordsOK'
  BY <1>1 DEF SInv, RecordsOK
<1>3. VerdictEarned'
  BY <1>1 DEF SInv, WInv, WorkerTypeOK, RecordsOK, VerdictEarned, Final
<1>4. RecordTruthful'
  BY <1>1 DEF SInv, WInv, WorkerTypeOK, RecordsOK, RecordTruthful, InExecute, Final
<1>5. RecordsExist'
  BY <1>1 DEF SInv, WInv, WorkerTypeOK, CallsOK, Submitting, RecordsOK, RecordsExist, Final
<1>6. QED BY <1>2, <1>3, <1>4, <1>5 DEF SInv

LEMMA WorkerOnlySInv == ASSUME SInv, WInv, WorkerOnly PROVE SInv'
<1> USE WorkerAssumption DEF Goto, serviceVars, callVars
<1>1. CASE \/ LoopReturn \/ Sigterm
           \/ \E c \in Calls : CallCancel(c)
  BY <1>1 DEF WorkerOnly, LoopReturn, Sigterm, CallCancel, SInv, RecordsOK,
              RecordTruthful, RecordsExist, VerdictEarned
<1>2. CASE Take \/ \E r \in Runs : Register(r) \/ ExecuteReturns(r) \/ Unregister(r)
  <2>1. PICK r \in Runs :
          /\ pc' = [pc EXCEPT ![r] = pc'[r]] /\ status' = status
          /\ \/ pc[r] \in {"queued", "taken"} /\ pc'[r] \in {"taken", "registered"}
             \/ {pc[r], pc'[r]} \subseteq InExecute
             \/ pc[r] = "finished" /\ pc'[r] = "done"
    <3>1. CASE Take
      <4>1. Head(queue) \in Runs /\ pc[Head(queue)] = "queued"
        BY <3>1, TailToSet DEF WInv, WorkerTypeOK, QueueHoldsAccepted, Take
      <4>2. QED BY <3>1, <4>1 DEF WInv, WorkerTypeOK, Take
    <3>2. CASE \E r \in Runs : Register(r) \/ ExecuteReturns(r) \/ Unregister(r)
      BY <3>2 DEF WInv, WorkerTypeOK, Register, ExecuteReturns, Unregister, InExecute
    <3>3. QED BY <1>2, <3>1, <3>2
  <2>2. UNCHANGED <<store, stranded, at, cur>>
    BY DEF WorkerOnly
  <2>3. RecordsOK' /\ VerdictEarned'
    BY <2>1, <2>2 DEF SInv, WInv, WorkerTypeOK, RecordsOK, VerdictEarned, InExecute
  <2>4. RecordTruthful'
    BY <2>1, <2>2 DEF SInv, WInv, WorkerTypeOK, RecordTruthful, InExecute
  <2>5. RecordsExist'
    BY <2>1, <2>2 DEF SInv, WInv, WorkerTypeOK, RecordsExist, InExecute
  <2>6. QED BY <2>3, <2>4, <2>5 DEF SInv
<1>3. QED BY <1>1, <1>2 DEF WorkerOnly

LEMMA RebootServiceSInv == ASSUME SInv, WInv, RebootService PROVE SInv'
<1> USE DEF RebootService, Reboot
<1>1. \A r \in Runs : /\ pc[r] = "unused" => pc'[r] = "unused"
                      /\ pc[r] \in {"finished", "done"} => pc'[r] = "done"
  BY DEF Unfinished, InExecute
<1>2. RecordsOK' /\ VerdictEarned'
  BY <1>1 DEF SInv, RecordsOK, VerdictEarned, LiveIds
<1>3. RecordTruthful'
  BY DEF RecordTruthful, LiveIds, Live
<1>4. RecordsExist'
  BY <1>1 DEF SInv, RecordsExist
<1>5. QED BY <1>2, <1>3, <1>4 DEF SInv

LEMMA NextSInv == SInv /\ WInv /\ CallsOK /\ [Next]_vars => SInv'
<1> SUFFICES ASSUME SInv, WInv, CallsOK, [Next]_vars PROVE SInv'
  OBVIOUS
<1>1. CASE UNCHANGED vars
  BY <1>1 DEF vars, workerVars, serviceVars, callVars, SInv, RecordsOK, RecordTruthful,
              RecordsExist, VerdictEarned
<1>2. QED BY <1>1, CallSInv, BeginTaskSInv, SavePidSInv, FinishTaskSInv, WorkerOnlySInv,
             RebootServiceSInv DEF Next

\* So they do in the service, with what ties calls and records to the runs.
THEOREM ServiceInvariance == Spec => [](WInv /\ CallsOK /\ SInv)
<1>1. Spec => []WInv
  BY ServiceRunsWorker, WorkerInvariance, PTL
<1>2. Spec => []SInv
  BY <1>1, CallsInvariance, InitSInv, NextSInv, PTL DEF Spec
<1>3. QED BY <1>1, <1>2, CallsInvariance, PTL

\* Every variable of the service keeps its type.
THEOREM ServiceTypeCorrect == Spec => []TypeOK
<1>1. WInv /\ CallsOK /\ SInv => TypeOK
  BY DEF WInv, SInv, TypeOK
<1>2. QED BY <1>1, ServiceInvariance, PTL

\* No interleaving of RPCs, runs and saves loses a pending or running task.
THEOREM RecordsAreTruthful == Spec => []RecordTruthful
<1>1. SInv => RecordTruthful
  BY DEF SInv
<1>2. QED BY <1>1, ServiceInvariance, PTL

\* The record of a task submitted once ends with the verdict of its run, or with
\* cancelled.
THEOREM VerdictsAreReported == Spec => []OnceSubmittedReported
<1>1. SInv => OnceSubmittedReported
  <2> SUFFICES ASSUME SInv, NEW r \in Runs, pc[r] \in {"finished", "done"},
                      OnceSubmitted(r), TaskOf[r] \notin stranded
               PROVE  store[TaskOf[r]] \in {status[r], "cancelled"}
    BY DEF OnceSubmittedReported
  <2> DEFINE id == TaskOf[r]
  <2>1. id \in Ids /\ store[id] \in Live \cup Final
    BY WorkerAssumption DEF SInv, RecordsOK, RecordsExist
  <2>2. store[id] \notin Live
    BY <2>1 DEF SInv, RecordTruthful, OnceSubmitted, InExecute, Live
  <2>3. CASE store[id] \in {"succeeded", "failed"}
    BY <2>1, <2>3 DEF SInv, VerdictEarned, OnceSubmitted
  <2>4. QED BY <2>1, <2>2, <2>3 DEF Live, Final
<1>2. QED BY <1>1, ServiceInvariance, PTL

\* The service as a whole, clients and saves included, implements RunLifecycle: no
\* RPC makes a run start twice, or end as nobody asked.
THEOREM ServiceImplementsLifecycle == Spec => ImplementsLifecycle
BY ServiceRunsWorker, WorkerImplementsLifecycle, PTL
===============================================================================
