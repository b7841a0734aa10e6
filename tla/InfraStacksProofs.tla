--------------------------- MODULE InfraStacksProofs ---------------------------
(***************************************************************************)
(* Proofs about InfraStacks, for any tasks, projects, ports and bounds.    *)
(***************************************************************************)
EXTENDS InfraStacks, TLAPS

Updating == {"up", "polling"}
Locked == [lock: Nat \cup {None, Stale}, program: Program \cup {None}]

\* The types of what the runs work on; those of Pulumi are below.
RunsType == /\ records \in [Ids -> Task \cup {None}]
            /\ runs \in Seq(Run)
            /\ registered \in [Ids -> Nat \cup {None}]
            /\ stacks \in [Keys -> Locked]
            /\ starting \subseteq Ids \X Ports
            /\ listening \in [Ports -> Ids \cup {Foreign, None, Ended}]
            /\ chromes \subseteq Ranks

\* Among the runs of a task there is a last one, and a record has a run.
LastInv == /\ \A i \in DOMAIN runs : \E m \in DOMAIN runs :
                /\ runs[m].id = runs[i].id
                /\ \A j \in DOMAIN runs : runs[j].id = runs[i].id => j <= m
           /\ \A id \in Ids : records[id] # None => \E i \in DOMAIN runs : runs[i].id = id

\* Outputs are read of a stack that is at a program.
OutputsInv == \A r \in DOMAIN runs : runs[r].at = "outputs" => Stack(r).program \in Program

\* A stack is held by a run that deploys to it.
HolderInv == \A k \in Keys : stacks[k].lock \in Nat =>
               LET r == stacks[k].lock
               IN r \in DOMAIN runs /\ k = StackOf(runs[r].task, runs[r].id)

StacksInv == RunsType /\ LastInv /\ OutputsInv /\ HolderInv /\ StackHasOneUpdate

-------------------------------------------------------------------------------
\* A function that agrees with a sequence in its domain is a sequence.
LEMMA SeqOfElements ==
  ASSUME NEW S, NEW s \in Seq(S), NEW t \in [DOMAIN s -> S]
  PROVE  t \in Seq(S)
<1>1. t \in [1..Len(s) -> S] /\ Len(s) \in Nat
  OBVIOUS
<1>2. QED BY <1>1

LEMMA SeqOneMore ==
  ASSUME NEW S, NEW s \in Seq(S), NEW e \in S
  PROVE  /\ Append(s, e) \in Seq(S)
         /\ DOMAIN Append(s, e) = DOMAIN s \cup {Len(s) + 1}
         /\ \A i \in DOMAIN s : Append(s, e)[i] = s[i] /\ i <= Len(s) /\ i \in Nat
         /\ Append(s, e)[Len(s) + 1] = e /\ Len(s) \in Nat
OBVIOUS

LEMMA RunFacts ==
  ASSUME RunsType, NEW r \in DOMAIN runs
  PROVE  /\ r \in Nat /\ runs[r] \in Run /\ runs[r].task \in Task /\ runs[r].id \in Ids
         /\ StackOf(runs[r].task, runs[r].id) \in Keys
         /\ Stack(r) \in Locked
<1>1. r \in Nat /\ runs[r] \in Run
  BY DEF RunsType
<1>2. runs[r].task \in Task /\ runs[r].id \in Ids
  BY <1>1 DEF Run
<1>3. StackOf(runs[r].task, runs[r].id) \in Keys
  BY <1>2 DEF StackOf, Keys, Task
<1>4. QED BY <1>1, <1>2, <1>3 DEF Stack, RunsType

LEMMA ProgramTyped ==
  ASSUME RunsType, NEW r \in DOMAIN runs PROVE ProgramOf(runs[r]) \in Program
<1>1. ResolveChromeBin \in Ranks \cup {None}
  <2>1. CASE chromes = {}
    BY <2>1 DEF ResolveChromeBin
  <2>2. CASE chromes # {}
    <3>1. \E c \in chromes : \A d \in chromes : c <= d
      <4>1. chromes \subseteq {1, 2}
        BY DEF RunsType, Ranks
      <4>2. CASE 1 \in chromes
        BY <4>1, <4>2
      <4>3. CASE 1 \notin chromes
        <5>1. chromes = {2}
          BY <2>2, <4>1, <4>3
        <5>2. QED BY <5>1
      <4>4. QED BY <4>2, <4>3
    <3>2. QED BY <2>2, <3>1 DEF ResolveChromeBin, RunsType
  <2>3. QED BY <2>1, <2>2
<1>2. PortOf(runs[r].task) \in Ports \cup {None}
  BY RunFacts, InfraAssumption DEF PortOf, Task
<1>3. QED BY <1>1, <1>2 DEF ProgramOf, Program

-------------------------------------------------------------------------------
\* A step that leaves the stacks alone, and takes no run into an update or out of
\* one; runs that are new are queued.
Quiet ==
  /\ UNCHANGED stacks
  /\ DOMAIN runs \subseteq DOMAIN runs'
  /\ \A i \in DOMAIN runs :
       /\ runs'[i].id = runs[i].id
       /\ runs'[i].task.type = runs[i].task.type /\ runs'[i].task.project = runs[i].task.project
       /\ runs'[i].at \in Updating <=> runs[i].at \in Updating
       /\ runs'[i].at = "outputs" => runs[i].at = "outputs"
  /\ \A i \in DOMAIN runs' \ DOMAIN runs : runs'[i].at = "queued"

LEMMA QuietKeeps ==
  ASSUME StacksInv, Quiet PROVE OutputsInv' /\ HolderInv' /\ StackHasOneUpdate'
<1>1. \A i \in DOMAIN runs : Stack(i)' = Stack(i)
  BY DEF Quiet, Stack, StackOf
<1>2. OutputsInv'
  BY <1>1 DEF Quiet, OutputsInv, StacksInv
<1>3. \A r \in DOMAIN runs' : runs'[r].at \in Updating => Stack(r)'.lock = r
  BY <1>1 DEF Quiet, StackHasOneUpdate, StacksInv, Updating
<1>4. \A k \in Keys : stacks'[k].lock \in Nat =>
        stacks'[k].lock \in DOMAIN runs' /\ runs'[stacks'[k].lock].at \in Updating
  BY DEF Quiet, StackHasOneUpdate, StacksInv, Updating
<1>5. HolderInv'
  BY DEF Quiet, HolderInv, StacksInv, StackOf
<1>6. QED BY <1>2, <1>3, <1>4, <1>5 DEF StackHasOneUpdate, Updating

\* The runs stay as many, with their ids.
SameRuns == /\ DOMAIN runs' = DOMAIN runs
            /\ \A i \in DOMAIN runs : runs'[i].id = runs[i].id
            /\ \A id \in Ids : records'[id] # None =>
                 records[id] # None \/ \E i \in DOMAIN runs : runs[i].id = id

LEMMA SameRunsKeeps == ASSUME LastInv, SameRuns PROVE LastInv'
BY DEF LastInv, SameRuns

\* A run takes a step that changes its place and its stack: it takes a free
\* stack, or gives its own back, or leaves another's alone.
LEMMA StepKeeps ==
  ASSUME StacksInv, NEW r \in DOMAIN runs, NEW stack \in Locked,
         NEW label \in {"lacking", "err", "up", "polling", "outputs"},
         runs' = [runs EXCEPT ![r].at = label],
         stacks' = [stacks EXCEPT ![StackOf(runs[r].task, runs[r].id)] = stack],
         UNCHANGED <<records, registered>>,
         \/ label \in Updating /\ stack.lock = r /\ Stack(r).lock \in {None, r}
         \/ label \notin Updating /\ stack.lock \in {None, Stale} /\ Stack(r).lock = r
         \/ label \notin Updating /\ stack.lock = Stack(r).lock /\ runs[r].at \notin Updating,
         stack.program \in Program \/ stack.program = Stack(r).program,
         label = "outputs" => stack.program \in Program
  PROVE  /\ runs' \in Seq(Run) /\ stacks' \in [Keys -> Locked] /\ records' \in [Ids -> Task \cup {None}]
         /\ registered' \in [Ids -> Nat \cup {None}]
         /\ LastInv' /\ OutputsInv' /\ HolderInv' /\ StackHasOneUpdate'
<1> USE DEF StacksInv
<1> DEFINE key == StackOf(runs[r].task, runs[r].id)
<1>1. /\ key \in Keys /\ stacks \in [Keys -> Locked] /\ Stack(r) = stacks[key] /\ r \in Nat
      /\ runs[r] \in Run
  BY RunFacts DEF RunsType, Stack
<1>2. /\ runs' \in Seq(Run) /\ DOMAIN runs' = DOMAIN runs
      /\ \A i \in DOMAIN runs : /\ runs'[i].id = runs[i].id /\ runs'[i].task = runs[i].task
                                /\ runs'[i].at = IF i = r THEN label ELSE runs[i].at
  <2>1. \A i \in DOMAIN runs : runs'[i] \in Run /\ runs'[i].id = runs[i].id /\ runs'[i].task = runs[i].task
                             /\ runs'[i].at = IF i = r THEN label ELSE runs[i].at
    BY RunFacts DEF Run
  <2>2. runs' \in [DOMAIN runs -> Run]
    BY <2>1
  <2>3. runs' \in Seq(Run)
    BY <2>2, SeqOfElements DEF RunsType
  <2>4. QED BY <2>1, <2>2, <2>3
<1>3. \A i \in DOMAIN runs :
        Stack(i)' = IF StackOf(runs[i].task, runs[i].id) = key THEN stack ELSE Stack(i)
  BY <1>1, <1>2, RunFacts DEF Stack
<1>4. \A i \in DOMAIN runs : StackOf(runs[i].task, runs[i].id) = key => Stack(i) = Stack(r)
  BY DEF Stack
<1>5. OutputsInv'
  BY <1>2, <1>3, <1>4 DEF OutputsInv
<1>6. LastInv'
  BY <1>2, SameRunsKeeps DEF SameRuns
<1>7. \A i \in DOMAIN runs : runs[i].at \in Updating => Stack(i).lock = i /\ i \in Nat /\ i # None
  BY RunFacts, InfraAssumption DEF StackHasOneUpdate, Updating
<1>8. \A i \in DOMAIN runs' : runs'[i].at \in Updating => Stack(i)'.lock = i
  BY <1>2, <1>3, <1>4, <1>7
<1>9. \A k \in Keys : stacks'[k].lock \in Nat =>
        stacks'[k].lock \in DOMAIN runs' /\ runs'[stacks'[k].lock].at \in Updating
  <2> SUFFICES ASSUME NEW k \in Keys, stacks'[k].lock \in Nat
               PROVE  stacks'[k].lock \in DOMAIN runs' /\ runs'[stacks'[k].lock].at \in Updating
    OBVIOUS
  <2>1. CASE k # key
    <3>1. /\ stacks'[k] = stacks[k] /\ stacks[k].lock \in DOMAIN runs
          /\ runs[stacks[k].lock].at \in Updating
      BY <2>1, <1>1 DEF StackHasOneUpdate, Updating
    <3>2. stacks[k].lock # r
      BY <2>1, <3>1 DEF HolderInv
    <3>3. QED BY <3>1, <3>2, <1>2
  <2>2. CASE k = key
    <3>1. stacks'[k].lock = stack.lock
      BY <2>2, <1>1
    <3>2. QED
      BY <3>1, <2>2, <1>1, <1>2, InfraAssumption DEF StackHasOneUpdate, Updating
  <2>3. QED BY <2>1, <2>2
<1>10. StackHasOneUpdate'
  BY <1>8, <1>9 DEF StackHasOneUpdate, Updating
<1>11. HolderInv'
  BY <1>1, <1>2, InfraAssumption DEF HolderInv, Stack
<1>12. QED BY <1>1, <1>2, <1>5, <1>6, <1>10, <1>11 DEF RunsType

LEMMA SignalledRuns ==
  ASSUME RunsType, NEW id \in Ids
  PROVE  /\ Signalled(id) \in Seq(Run) /\ DOMAIN Signalled(id) = DOMAIN runs
         /\ \A i \in DOMAIN runs : /\ Signalled(id)[i] \in Run
                                   /\ Signalled(id)[i].id = runs[i].id
                                   /\ Signalled(id)[i].task = runs[i].task
                                   /\ Signalled(id)[i].at = runs[i].at
                                   /\ Signalled(id)[i].request = runs[i].request
                                   /\ Signalled(id)[i].alone = runs[i].alone
                                   /\ Signalled(id)[i].read = runs[i].read
<1>1. \A i \in DOMAIN runs : /\ Signalled(id)[i] \in Run
                            /\ Signalled(id)[i].id = runs[i].id
                            /\ Signalled(id)[i].task = runs[i].task
                            /\ Signalled(id)[i].at = runs[i].at
                            /\ Signalled(id)[i].request = runs[i].request
                            /\ Signalled(id)[i].alone = runs[i].alone
                            /\ Signalled(id)[i].read = runs[i].read
  BY RunFacts DEF Signalled, Run
<1>2. Signalled(id) \in [DOMAIN runs -> Run]
  BY <1>1 DEF Signalled
<1>3. Signalled(id) \in Seq(Run)
  BY <1>2, SeqOfElements DEF RunsType
<1>4. QED BY <1>1, <1>2, <1>3

\* Runs are at most added and told to stop, and no record comes to succeed.
Handed ==
  /\ UNCHANGED <<stacks, starting, listening>>
  /\ DOMAIN runs \subseteq DOMAIN runs'
  /\ \A i \in DOMAIN runs : /\ runs'[i].id = runs[i].id
                            /\ runs'[i].task = runs[i].task
                            /\ runs'[i].at = runs[i].at
  /\ \A i \in DOMAIN runs' \ DOMAIN runs : runs'[i].at = "queued"
  /\ \A id \in Ids : records'[id] # None /\ records'[id].status = "succeeded" => records'[id] = records[id]

\* A new run is the last of its task.
LEMMA HandKeeps ==
  ASSUME StacksInv, NEW id \in Ids, NEW task \in Task, NEW request \in Request,
         Hand(id, task, request), task.status = "pending"
  PROVE  StacksInv' /\ Handed
<1> USE DEF StacksInv
<1> DEFINE before == [i \in DOMAIN runs |->
                       [Signalled(id)[i] EXCEPT !.alone = @ /\ ~(runs[i].id = id /\ Unfinished(runs[i]))]]
           busy == \E i \in DOMAIN runs : runs[i].id = id /\ Unfinished(runs[i])
           new == [id |-> id, request |-> request, task |-> task, at |-> "queued",
                   cancelled |-> FALSE, alone |-> ~busy, read |-> FALSE]
<1>1. /\ before \in Seq(Run) /\ DOMAIN before = DOMAIN runs
      /\ \A i \in DOMAIN runs : /\ before[i].id = runs[i].id
                                /\ before[i].task = runs[i].task
                                /\ before[i].at = runs[i].at
  <2>1. \A i \in DOMAIN runs : /\ before[i] \in Run
                              /\ before[i].id = runs[i].id
                              /\ before[i].task = runs[i].task
                              /\ before[i].at = runs[i].at
    <3> SUFFICES ASSUME NEW i \in DOMAIN runs
                 PROVE  /\ before[i] \in Run
                        /\ before[i].id = runs[i].id
                        /\ before[i].task = runs[i].task
                        /\ before[i].at = runs[i].at
      OBVIOUS
    <3> DEFINE flag == Signalled(id)[i].alone /\ ~(runs[i].id = id /\ Unfinished(runs[i]))
    <3>1. before[i] = [Signalled(id)[i] EXCEPT !.alone = flag] /\ flag \in BOOLEAN
      OBVIOUS
    <3>2. /\ Signalled(id)[i] \in Run /\ Signalled(id)[i].id = runs[i].id
          /\ Signalled(id)[i].task = runs[i].task /\ Signalled(id)[i].at = runs[i].at
      BY SignalledRuns
    <3> HIDE DEF before, flag
    <3>3. ASSUME NEW x \in Run, NEW b \in BOOLEAN
          PROVE  /\ [x EXCEPT !.alone = b] \in Run /\ [x EXCEPT !.alone = b].id = x.id
                 /\ [x EXCEPT !.alone = b].task = x.task /\ [x EXCEPT !.alone = b].at = x.at
      BY DEF Run
    <3>4. QED BY <3>1, <3>2, <3>3
  <2>2. before \in [DOMAIN runs -> Run]
    BY <2>1
  <2>3. before \in Seq(Run)
    BY <2>2, SeqOfElements DEF RunsType
  <2>4. QED BY <2>1, <2>2, <2>3
<1>2. new \in Run
  BY DEF Run
<1>3. /\ runs' = Append(before, new) /\ records' = [records EXCEPT ![id] = task]
      /\ UNCHANGED <<registered, stacks, starting, listening, chromes>>
  BY DEF Hand, browserVars
<1> HIDE DEF before, busy
<1>4. /\ runs' \in Seq(Run) /\ DOMAIN runs' = DOMAIN runs \cup {Len(before) + 1}
      /\ \A i \in DOMAIN runs : /\ runs'[i] = before[i] /\ i <= Len(before) /\ i \in Nat
      /\ runs'[Len(before) + 1] = new /\ Len(before) \in Nat
  BY <1>1, <1>2, <1>3, SeqOneMore
<1>5. RunsType'
  BY <1>3, <1>4 DEF RunsType
<1>6. Quiet
  BY <1>1, <1>3, <1>4 DEF Quiet
<1>7. LastInv'
  <2>1. ASSUME NEW i \in DOMAIN runs'
        PROVE  \E m \in DOMAIN runs' : /\ runs'[m].id = runs'[i].id
                                      /\ \A j \in DOMAIN runs' : runs'[j].id = runs'[i].id => j <= m
    <3>1. CASE runs'[i].id = id
      BY <3>1, <1>4
    <3>2. CASE runs'[i].id # id
      <4>1. i \in DOMAIN runs /\ runs[i].id # id
        BY <3>2, <1>1, <1>4
      <4>2. PICK m \in DOMAIN runs : /\ runs[m].id = runs[i].id
                                     /\ \A j \in DOMAIN runs : runs[j].id = runs[i].id => j <= m
        BY <4>1 DEF LastInv
      <4>3. \A j \in DOMAIN runs' : runs'[j].id = runs'[i].id => j \in DOMAIN runs /\ runs[j].id = runs[i].id
        BY <4>1, <3>2, <1>1, <1>4
      <4>4. QED BY <4>1, <4>2, <4>3, <1>1, <1>4
    <3>3. QED BY <3>1, <3>2
  <2>2. \A d \in Ids : records'[d] # None => \E i \in DOMAIN runs' : runs'[i].id = d
    <3> SUFFICES ASSUME NEW d \in Ids, records'[d] # None PROVE \E i \in DOMAIN runs' : runs'[i].id = d
      OBVIOUS
    <3>1. CASE d = id
      BY <3>1, <1>4
    <3>2. CASE d # id
      <4>1. records[d] # None
        BY <3>2, <1>3 DEF RunsType
      <4>2. PICK i \in DOMAIN runs : runs[i].id = d
        BY <4>1 DEF LastInv
      <4>3. QED BY <4>2, <1>1, <1>4
    <3>3. QED BY <3>1, <3>2
  <2>3. QED BY <2>1, <2>2 DEF LastInv
<1>8. Handed
  BY <1>1, <1>3, <1>4 DEF Handed, RunsType
<1>9. QED BY <1>5, <1>6, <1>7, <1>8, QuietKeeps

LEMMA SubmitKeeps ==
  ASSUME StacksInv, NEW q \in Request, SubmitTask(q) PROVE StacksInv' /\ Handed
<1>1. q.id \in Ids
  BY DEF Request
<1>2. CASE records[q.id] = None
  <2>1. NewTask(q) \in Task /\ NewTask(q).status = "pending"
    BY DEF NewTask, Task, Request
  <2>2. Hand(q.id, NewTask(q), q)
    BY <1>2 DEF SubmitTask
  <2>3. QED BY <1>1, <2>1, <2>2, HandKeeps
<1>3. CASE records[q.id] # None
  <2>1. records[q.id] \in Task
    BY <1>1, <1>3 DEF StacksInv, RunsType
  <2>2. Merged(records[q.id], q) \in Task /\ Merged(records[q.id], q).status = "pending"
    BY <2>1 DEF Merged, Task, Request
  <2>3. Hand(q.id, Merged(records[q.id], q), q)
    BY <1>3 DEF SubmitTask
  <2>4. QED BY <1>1, <2>2, <2>3, HandKeeps
<1>4. QED BY <1>2, <1>3

LEMMA SubmissionsKeep ==
  ASSUME StacksInv,
         \/ RunSubmit
         \/ \E stack \in Names, p \in Projects : DeployInfra(stack, p)
         \/ \E id \in Anonymous, port \in McpPorts : StartBrowser(id, port)
         \/ \E id \in Ids : RestartTask(id)
  PROVE  StacksInv' /\ Handed
<1>1. CASE RunSubmit
  BY <1>1, SubmitKeeps, InfraAssumption DEF RunSubmit
<1>2. ASSUME NEW stack \in Names, NEW p \in Projects, DeployInfra(stack, p) PROVE StacksInv' /\ Handed
  <2>1. [id |-> stack, type |-> "infra", project |-> p, port |-> None] \in Request
    BY DEF Request, Ids
  <2>2. QED BY <1>2, <2>1, SubmitKeeps DEF DeployInfra
<1>3. ASSUME NEW id \in Anonymous, NEW port \in McpPorts, StartBrowser(id, port)
      PROVE  StacksInv' /\ Handed
  <2>1. [id |-> id, type |-> "browser", project |-> None,
         port |-> IF port = None THEN DefaultPort ELSE port] \in Request
    BY InfraAssumption DEF Request, Ids
  <2>2. QED BY <1>3, <2>1, SubmitKeeps DEF StartBrowser
<1>4. ASSUME NEW id \in Ids, RestartTask(id) PROVE StacksInv' /\ Handed
  <2>1. records[id] \in Task /\ [records[id] EXCEPT !.status = "pending"] \in Task
    BY <1>4 DEF RestartTask, StacksInv, RunsType, Task
  <2>2. LastRun(id) \in DOMAIN runs
    BY <1>4 DEF RestartTask, StacksInv, LastInv, LastRun
  <2>3. runs[LastRun(id)].request \in Request
    BY <2>2, RunFacts DEF StacksInv, Run
  <2>4. [records[id] EXCEPT !.status = "pending"].status = "pending"
    BY <2>1 DEF Task
  <2>5. QED BY <1>4, <2>1, <2>3, <2>4, HandKeeps DEF RestartTask
<1>5. QED BY <1>1, <1>2, <1>3, <1>4

LEMMA CancelKeeps ==
  ASSUME StacksInv, NEW id \in Ids, CancelTask(id) PROVE StacksInv' /\ Handed
<1> USE DEF StacksInv
<1>1. /\ runs' = Signalled(id) /\ records' = [records EXCEPT ![id].status = "cancelled"]
      /\ records[id] \in Task /\ records[id] # None
      /\ UNCHANGED <<registered, stacks, starting, listening, chromes>>
  BY DEF CancelTask, browserVars, RunsType
<1>2. records' \in [Ids -> Task \cup {None}] /\ \A d \in Ids : records'[d] # None => records[d] # None
  <2>1. [records[id] EXCEPT !.status = "cancelled"] \in Task
    BY <1>1 DEF Task
  <2>2. records' = [records EXCEPT ![id] = [records[id] EXCEPT !.status = "cancelled"]]
    BY <1>1
  <2>3. QED BY <1>1, <2>1, <2>2 DEF RunsType
<1>3. RunsType'
  BY <1>1, <1>2, SignalledRuns DEF RunsType
<1>4. Quiet /\ SameRuns
  BY <1>1, <1>2, SignalledRuns DEF Quiet, SameRuns
<1>5. \A d \in Ids : records'[d] # None /\ records'[d].status = "succeeded" => records'[d] = records[d]
  <2>1. records'[id].status = "cancelled"
    BY <1>1 DEF RunsType, Task
  <2>2. QED BY <1>1, <2>1 DEF RunsType
<1>6. Handed
  BY <1>1, <1>5, SignalledRuns DEF Handed
<1>7. QED BY <1>3, <1>4, <1>6, QuietKeeps, SameRunsKeeps

\* A run changes no more than its own object, and is not deploying.
LEMMA OwnObjectKeeps ==
  ASSUME StacksInv, NEW r \in DOMAIN runs, NEW run \in Run, NEW task \in Task \cup {None},
         runs' = [runs EXCEPT ![r] = run],
         records' = [records EXCEPT ![runs[r].id] = task],
         registered' \in [Ids -> Nat \cup {None}],
         UNCHANGED <<stacks, starting, listening, chromes>>,
         run.id = runs[r].id, run.task.type = runs[r].task.type, run.task.project = runs[r].task.project,
         run.at \notin Updating, run.at # "outputs", runs[r].at \notin Updating
  PROVE  StacksInv'
<1> USE DEF StacksInv
<1>1. runs' \in [DOMAIN runs -> Run]
  BY RunFacts
<1>2. runs' \in Seq(Run)
  BY <1>1, SeqOfElements DEF RunsType
<1>3. RunsType'
  BY <1>2, RunFacts DEF RunsType
<1>4. Quiet
  BY DEF Quiet
<1>5. SameRuns
  BY RunFacts DEF SameRuns, RunsType
<1>6. QED BY <1>3, <1>4, <1>5, QuietKeeps, SameRunsKeeps

LEMMA BeginKeeps == ASSUME StacksInv, NEW r, Begin(r) PROVE StacksInv'
<1> DEFINE task == [runs[r].task EXCEPT !.status = "running"]
           run == [runs[r] EXCEPT !.at = "deploy", !.task = task]
<1>1. r \in DOMAIN runs /\ runs[r].at = "queued" /\ runs[r] \in Run /\ runs[r].task \in Task
      /\ runs[r].id \in Ids /\ r \in Nat
  BY RunFacts DEF Begin, At, StacksInv
<1>2. task \in Task
  BY <1>1 DEF Task
<1>3. /\ run \in Run /\ run.id = runs[r].id /\ run.at = "deploy" /\ run.task = task
      /\ task.type = runs[r].task.type /\ task.project = runs[r].task.project
  BY <1>1, <1>2 DEF Run, Task
<1>4. /\ runs' = [runs EXCEPT ![r] = run] /\ records' = [records EXCEPT ![runs[r].id] = task]
      /\ registered' = [registered EXCEPT ![runs[r].id] = r]
      /\ UNCHANGED <<stacks, starting, listening, chromes>>
  BY <1>1 DEF Begin, browserVars
<1>5. registered' \in [Ids -> Nat \cup {None}]
  BY <1>1, <1>4 DEF StacksInv, RunsType
<1> HIDE DEF task, run
<1>6. QED BY <1>1, <1>2, <1>3, <1>4, <1>5, OwnObjectKeeps DEF Updating

LEMMA FinishKeeps == ASSUME StacksInv, NEW r, Finish(r) PROVE StacksInv'
<1> DEFINE task == [runs[r].task EXCEPT !.status = Verdict(runs[r])]
           run == [runs[r] EXCEPT !.at = "done", !.task = task]
<1>1. r \in DOMAIN runs /\ runs[r].at \in {"ok", "err", "lacking"} /\ runs[r] \in Run
      /\ runs[r].task \in Task /\ runs[r].id \in Ids
  BY RunFacts DEF Finish, StacksInv
<1>2. task \in Task
  BY <1>1 DEF Task, Verdict
<1>3. /\ run \in Run /\ run.id = runs[r].id /\ run.at = "done" /\ run.task = task
      /\ task.type = runs[r].task.type /\ task.project = runs[r].task.project
  BY <1>1, <1>2 DEF Run, Task
<1>4. /\ runs' = [runs EXCEPT ![r] = run] /\ records' = [records EXCEPT ![runs[r].id] = task]
      /\ registered' = [registered EXCEPT ![runs[r].id] = None]
      /\ UNCHANGED <<stacks, starting, listening, chromes>>
  BY <1>1 DEF Finish, browserVars
<1>5. registered' \in [Ids -> Nat \cup {None}]
  BY <1>1, <1>4 DEF StacksInv, RunsType
<1> HIDE DEF task, run
<1>6. QED BY <1>1, <1>2, <1>3, <1>4, <1>5, OwnObjectKeeps DEF Updating

\* The URL of the outputs is a port, as the stack is at a program.
LEMMA GetOutputsKeeps == ASSUME StacksInv, NEW r, GetOutputs(r) PROVE StacksInv'
<1>1. r \in DOMAIN runs /\ runs[r].at = "outputs" /\ runs[r] \in Run /\ runs[r].task \in Task
      /\ runs[r].id \in Ids
  BY RunFacts DEF GetOutputs, At, StacksInv
<1>2. DebugUrl(r) \in Ports \cup {None}
  BY <1>1 DEF DebugUrl, StacksInv, OutputsInv, Program
<1>3. PICK run \in {[runs[r] EXCEPT !.at = "ok", !.read = TRUE,
                                   !.task = [runs[r].task EXCEPT !.url = DebugUrl(r)]],
                    [runs[r] EXCEPT !.at = "ok"]} :
        runs' = [runs EXCEPT ![r] = run]
  BY <1>1 DEF GetOutputs
<1>4. [runs[r].task EXCEPT !.url = DebugUrl(r)] \in Task
  BY <1>1, <1>2 DEF Task
<1>5. /\ run \in Run /\ run.id = runs[r].id /\ run.at = "ok"
      /\ run.task.type = runs[r].task.type /\ run.task.project = runs[r].task.project
  <2>1. CASE run = [runs[r] EXCEPT !.at = "ok"]
    BY <2>1, <1>1 DEF Run
  <2>2. CASE run = [runs[r] EXCEPT !.at = "ok", !.read = TRUE,
                                   !.task = [runs[r].task EXCEPT !.url = DebugUrl(r)]]
    <3> DEFINE task == [runs[r].task EXCEPT !.url = DebugUrl(r)]
    <3>1. task \in Task /\ task.type = runs[r].task.type /\ task.project = runs[r].task.project
      BY <1>1, <1>4 DEF Task
    <3>2. run = [runs[r] EXCEPT !.at = "ok", !.read = TRUE, !.task = task]
      BY <2>2
    <3> HIDE DEF task
    <3>3. QED BY <3>1, <3>2, <1>1 DEF Run
  <2>3. QED BY <1>3, <2>1, <2>2
<1>6. /\ UNCHANGED <<stacks, starting, listening, chromes>> /\ registered' = registered
      /\ records' = records
  BY DEF GetOutputs, browserVars
<1>7. records' = [records EXCEPT ![runs[r].id] = records[runs[r].id]]
      /\ records[runs[r].id] \in Task \cup {None} /\ registered' \in [Ids -> Nat \cup {None}]
  BY <1>1, <1>6 DEF StacksInv, RunsType
<1>8. QED BY <1>1, <1>3, <1>5, <1>6, <1>7, OwnObjectKeeps DEF Updating

\* Deployments move their own stack, from free to held to given back.
LEMMA MoveKeeps ==
  ASSUME StacksInv, NEW r,
         \/ Deploy(r) \/ UpWithoutResources(r) \/ CreateBrowser(r)
         \/ BrowserReady(r) \/ UpFails(r) \/ UpInterrupted(r)
  PROVE  StacksInv'
<1> USE DEF StacksInv
<1>1. r \in DOMAIN runs
  BY DEF Deploy, UpWithoutResources, CreateBrowser, BrowserReady, UpFails, UpInterrupted, At
<1>2. /\ r \in Nat /\ runs[r] \in Run /\ Stack(r) \in Locked
      /\ StackOf(runs[r].task, runs[r].id) \in Keys /\ ProgramOf(runs[r]) \in Program
      /\ runs[r].id \in Ids /\ PortOf(runs[r].task) \in Ports
      /\ runs[r].at \in Updating => Stack(r).lock = r
      /\ None \notin Nat /\ Stale \notin Nat
      /\ \A lock \in {None, Stale} : [Stack(r) EXCEPT !.lock = lock] \in Locked
      /\ [Stack(r) EXCEPT !.lock = r] \in Locked
  BY <1>1, RunFacts, ProgramTyped, InfraAssumption
     DEF StackHasOneUpdate, Updating, PortOf, Task, Run, Locked
<1> DEFINE Goes(label, stack) ==
             /\ runs' = [runs EXCEPT ![r].at = label]
             /\ stacks' = [stacks EXCEPT ![StackOf(runs[r].task, runs[r].id)] = stack]
             /\ UNCHANGED <<records, registered>>
             /\ \/ label \in Updating /\ stack.lock = r /\ Stack(r).lock \in {None, r}
                \/ label \notin Updating /\ stack.lock \in {None, Stale} /\ Stack(r).lock = r
                \/ label \notin Updating /\ stack.lock = Stack(r).lock /\ runs[r].at \notin Updating
             /\ stack.program \in Program \/ stack.program = Stack(r).program
             /\ label = "outputs" => stack.program \in Program
<1>3. \E label \in {"lacking", "err", "up", "polling", "outputs"}, stack \in Locked : Goes(label, stack)
  <2>1. CASE Deploy(r)
    <3>1. CASE Step(r, "lacking", Stack(r)) \/ Step(r, "err", Stack(r))
      BY <2>1, <3>1, <1>2 DEF Deploy, At, Step, Updating
    <3>2. CASE Stack(r).lock = None /\ Step(r, "up", [Stack(r) EXCEPT !.lock = r])
      BY <2>1, <3>2, <1>2 DEF Step, Updating, Locked
    <3>3. QED BY <2>1, <3>1, <3>2 DEF Deploy
  <2>2. CASE UpWithoutResources(r)
    <3> DEFINE stack == [lock |-> None, program |-> IF runs[r].task.type = "infra" THEN ProgramOf(runs[r])
                                                                               ELSE Stack(r).program]
    <3>1. stack.program \in Program /\ stack \in Locked
      BY <2>2, <1>2 DEF UpWithoutResources, UpToDate, Locked
    <3>2. QED BY <2>2, <3>1, <1>2 DEF UpWithoutResources, At, Step, Updating
  <2>3. CASE CreateBrowser(r)
    <3>1. stacks' = [stacks EXCEPT ![StackOf(runs[r].task, runs[r].id)] = Stack(r)]
      BY <2>3, <1>2 DEF CreateBrowser, Stack, RunsType
    <3>2. QED BY <2>3, <3>1, <1>2 DEF CreateBrowser, At, Updating
  <2>4. CASE BrowserReady(r)
    <3>1. [lock |-> None, program |-> ProgramOf(runs[r])] \in Locked
      BY <1>2 DEF Locked
    <3>2. QED BY <2>4, <3>1, <1>2 DEF BrowserReady, At, Step, Updating
  <2>5. CASE UpFails(r)
    BY <2>5, <1>2 DEF UpFails, Unlocked, At, Step, Updating, Locked
  <2>6. CASE UpInterrupted(r)
    BY <2>6, <1>2 DEF UpInterrupted, At, Step, Updating, Locked
  <2>7. QED BY <2>1, <2>2, <2>3, <2>4, <2>5, <2>6
<1>4. PICK label \in {"lacking", "err", "up", "polling", "outputs"}, stack \in Locked : Goes(label, stack)
  BY <1>3
<1>5. /\ runs' \in Seq(Run) /\ stacks' \in [Keys -> Locked] /\ records' \in [Ids -> Task \cup {None}]
      /\ registered' \in [Ids -> Nat \cup {None}]
      /\ LastInv' /\ OutputsInv' /\ HolderInv' /\ StackHasOneUpdate'
  BY <1>1, <1>4, StepKeeps
<1>6. /\ starting' \subseteq Ids \X Ports /\ listening' = listening /\ chromes' = chromes
  BY <1>2 DEF Deploy, UpWithoutResources, CreateBrowser, BrowserReady, UpFails, UpInterrupted,
              browserVars, RunsType
<1>7. QED BY <1>5, <1>6 DEF RunsType

\* Runs that were in hand are lost, and with them what they held.
LEMMA CrashKeeps == ASSUME StacksInv, Crash PROVE StacksInv'
<1> USE DEF StacksInv
<1>1. \A i \in DOMAIN runs :
        /\ runs'[i] \in Run /\ runs'[i].id = runs[i].id /\ runs'[i].task = runs[i].task
        /\ runs'[i].at \in {"done", "lost"}
  BY RunFacts DEF Crash, Unfinished, Run
<1>2. runs' \in [DOMAIN runs -> Run]
  BY <1>1 DEF Crash
<1>3. runs' \in Seq(Run)
  BY <1>2, SeqOfElements DEF RunsType
<1>4. /\ registered' = [id \in Ids |-> None]
      /\ UNCHANGED <<records, starting, listening, chromes>>
  BY DEF Crash, browserVars
<1>5. PICK lock \in {None, Stale} :
        stacks' = [k \in DOMAIN stacks |-> IF stacks[k].lock = None THEN stacks[k]
                                           ELSE [stacks[k] EXCEPT !.lock = lock]]
  BY DEF Crash
<1>6. \A k \in Keys : stacks'[k] \in Locked /\ stacks'[k].lock \in {None, Stale}
  BY <1>5 DEF RunsType, Locked
<1>7. stacks' \in [Keys -> Locked]
  BY <1>5, <1>6 DEF RunsType
<1>8. RunsType'
  BY <1>3, <1>4, <1>7 DEF RunsType
<1>9. LastInv'
  BY <1>1, <1>2, <1>4, SameRunsKeeps DEF SameRuns
<1>10. \A r \in DOMAIN runs' : runs'[r].at \notin {"up", "polling", "outputs"}
  BY <1>1, <1>2
<1>11. OutputsInv' /\ HolderInv' /\ StackHasOneUpdate'
  BY <1>6, <1>10, InfraAssumption DEF OutputsInv, HolderInv, StackHasOneUpdate
<1>12. QED BY <1>8, <1>9, <1>11

LEMMA StacksStart == Init => StacksInv
<1> SUFFICES ASSUME Init PROVE StacksInv
  OBVIOUS
<1>1. RunsType
  BY DEF Init, RunsType, Locked, Ranks
<1>2. DOMAIN runs = {} /\ (\A id \in Ids : records[id] = None) /\ \A k \in Keys : stacks[k].lock = None
  BY DEF Init
<1>3. LastInv /\ OutputsInv /\ HolderInv /\ StackHasOneUpdate
  BY <1>2, InfraAssumption DEF LastInv, OutputsInv, HolderInv, StackHasOneUpdate
<1>4. QED BY <1>1, <1>3 DEF StacksInv

LEMMA StacksInductive == ASSUME StacksInv, [Next]_vars PROVE StacksInv'
<1>1. CASE \/ RunSubmit
           \/ \E stack \in Names, p \in Projects : DeployInfra(stack, p)
           \/ \E id \in Anonymous, port \in McpPorts : StartBrowser(id, port)
           \/ \E id \in Ids : RestartTask(id)
  BY <1>1, SubmissionsKeep
<1>2. ASSUME NEW id \in Ids, CancelTask(id) PROVE StacksInv'
  BY <1>2, CancelKeeps
<1>3. ASSUME NEW r \in 1..MaxRuns, RunStep(r) PROVE StacksInv'
  BY <1>3, BeginKeeps, FinishKeeps, GetOutputsKeeps, MoveKeeps DEF RunStep
<1>4. CASE Crash
  BY <1>4, CrashKeeps
<1>5. CASE \/ \E id \in Ids, p \in Ports : BrowserListens(id, p)
           \/ \E p \in Ports : ForeignListens(p) \/ BrowserDies(p)
           \/ ChromeInstalled
           \/ InstallerWrites \/ OwnInstallerEnds \/ OwnInstallerFails \/ OrphanEnds
           \/ UNCHANGED vars
  <2>1. UNCHANGED <<records, runs, registered, stacks>>
    BY <1>5 DEF BrowserListens, ForeignListens, BrowserDies, ChromeInstalled, InstallerWrites,
                OwnInstallerEnds, Installed, OwnInstallerFails, OrphanEnds, Setup, vars
  <2>2. /\ starting' \subseteq Ids \X Ports
        /\ listening' \in [Ports -> Ids \cup {Foreign, None, Ended}]
        /\ chromes' \subseteq Ranks
    BY <1>5 DEF BrowserListens, ForeignListens, BrowserDies, ChromeInstalled, InstallerWrites,
                OwnInstallerEnds, Installed, OwnInstallerFails, OrphanEnds, Setup, browserVars,
                vars, StacksInv, RunsType
  <2>3. RunsType'
    BY <2>1, <2>2 DEF StacksInv, RunsType
  <2>4. Quiet /\ LastInv'
    BY <2>1 DEF Quiet, StacksInv, LastInv
  <2>5. QED BY <2>3, <2>4, QuietKeeps DEF StacksInv
<1>6. QED BY <1>1, <1>2, <1>3, <1>4, <1>5 DEF Next

\* A stack has one update at a time, and none after its run has ended.
THEOREM OneUpdatePerStack == Spec => []StackHasOneUpdate
<1>1. StacksInv => StackHasOneUpdate
  BY DEF StacksInv
<1>2. QED BY <1>1, StacksStart, StacksInductive, PTL DEF Spec

-------------------------------------------------------------------------------
\* Once it was logged that Pulumi is there, and without a doubt, it is in PATH and on
\* disk; half of it is on disk only if this process installs it, or in doubt.
PulumiInv == /\ pulumi.own # "none" => ~pulumi.ready
             /\ pulumi.orphans => pulumi.doubt = "spoiled"
             /\ pulumi.disk = "partial" => pulumi.own # "none" \/ pulumi.doubt = "spoiled"
             /\ pulumi.ready /\ pulumi.doubt = "none" => PulumiUsable

Installation == [disk: {"none", "partial", "complete"}, path: BOOLEAN,
                 own: {"none", "home", "homeless"}, orphans: BOOLEAN, ready: BOOLEAN,
                 doubt: {"none", "hollow", "spoiled"}, boots: Nat]

SetupInv == pulumi \in Installation /\ PulumiInv

\* The search for Pulumi on start, after a crash or not.
LEMMA EnsureKeeps ==
  ASSUME NEW p \in Installation, NEW home \in BOOLEAN,
         p.orphans => p.doubt = "spoiled", p.disk = "partial" => p.doubt = "spoiled",
         pulumi' = EnsurePulumi(p, home)
  PROVE  SetupInv'
<1> DEFINE found == home /\ p.disk # "none"
           installer == IF found THEN "none" ELSE IF home THEN "home" ELSE "homeless"
           doubt == IF p.doubt = "hollow" THEN "none" ELSE p.doubt
<1>1. /\ found \in BOOLEAN /\ installer \in {"none", "home", "homeless"}
      /\ doubt \in {"none", "hollow", "spoiled"} /\ (p.doubt = "spoiled" => doubt = "spoiled")
      /\ (installer # "none" <=> ~found) /\ (found => p.disk # "none")
  BY DEF Installation
<1>2. pulumi' = [p EXCEPT !.path = found, !.ready = found, !.own = installer, !.doubt = doubt]
  BY DEF EnsurePulumi
<1> HIDE DEF found, installer, doubt
<1>3. pulumi' \in Installation
  BY <1>1, <1>2 DEF Installation
<1>4. /\ pulumi'.disk = p.disk /\ pulumi'.path = found /\ pulumi'.own = installer
      /\ pulumi'.orphans = p.orphans /\ pulumi'.ready = found /\ pulumi'.doubt = doubt
  BY <1>2 DEF Installation
<1>5. PulumiInv'
  BY <1>1, <1>4 DEF PulumiInv, PulumiUsable, Installation
<1>6. QED BY <1>3, <1>5 DEF SetupInv

LEMMA SetupStart == Init => SetupInv
<1> SUFFICES ASSUME NEW d \in {"none", "complete"}, NEW home \in BOOLEAN,
                    pulumi = EnsurePulumi([disk |-> d, path |-> FALSE, own |-> "none", orphans |-> FALSE,
                                           ready |-> FALSE, doubt |-> "none", boots |-> 1], home)
             PROVE  SetupInv
  BY DEF Init
<1>1. CASE d = "none"
  BY <1>1 DEF EnsurePulumi, SetupInv, Installation, PulumiInv, PulumiUsable
<1>2. CASE d = "complete"
  BY <1>2 DEF EnsurePulumi, SetupInv, Installation, PulumiInv, PulumiUsable
<1>3. QED BY <1>1, <1>2

\* Runs, requests and browsers do not touch Pulumi.
LEMMA OthersKeepPulumi ==
  ASSUME [Next]_vars, pulumi' # pulumi
  PROVE  InstallerWrites \/ OwnInstallerEnds \/ OwnInstallerFails \/ OrphanEnds \/ Crash
<1>1. ASSUME NEW r \in 1..MaxRuns, RunStep(r) PROVE FALSE
  BY <1>1 DEF RunStep, Begin, Deploy, UpWithoutResources, CreateBrowser, BrowserReady, UpFails,
              UpInterrupted, GetOutputs, Finish, Step
<1>2. QED
  BY <1>1 DEF Next, vars, RunSubmit, DeployInfra, StartBrowser, SubmitTask, RestartTask, CancelTask,
              Hand, BrowserListens, ForeignListens, BrowserDies, ChromeInstalled

\* However the installer ends that logs success.
LEMMA InstalledKeeps ==
  ASSUME SetupInv, NEW disk \in {"complete", pulumi.disk}, Installed(disk, pulumi.own = "home")
  PROVE  SetupInv'
<1> USE DEF SetupInv
<1> DEFINE path == pulumi.own = "home"
           doubt == IF disk = "partial" \/ pulumi.doubt = "spoiled" THEN "spoiled"
                    ELSE IF disk = "none" \/ pulumi.own = "homeless" THEN "hollow" ELSE pulumi.doubt
<1>1. /\ path \in BOOLEAN /\ disk \in {"none", "partial", "complete"} /\ pulumi.own # "none"
      /\ doubt \in {"none", "hollow", "spoiled"}
      /\ doubt = "none" => path /\ disk = "complete"
      /\ disk = "partial" \/ pulumi.doubt = "spoiled" => doubt = "spoiled"
  BY DEF Installation, Installed
<1>2. pulumi' = [pulumi EXCEPT !.disk = disk, !.own = "none", !.path = path, !.ready = TRUE,
                               !.doubt = doubt]
  BY DEF Installed, Setup
<1> HIDE DEF path, doubt
<1>3. pulumi' \in Installation
  BY <1>1, <1>2 DEF Installation
<1>4. /\ pulumi'.disk = disk /\ pulumi'.path = path /\ pulumi'.own = "none"
      /\ pulumi'.orphans = pulumi.orphans /\ pulumi'.doubt = doubt
  BY <1>2 DEF Installation
<1>5. PulumiInv'
  BY <1>1, <1>4 DEF PulumiInv, PulumiUsable
<1>6. QED BY <1>3, <1>5

LEMMA SetupInductive == ASSUME SetupInv, [Next]_vars PROVE SetupInv'
<1> USE DEF SetupInv
<1>1. CASE pulumi' = pulumi
  BY <1>1 DEF PulumiInv, PulumiUsable
<1>2. CASE InstallerWrites \/ OwnInstallerFails \/ OrphanEnds
  BY <1>2 DEF InstallerWrites, OwnInstallerFails, OrphanEnds, Setup,
              Installation, PulumiInv, PulumiUsable, Installing
<1>3. CASE OwnInstallerEnds
  BY <1>3, InstalledKeeps DEF OwnInstallerEnds
<1>4. CASE Crash
  <2>1. PICK home \in BOOLEAN :
          pulumi' = EnsurePulumi([pulumi EXCEPT !.orphans = Installing, !.boots = @ + 1,
                                                !.doubt = IF Installing THEN "spoiled" ELSE @], home)
    BY <1>4 DEF Crash
  <2> DEFINE doubt == IF Installing THEN "spoiled" ELSE pulumi.doubt
             boots == pulumi.boots + 1
             p == [pulumi EXCEPT !.orphans = Installing, !.boots = boots, !.doubt = doubt]
  <2>2. /\ Installing \in BOOLEAN /\ doubt \in {"none", "hollow", "spoiled"} /\ boots \in Nat
        /\ (Installing \/ pulumi.disk = "partial" => doubt = "spoiled")
    BY DEF Installation, PulumiInv, Installing
  <2>3. pulumi' = EnsurePulumi(p, home)
    BY <2>1
  <2> HIDE DEF doubt, boots
  <2>4. p \in Installation /\ p.orphans = Installing /\ p.doubt = doubt /\ p.disk = pulumi.disk
    BY <2>2 DEF Installation
  <2> HIDE DEF p
  <2>5. QED BY <2>2, <2>3, <2>4, EnsureKeeps
<1>5. QED BY <1>1, <1>2, <1>3, <1>4, OthersKeepPulumi

\* The variables have their types.
THEOREM StacksTypeCorrect == Spec => []TypeOK
<1>1. StacksInv /\ SetupInv => TypeOK
  BY DEF StacksInv, RunsType, SetupInv, Installation, TypeOK, Locked
<1>2. QED BY <1>1, StacksStart, StacksInductive, SetupStart, SetupInductive, PTL DEF Spec

\* Only the start of a deployment finds that Pulumi is missing.
LEMMA OnlyDeployLacks ==
  ASSUME StacksInv, [Next]_vars, NEW r \in 1..MaxRuns, Lacking(r)', ~Lacking(r)
  PROVE  ~PulumiUsable
<1> USE DEF Lacking, At
<1>1. CASE \/ RunSubmit
           \/ \E stack \in Names, p \in Projects : DeployInfra(stack, p)
           \/ \E id \in Anonymous, port \in McpPorts : StartBrowser(id, port)
           \/ \E id \in Ids : RestartTask(id)
  BY <1>1, SubmissionsKeep DEF Handed
<1>2. ASSUME NEW id \in Ids, CancelTask(id) PROVE FALSE
  BY <1>2, CancelKeeps DEF Handed
<1>3. ASSUME NEW s \in 1..MaxRuns, Deploy(s) PROVE ~PulumiUsable
  <2>1. ASSUME NEW label, label # "lacking", runs' = [runs EXCEPT ![s].at = label] PROVE FALSE
    BY <2>1, RunFacts DEF StacksInv
  <2>2. QED BY <1>3, <2>1 DEF Deploy, Step
<1>4. ASSUME NEW s \in 1..MaxRuns,
             \/ Begin(s) \/ UpWithoutResources(s) \/ CreateBrowser(s) \/ BrowserReady(s)
             \/ UpFails(s) \/ UpInterrupted(s) \/ GetOutputs(s) \/ Finish(s)
      PROVE  FALSE
  <2>1. \A i \in DOMAIN runs : runs[i] \in Run /\ runs[i].task \in Task
    BY RunFacts DEF StacksInv
  <2>2. DOMAIN runs' = DOMAIN runs /\ \A i \in DOMAIN runs : runs'[i].at = "lacking" => runs[i].at = "lacking"
    <3>1. CASE Begin(s) \/ CreateBrowser(s)
      BY <3>1, <2>1 DEF Begin, CreateBrowser, Run
    <3>2. CASE UpWithoutResources(s) \/ BrowserReady(s) \/ UpFails(s) \/ UpInterrupted(s)
      BY <3>2, <2>1 DEF UpWithoutResources, BrowserReady, UpFails, UpInterrupted, Step, Run
    <3>3. CASE GetOutputs(s) \/ Finish(s)
      BY <3>3, <2>1 DEF GetOutputs, Finish, Run
    <3>4. QED BY <1>4, <3>1, <3>2, <3>3
  <2>3. QED BY <2>2
<1>5. CASE Crash
  BY <1>5 DEF Crash, Unfinished
<1>6. CASE runs' = runs
  BY <1>6
<1>7. QED
  BY <1>1, <1>2, <1>3, <1>4, <1>5, <1>6
     DEF Next, RunStep, BrowserListens, ForeignListens, BrowserDies, ChromeInstalled, InstallerWrites,
         OwnInstallerEnds, Installed, OwnInstallerFails, OrphanEnds, Setup, vars

\* Once it is logged that Pulumi is there, deployments find it, unless the installer
\* had been given nothing to run, PATH could not be extended, or an installer stopped
\* half-way or outlived its daemon (setup.go:26, 50, 59).
THEOREM DeploymentsFindPulumi == Spec => PulumiFound
<1> DEFINE Found == \A r \in 1..MaxRuns : Lacking(r)' /\ ~Lacking(r) =>
                      ~pulumi.ready \/ pulumi.doubt # "none"
<1>1. StacksInv /\ SetupInv /\ [Next]_vars => [Found]_vars
  <2> SUFFICES ASSUME StacksInv, SetupInv, [Next]_vars, NEW r \in 1..MaxRuns, Lacking(r)', ~Lacking(r)
               PROVE  ~pulumi.ready \/ pulumi.doubt # "none"
    OBVIOUS
  <2>1. ~PulumiUsable
    BY OnlyDeployLacks
  <2>2. QED BY <2>1 DEF SetupInv, PulumiInv
<1>2. QED BY <1>1, StacksStart, StacksInductive, SetupStart, SetupInductive, PTL DEF Spec, PulumiFound

-------------------------------------------------------------------------------
\* Somebody listens on the port, or has done.
Answers(p) == listening[p] # None

\* A browser is launched by a run of its task, on the port of that run.
Launched == \A id \in Ids, p \in Ports : <<id, p>> \in starting \/ listening[p] = id =>
              \E i \in DOMAIN runs : runs[i].id = id /\ PortOf(runs[i].task) = p

\* The program of a browser's stack was answered, and so was that of a run which
\* has deployed, and of a task that succeeded.
StackAnswers == \A k \in Keys : k[2] = "browser" /\ stacks[k].program # None =>
                  stacks[k].program.port \in Ports /\ Answers(stacks[k].program.port)
RunAnswers == \A r \in DOMAIN runs :
                runs[r].task.type = "browser" /\ runs[r].at \in {"outputs", "ok"} =>
                  Answers(PortOf(runs[r].task))
TaskAnswers == \A id \in Ids : Succeeded(id) /\ records[id].type = "browser" =>
                 Answers(PortOf(records[id]))

BrowserInv == Launched /\ StackAnswers /\ RunAnswers /\ TaskAnswers

\* A step that launches, deploys and finishes nothing.
Calm ==
  /\ UNCHANGED <<starting, listening>>
  /\ \A k \in Keys : stacks'[k].program = stacks[k].program
  /\ DOMAIN runs \subseteq DOMAIN runs'
  /\ \A i \in DOMAIN runs :
       /\ runs'[i].id = runs[i].id
       /\ runs'[i].task.type = runs[i].task.type /\ runs'[i].task.port = runs[i].task.port
       /\ runs'[i].at \in {"outputs", "ok"} => runs[i].at \in {"outputs", "ok"}
  /\ \A i \in DOMAIN runs' \ DOMAIN runs : runs'[i].at = "queued"
  /\ \A id \in Ids : records'[id] # None /\ records'[id].status = "succeeded" => records'[id] = records[id]

LEMMA CalmKeeps == ASSUME BrowserInv, Calm PROVE BrowserInv'
<1> USE DEF BrowserInv
<1>1. Launched'
  BY DEF Calm, Launched, PortOf
<1>2. StackAnswers'
  BY DEF Calm, StackAnswers, Answers
<1>3. RunAnswers'
  BY DEF Calm, RunAnswers, Answers, PortOf
<1>4. TaskAnswers'
  BY DEF Calm, TaskAnswers, Succeeded, Answers, PortOf
<1>5. QED BY <1>1, <1>2, <1>3, <1>4

\* A deployment succeeds with a stack at its program, which was answered.
LEMMA DeployedAnswers ==
  ASSUME StacksInv, BrowserInv, NEW r, UpWithoutResources(r) \/ BrowserReady(r)
  PROVE  BrowserInv'
<1> USE DEF BrowserInv
<1> DEFINE key == StackOf(runs[r].task, runs[r].id)
<1>1. /\ r \in DOMAIN runs /\ runs[r] \in Run /\ runs[r].task \in Task /\ key \in Keys
      /\ key[2] = runs[r].task.type /\ PortOf(runs[r].task) \in Ports
      /\ stacks \in [Keys -> Locked] /\ Stack(r) = stacks[key] /\ Stack(r) \in Locked
  <2>1. r \in DOMAIN runs
    BY DEF UpWithoutResources, BrowserReady, At
  <2>2. QED BY <2>1, RunFacts, InfraAssumption DEF StacksInv, RunsType, Stack, StackOf, PortOf, Task
<1>2. runs[r].task.type = "browser" => ProgramOf(runs[r]).port = PortOf(runs[r].task)
  BY DEF ProgramOf
<1>3. runs[r].task.type = "browser" => Answers(PortOf(runs[r].task))
  <2>1. CASE UpWithoutResources(r) /\ runs[r].task.type = "browser"
    <3>1. stacks[key].program = ProgramOf(runs[r]) /\ ProgramOf(runs[r]) \in Program
      BY <2>1, <1>1, ProgramTyped DEF UpWithoutResources, UpToDate, StacksInv
    <3>2. stacks[key].program # None
      BY <3>1, InfraAssumption DEF Program, Ranks
    <3>3. QED BY <3>1, <3>2, <1>1, <1>2, <2>1 DEF StackAnswers
  <2>2. CASE BrowserReady(r)
    BY <2>2 DEF BrowserReady, Free, Answers
  <2>3. QED BY <2>1, <2>2
<1>4. PICK program \in Program :
        /\ runs' = [runs EXCEPT ![r].at = "outputs"]
        /\ stacks' = [stacks EXCEPT ![key] = [lock |-> None, program |-> program]]
        /\ runs[r].task.type = "browser" => program = ProgramOf(runs[r])
  <2>1. CASE UpWithoutResources(r)
    BY <2>1, <1>1, ProgramTyped DEF UpWithoutResources, UpToDate, Step, StacksInv
  <2>2. CASE BrowserReady(r)
    BY <2>2, <1>1, ProgramTyped DEF BrowserReady, Step, StacksInv
  <2>3. QED BY <2>1, <2>2
<1>5. UNCHANGED <<records, starting, listening>>
  BY DEF UpWithoutResources, BrowserReady, Step, browserVars
<1>6. /\ DOMAIN runs' = DOMAIN runs
      /\ \A i \in DOMAIN runs : /\ runs'[i].id = runs[i].id /\ runs'[i].task = runs[i].task
                                /\ i # r => runs'[i].at = runs[i].at
  <2>1. \A i \in DOMAIN runs : runs[i] \in Run
    BY RunFacts DEF StacksInv
  <2>2. QED BY <2>1, <1>1, <1>4 DEF Run
<1>7. StackAnswers'
  <2> SUFFICES ASSUME NEW k \in Keys, k[2] = "browser", stacks'[k].program # None
               PROVE  (stacks[k].program.port \in Ports /\ Answers(stacks[k].program.port))'
    BY DEF StackAnswers
  <2>1. CASE k = key
    <3>1. stacks'[k].program = ProgramOf(runs[r])
      BY <2>1, <1>1, <1>4
    <3>2. QED BY <2>1, <3>1, <1>1, <1>2, <1>3, <1>5 DEF Answers
  <2>2. CASE k # key
    <3>1. stacks'[k] = stacks[k]
      BY <2>2, <1>1, <1>4
    <3>2. QED BY <3>1, <1>5 DEF StackAnswers, Answers
  <2>3. QED BY <2>1, <2>2
<1>8. RunAnswers'
  BY <1>1, <1>3, <1>5, <1>6 DEF RunAnswers, Answers
<1>9. Launched' /\ TaskAnswers'
  BY <1>5, <1>6 DEF Launched, TaskAnswers, Succeeded, Answers, PortOf
<1>10. QED BY <1>7, <1>8, <1>9

\* The verdict of a run that has deployed a browser.
LEMMA FinishAnswers == ASSUME StacksInv, BrowserInv, NEW r, Finish(r) PROVE BrowserInv'
<1> USE DEF BrowserInv
<1> DEFINE task == [runs[r].task EXCEPT !.status = Verdict(runs[r])]
<1>1. /\ r \in DOMAIN runs /\ runs[r].at \in {"ok", "err", "lacking"} /\ runs[r] \in Run
      /\ runs[r].task \in Task /\ runs[r].id \in Ids
      /\ \A i \in DOMAIN runs : runs[i] \in Run /\ runs[i].task \in Task
  BY RunFacts DEF Finish, StacksInv
<1>2. task.type = runs[r].task.type /\ task.port = runs[r].task.port /\ task.status = Verdict(runs[r])
  BY <1>1 DEF Task
<1>3. /\ runs' = [runs EXCEPT ![r] = [runs[r] EXCEPT !.at = "done", !.task = task]]
      /\ records' = [records EXCEPT ![runs[r].id] = task]
      /\ UNCHANGED <<stacks, starting, listening>>
  BY <1>1 DEF Finish, browserVars
<1>4. records \in [Ids -> Task \cup {None}]
  BY DEF StacksInv, RunsType
<1> HIDE DEF task
<1>5. /\ DOMAIN runs' = DOMAIN runs
      /\ \A i \in DOMAIN runs : /\ runs'[i].id = runs[i].id
                                /\ runs'[i].task.type = runs[i].task.type
                                /\ runs'[i].task.port = runs[i].task.port
                                /\ i # r => runs'[i].at = runs[i].at
                                /\ i = r => runs'[i].at = "done"
  <2>1. runs'[r].id = runs[r].id /\ runs'[r].task = task /\ runs'[r].at = "done"
    BY <1>1, <1>3 DEF Run
  <2>2. QED BY <2>1, <1>1, <1>2, <1>3
<1>6. Launched' /\ StackAnswers' /\ RunAnswers'
  BY <1>3, <1>5 DEF Launched, StackAnswers, RunAnswers, Answers, PortOf
<1>7. TaskAnswers'
  <2> SUFFICES ASSUME NEW id \in Ids, records'[id] # None, records'[id].status = "succeeded",
                      records'[id].type = "browser"
               PROVE  Answers(PortOf(records[id]))'
    BY DEF TaskAnswers, Succeeded, PortOf
  <2>1. CASE id = runs[r].id
    <3>1. records'[id] = task
      BY <2>1, <1>1, <1>3, <1>4
    <3>2. runs[r].at = "ok"
      BY <3>1, <1>2 DEF Verdict
    <3>3. Answers(PortOf(runs[r].task))
      BY <3>1, <3>2, <1>1, <1>2 DEF RunAnswers
    <3>4. QED BY <3>1, <3>3, <1>2, <1>3 DEF Answers, PortOf
  <2>2. CASE id # runs[r].id
    BY <2>2, <1>3, <1>4 DEF TaskAnswers, Succeeded, Answers
  <2>3. QED BY <2>1, <2>2
<1>8. QED BY <1>6, <1>7

LEMMA LaunchKeeps == ASSUME StacksInv, BrowserInv, NEW r, CreateBrowser(r) PROVE BrowserInv'
<1> USE DEF BrowserInv
<1>1. /\ r \in DOMAIN runs
      /\ starting' = starting \cup {<<runs[r].id, PortOf(runs[r].task)>>}
      /\ runs' = [runs EXCEPT ![r].at = "polling"]
      /\ UNCHANGED <<records, stacks, listening>>
  BY DEF CreateBrowser, At
<1>2. /\ DOMAIN runs' = DOMAIN runs
      /\ \A i \in DOMAIN runs : /\ runs'[i].id = runs[i].id /\ runs'[i].task = runs[i].task
                                /\ runs'[i].at \in {"outputs", "ok"} => runs[i].at \in {"outputs", "ok"}
  <2>1. \A i \in DOMAIN runs : runs[i] \in Run
    BY RunFacts DEF StacksInv
  <2>2. QED BY <1>1, <2>1 DEF Run
<1>3. Launched'
  BY <1>1, <1>2 DEF Launched
<1>4. StackAnswers' /\ RunAnswers' /\ TaskAnswers'
  BY <1>1, <1>2 DEF StackAnswers, RunAnswers, TaskAnswers, Succeeded, Answers
<1>5. QED BY <1>3, <1>4

\* A port that was answered once is not as if it never had been.
LEMMA PortsKeep ==
  ASSUME StacksInv, BrowserInv,
         \/ \E id \in Ids, p \in Ports : BrowserListens(id, p)
         \/ \E p \in Ports : ForeignListens(p) \/ BrowserDies(p)
  PROVE  BrowserInv'
<1> USE DEF BrowserInv
<1>1. /\ UNCHANGED <<records, runs, stacks>> /\ starting' \subseteq starting
      /\ \A p \in Ports : Answers(p) => Answers(p)'
      /\ \A id \in Ids, p \in Ports : listening'[p] = id => listening[p] = id \/ <<id, p>> \in starting
  <2>1. /\ listening \in [Ports -> Ids \cup {Foreign, None, Ended}]
        /\ {Foreign, None, Ended} \cap Ids = {} /\ None \notin {Foreign, Ended}
    BY InfraAssumption DEF StacksInv, RunsType
  <2>2. QED BY <2>1 DEF BrowserListens, ForeignListens, BrowserDies, Answers
<1>2. Launched'
  BY <1>1 DEF Launched
<1>3. StackAnswers'
  BY <1>1 DEF StackAnswers
<1>4. RunAnswers'
  <2>1. \A i \in DOMAIN runs : PortOf(runs[i].task) \in Ports
    BY RunFacts, InfraAssumption DEF StacksInv, PortOf, Task
  <2>2. QED BY <1>1, <2>1 DEF RunAnswers
<1>5. TaskAnswers'
  <2>1. \A id \in Ids : Succeeded(id) => PortOf(records[id]) \in Ports
    BY InfraAssumption DEF Succeeded, StacksInv, RunsType, PortOf, Task
  <2>2. QED BY <1>1, <2>1 DEF TaskAnswers, Succeeded
<1>6. QED BY <1>2, <1>3, <1>4, <1>5

\* All other steps are calm.
LEMMA OthersCalm ==
  ASSUME StacksInv, NEW r \in 1..MaxRuns,
         Begin(r) \/ Deploy(r) \/ UpFails(r) \/ UpInterrupted(r) \/ GetOutputs(r)
  PROVE  Calm
<1>1. /\ r \in DOMAIN runs
      /\ \A i \in DOMAIN runs : runs[i] \in Run /\ runs[i].task \in Task /\ runs[i].id \in Ids
      /\ stacks \in [Keys -> Locked] /\ Stack(r) \in Locked /\ StackOf(runs[r].task, runs[r].id) \in Keys
      /\ Stack(r) = stacks[StackOf(runs[r].task, runs[r].id)]
      /\ records \in [Ids -> Task \cup {None}]
  <2>1. r \in DOMAIN runs
    BY DEF Begin, Deploy, UpFails, UpInterrupted, GetOutputs, At
  <2>2. QED BY <2>1, RunFacts DEF StacksInv, RunsType, Stack
<1>2. CASE Begin(r)
  <2> DEFINE task == [runs[r].task EXCEPT !.status = "running"]
  <2>1. task.type = runs[r].task.type /\ task.port = runs[r].task.port /\ task.status = "running"
    BY <1>1 DEF Task
  <2>2. /\ runs' = [runs EXCEPT ![r] = [runs[r] EXCEPT !.at = "deploy", !.task = task]]
        /\ records' = [records EXCEPT ![runs[r].id] = task]
        /\ UNCHANGED <<stacks, starting, listening>>
    BY <1>1, <1>2 DEF Begin, browserVars
  <2> HIDE DEF task
  <2>3. /\ runs'[r].id = runs[r].id /\ runs'[r].task = task /\ runs'[r].at = "deploy"
        /\ \A i \in DOMAIN runs \ {r} : runs'[i] = runs[i]
        /\ DOMAIN runs' = DOMAIN runs
    BY <1>1, <2>2 DEF Run
  <2>4. QED BY <1>1, <2>1, <2>2, <2>3 DEF Calm
<1>3. ASSUME Deploy(r) \/ UpFails(r) \/ UpInterrupted(r) PROVE Calm
  <2>1. PICK label \in {"lacking", "err", "up"}, lock \in Nat \cup {None, Stale} :
          Step(r, label, [Stack(r) EXCEPT !.lock = lock])
    <3>1. Stack(r) = [Stack(r) EXCEPT !.lock = Stack(r).lock] /\ Stack(r).lock \in Nat \cup {None, Stale}
      BY <1>1 DEF Locked
    <3>2. r \in Nat
      OBVIOUS
    <3>3. QED BY <1>3, <3>1, <3>2 DEF Deploy, UpFails, UpInterrupted, Unlocked
  <2>2. /\ runs' = [runs EXCEPT ![r].at = label]
        /\ stacks' = [stacks EXCEPT ![StackOf(runs[r].task, runs[r].id)] = [Stack(r) EXCEPT !.lock = lock]]
        /\ UNCHANGED <<records, starting, listening>>
    BY <1>3, <2>1 DEF Step, Deploy, UpFails, UpInterrupted, browserVars
  <2>3. \A k \in Keys : stacks'[k].program = stacks[k].program
    BY <1>1, <2>2 DEF Locked
  <2>4. /\ DOMAIN runs' = DOMAIN runs
        /\ \A i \in DOMAIN runs : /\ runs'[i].id = runs[i].id /\ runs'[i].task = runs[i].task
                                  /\ runs'[i].at \in {"outputs", "ok"} => runs[i].at \in {"outputs", "ok"}
    BY <1>1, <2>2 DEF Run
  <2>5. QED BY <2>2, <2>3, <2>4 DEF Calm
<1>4. CASE GetOutputs(r)
  <2>1. \A i \in DOMAIN runs :
          /\ runs'[i].id = runs[i].id
          /\ runs'[i].task.type = runs[i].task.type /\ runs'[i].task.port = runs[i].task.port
          /\ runs'[i].at \in {"outputs", "ok"} => runs[i].at \in {"outputs", "ok"}
    BY <1>1, <1>4 DEF GetOutputs, At, Run, Task
  <2>2. QED BY <1>1, <1>4, <2>1 DEF GetOutputs, browserVars, Calm
<1>5. QED BY <1>2, <1>3, <1>4

LEMMA BrowsersInductive == ASSUME StacksInv, BrowserInv, [Next]_vars PROVE BrowserInv'
<1>1. CASE \/ RunSubmit
           \/ \E stack \in Names, p \in Projects : DeployInfra(stack, p)
           \/ \E id \in Anonymous, port \in McpPorts : StartBrowser(id, port)
           \/ \E id \in Ids : RestartTask(id) \/ CancelTask(id)
  <2>1. Handed
    BY <1>1, SubmissionsKeep, CancelKeeps
  <2>2. Calm
    BY <2>1 DEF Handed, Calm
  <2>3. QED BY <2>2, CalmKeeps
<1>2. ASSUME NEW r \in 1..MaxRuns, RunStep(r) PROVE BrowserInv'
  BY <1>2, OthersCalm, CalmKeeps, DeployedAnswers, LaunchKeeps, FinishAnswers DEF RunStep
<1>3. CASE \/ \E id \in Ids, p \in Ports : BrowserListens(id, p)
           \/ \E p \in Ports : ForeignListens(p) \/ BrowserDies(p)
  BY <1>3, PortsKeep
<1>4. CASE \/ ChromeInstalled
           \/ InstallerWrites \/ OwnInstallerEnds \/ OwnInstallerFails \/ OrphanEnds
           \/ UNCHANGED vars
  <2>1. UNCHANGED <<records, runs, stacks, starting, listening>>
    BY <1>4 DEF ChromeInstalled, InstallerWrites, OwnInstallerEnds, Installed, OwnInstallerFails,
                OrphanEnds, Setup, browserVars, vars
  <2>2. Calm
    BY <2>1 DEF Calm
  <2>3. QED BY <2>2, CalmKeeps
<1>5. CASE Crash
  <2>1. \A i \in DOMAIN runs : runs'[i].id = runs[i].id /\ runs'[i].task = runs[i].task
                             /\ runs'[i].at \in {"done", "lost"}
    BY <1>5, RunFacts DEF Crash, Unfinished, Run, StacksInv
  <2>2. \A k \in Keys : stacks'[k].program = stacks[k].program
    BY <1>5 DEF Crash, StacksInv, RunsType, Locked
  <2>3. DOMAIN runs' = DOMAIN runs /\ UNCHANGED <<records, starting, listening>>
    BY <1>5 DEF Crash, browserVars
  <2>4. Calm
    BY <2>1, <2>2, <2>3 DEF Calm
  <2>5. QED BY <2>4, CalmKeeps
<1>6. QED BY <1>1, <1>2, <1>3, <1>4, <1>5 DEF Next

\* On the port of a browser task that succeeded something has answered, and a browser
\* that listens there now is the task's own, or another task asked for the port.  A
\* server that no task has started is taken for a browser (browser.go:35).
THEOREM SuccessHasBrowser == Spec => []BrowserBehindSuccess
<1>1. Init => BrowserInv
  <2> SUFFICES ASSUME Init PROVE BrowserInv
    OBVIOUS
  <2>1. /\ DOMAIN runs = {} /\ starting = {} /\ \A p \in Ports : listening[p] = None
        /\ (\A k \in Keys : stacks[k].program = None) /\ \A id \in Ids : records[id] = None
    BY DEF Init
  <2>2. QED BY <2>1, InfraAssumption
            DEF BrowserInv, Launched, StackAnswers, RunAnswers, TaskAnswers, Succeeded
<1>2. StacksInv /\ BrowserInv => BrowserBehindSuccess
  <2> SUFFICES ASSUME StacksInv, BrowserInv, NEW id \in Ids, Succeeded(id), records[id].type = "browser"
               PROVE  LET port == PortOf(records[id])
                      IN /\ listening[port] # None
                         /\ \/ listening[port] \in {id, Foreign, Ended}
                            \/ \E i \in DOMAIN runs \ RunsOf(id) : PortOf(runs[i].task) = port
    BY DEF BrowserBehindSuccess
  <2> DEFINE port == PortOf(records[id])
  <2>1. listening[port] # None
    BY DEF BrowserInv, TaskAnswers, Answers
  <2>2. port \in Ports
    BY InfraAssumption DEF Succeeded, StacksInv, RunsType, PortOf, Task
  <2>3. CASE listening[port] \in Ids
    <3>1. PICK i \in DOMAIN runs : runs[i].id = listening[port] /\ PortOf(runs[i].task) = port
      BY <2>2, <2>3 DEF BrowserInv, Launched
    <3>2. QED BY <2>1, <3>1 DEF RunsOf
  <2>4. CASE listening[port] \in {Foreign, Ended}
    BY <2>1, <2>4
  <2>5. QED BY <2>1, <2>2, <2>3, <2>4 DEF StacksInv, RunsType
<1>3. QED BY <1>1, <1>2, StacksStart, StacksInductive, BrowsersInductive, PTL DEF Spec
-------------------------------------------------------------------------------
(* What is deployed is what was asked for.                                 *)

\* A run has deployed, and its stack is at the program the run wanted.
Deployed(run) == \/ run.at \in {"outputs", "ok"}
                 \/ run.at = "done" /\ run.task.status = "succeeded"
AtProgram(r) == /\ Stack(r).program # None
                /\ runs[r].task.type = "browser" => Stack(r).program.port = PortOf(runs[r].task)

\* The port is that of the last request for the task that named one.
PortAsked(id, port) ==
  \/ port = None /\ \A i \in RunsOf(id) : runs[i].request.port = None
  \/ port # None /\ \E i \in RunsOf(id) :
                      /\ runs[i].request.port = port
                      /\ \A j \in RunsOf(id) : runs[j].request.port # None => j <= i

Last(id, m) == m \in RunsOf(id) /\ \A j \in RunsOf(id) : j <= m

\* Of the runs of a task that were one after the other, only the last may be in
\* hand; the record is at its port, and succeeds by its verdict only.
Asked(id, m) ==
  /\ \A j \in RunsOf(id) : j # m => ~Unfinished(runs[j])
  /\ records[id] # None /\ records[id].port = runs[m].task.port
  /\ PortAsked(id, runs[m].task.port)
  /\ Succeeded(id) => runs[m].at = "done" /\ runs[m].task = records[id]
  /\ Deployed(runs[m]) => AtProgram(m)
  /\ runs[m].read => runs[m].task.url = PortOf(runs[m].task)

AskedOf(id) == Orderly(id) => \A m : Last(id, m) => Asked(id, m)
AskedInv == \A id \in Ids : AskedOf(id)

\* The kind of a task is that of a request for it.
Requested(id, type, project) ==
  \E j \in RunsOf(id) : runs[j].request.type = type /\ runs[j].request.project = project
KindInv == \A i \in DOMAIN runs :
             LET record == records[runs[i].id]
             IN /\ record # None
                /\ record.type = runs[i].task.type /\ record.project = runs[i].task.project
                /\ Requested(runs[i].id, record.type, record.project)

\* A URL, and the program of a browser's stack, is that of a run of the task.
Owned(id, port) == \E i \in RunsOf(id) : PortOf(runs[i].task) = port
UrlInv ==
  /\ \A k \in Keys : k[2] = "browser" /\ stacks[k].program # None => Owned(k[3], stacks[k].program.port)
  /\ \A r \in DOMAIN runs : runs[r].task.url # None => Owned(runs[r].id, runs[r].task.url)
  /\ \A id \in Ids : records[id] # None /\ records[id].url # None => Owned(id, records[id].url)

WantedInv == AskedInv /\ KindInv /\ UrlInv

-------------------------------------------------------------------------------
(* The three kinds of steps, seen from the runs.                           *)

\* A request is answered with a new run: a task that is new is what was asked for,
\* another takes over the port, or that of its record stays.
Asks(id, task, request) ==
  /\ Hand(id, task, request)
  /\ task.status = "pending"
  /\ \/ /\ records[id] = None /\ task.url = None
        /\ task.type = request.type /\ task.project = request.project /\ task.port = request.port
     \/ /\ records[id] # None /\ task.url = records[id].url
        /\ task.type = records[id].type /\ task.project = records[id].project
        /\ \/ request.port = None /\ task.port = records[id].port
           \/ request.port # None /\ task.port = request.port
           \/ request = runs[LastRun(id)].request /\ task.port = records[id].port

LEMMA SubmitAsks ==
  ASSUME StacksInv, NEW q \in Request, SubmitTask(q)
  PROVE  \E id \in Ids, task \in Task, request \in Request : Asks(id, task, request)
<1>1. q.id \in Ids
  BY DEF Request
<1>2. CASE records[q.id] = None
  <2> DEFINE task == NewTask(q)
  <2>1. /\ task \in Task /\ task.status = "pending" /\ task.url = None
        /\ task.type = q.type /\ task.project = q.project /\ task.port = q.port
    BY DEF NewTask, Task, Request
  <2>2. Hand(q.id, task, q)
    BY <1>2 DEF SubmitTask
  <2> HIDE DEF task
  <2>3. Asks(q.id, task, q)
    BY <1>2, <2>1, <2>2 DEF Asks
  <2>4. QED BY <1>1, <2>1, <2>3
<1>3. CASE records[q.id] # None
  <2> DEFINE task == Merged(records[q.id], q)
  <2>1. records[q.id] \in Task /\ q.port \in Ports \cup {None}
    BY <1>1, <1>3 DEF StacksInv, RunsType, Request
  <2>2. /\ task \in Task /\ task.status = "pending" /\ task.url = records[q.id].url
        /\ task.type = records[q.id].type /\ task.project = records[q.id].project
        /\ task.port = IF q.port = None THEN records[q.id].port ELSE q.port
    BY <2>1 DEF Merged, Task
  <2>3. Hand(q.id, task, q)
    BY <1>3 DEF SubmitTask
  <2> HIDE DEF task
  <2>4. Asks(q.id, task, q)
    BY <1>3, <2>2, <2>3 DEF Asks
  <2>5. QED BY <1>1, <2>2, <2>4
<1>4. QED BY <1>2, <1>3

LEMMA SubmissionsAsk ==
  ASSUME StacksInv,
         \/ RunSubmit
         \/ \E stack \in Names, p \in Projects : DeployInfra(stack, p)
         \/ \E id \in Anonymous, port \in McpPorts : StartBrowser(id, port)
         \/ \E id \in Ids : RestartTask(id)
  PROVE  \E id \in Ids, task \in Task, request \in Request : Asks(id, task, request)
<1> DEFINE Goal == \E id \in Ids, task \in Task, request \in Request : Asks(id, task, request)
<1>1. CASE RunSubmit
  BY <1>1, SubmitAsks, InfraAssumption DEF RunSubmit
<1>2. ASSUME NEW stack \in Names, NEW p \in Projects, DeployInfra(stack, p) PROVE Goal
  <2>1. [id |-> stack, type |-> "infra", project |-> p, port |-> None] \in Request
    BY DEF Request, Ids
  <2>2. QED BY <1>2, <2>1, SubmitAsks DEF DeployInfra
<1>3. ASSUME NEW id \in Anonymous, NEW port \in McpPorts, StartBrowser(id, port) PROVE Goal
  <2>1. [id |-> id, type |-> "browser", project |-> None,
         port |-> IF port = None THEN DefaultPort ELSE port] \in Request
    BY InfraAssumption DEF Request, Ids
  <2>2. QED BY <1>3, <2>1, SubmitAsks DEF StartBrowser
<1>4. ASSUME NEW id \in Ids, RestartTask(id) PROVE Goal
  <2> DEFINE task == [records[id] EXCEPT !.status = "pending"]
             request == runs[LastRun(id)].request
  <2>1. records[id] \in Task /\ records[id] # None /\ Hand(id, task, request)
    BY <1>4 DEF RestartTask, StacksInv, RunsType
  <2>2. LastRun(id) \in DOMAIN runs
    BY <1>4 DEF RestartTask, StacksInv, LastInv, LastRun
  <2>3. request \in Request
    BY <2>2, RunFacts DEF StacksInv, Run
  <2>4. /\ task \in Task /\ task.status = "pending" /\ task.url = records[id].url
        /\ task.type = records[id].type /\ task.project = records[id].project
        /\ task.port = records[id].port
    BY <2>1 DEF Task
  <2>5. Asks(id, task, request)
    <3>1. request = runs[LastRun(id)].request
      OBVIOUS
    <3> HIDE DEF task, request
    <3>2. QED BY <2>1, <2>4, <3>1 DEF Asks
  <2>6. QED BY <2>3, <2>4, <2>5
<1>5. QED BY <1>1, <1>2, <1>3, <1>4

\* What a request leaves behind: run n, after all others.
Added(id, task, request, n) ==
  /\ UNCHANGED stacks /\ records'[id] = task /\ \A d \in Ids \ {id} : records'[d] = records[d]
  /\ n \in Nat \ DOMAIN runs /\ DOMAIN runs' = DOMAIN runs \cup {n}
  /\ runs'[n].id = id /\ runs'[n].task = task /\ runs'[n].request = request
  /\ runs'[n].at = "queued" /\ ~runs'[n].read
  /\ runs'[n].alone => \A i \in RunsOf(id) : ~Unfinished(runs[i])
  /\ \A i \in DOMAIN runs :
       /\ i < n
       /\ runs'[i].id = runs[i].id /\ runs'[i].task = runs[i].task /\ runs'[i].at = runs[i].at
       /\ runs'[i].request = runs[i].request /\ runs'[i].read = runs[i].read
       /\ runs'[i].alone => runs[i].alone

LEMMA AsksFacts ==
  ASSUME StacksInv, NEW id \in Ids, NEW task \in Task, NEW request \in Request, Asks(id, task, request)
  PROVE  \E n : Added(id, task, request, n)
<1> DEFINE flag(i) == Signalled(id)[i].alone /\ ~(runs[i].id = id /\ Unfinished(runs[i]))
           before == [i \in DOMAIN runs |-> [Signalled(id)[i] EXCEPT !.alone = flag(i)]]
           busy == \E i \in DOMAIN runs : runs[i].id = id /\ Unfinished(runs[i])
           new == [id |-> id, request |-> request, task |-> task, at |-> "queued",
                   cancelled |-> FALSE, alone |-> ~busy, read |-> FALSE]
<1>1. runs' = Append(before, new) /\ records' = [records EXCEPT ![id] = task] /\ UNCHANGED stacks
  BY DEF Asks, Hand
<1>2. new \in Run /\ DOMAIN before = DOMAIN runs
  BY DEF Run
<1>3. \A i \in DOMAIN runs :
        /\ before[i] \in Run
        /\ before[i].id = runs[i].id /\ before[i].task = runs[i].task /\ before[i].at = runs[i].at
        /\ before[i].request = runs[i].request /\ before[i].read = runs[i].read
        /\ before[i].alone => runs[i].alone
  <2> SUFFICES ASSUME NEW i \in DOMAIN runs
               PROVE  /\ before[i] \in Run
                      /\ before[i].id = runs[i].id /\ before[i].task = runs[i].task
                      /\ before[i].at = runs[i].at
                      /\ before[i].request = runs[i].request /\ before[i].read = runs[i].read
                      /\ before[i].alone => runs[i].alone
    OBVIOUS
  <2> DEFINE sent == Signalled(id)[i]
  <2>1. /\ sent \in Run /\ sent.id = runs[i].id /\ sent.task = runs[i].task /\ sent.at = runs[i].at
        /\ sent.request = runs[i].request /\ sent.read = runs[i].read /\ sent.alone = runs[i].alone
    BY SignalledRuns DEF StacksInv
  <2>2. before[i] = [sent EXCEPT !.alone = flag(i)] /\ flag(i) \in BOOLEAN /\ (flag(i) => sent.alone)
    OBVIOUS
  <2> HIDE DEF before, flag, sent
  <2>3. ASSUME NEW x \in Run, NEW b \in BOOLEAN
        PROVE  LET y == [x EXCEPT !.alone = b]
               IN /\ y \in Run /\ y.id = x.id /\ y.task = x.task /\ y.at = x.at
                  /\ y.request = x.request /\ y.read = x.read /\ y.alone = b
    BY DEF Run
  <2>4. QED BY <2>1, <2>2, <2>3
<1>4. before \in Seq(Run)
  <2>1. before \in [DOMAIN runs -> Run]
    BY <1>3
  <2>2. QED BY <2>1, SeqOfElements DEF StacksInv, RunsType
<1>5. /\ new.id = id /\ new.task = task /\ new.request = request /\ new.at = "queued" /\ ~new.read
      /\ new.alone => \A i \in RunsOf(id) : ~Unfinished(runs[i])
  BY DEF RunsOf
<1> HIDE DEF before, new, flag, busy
<1>6. /\ DOMAIN runs' = DOMAIN runs \cup {Len(before) + 1} /\ runs'[Len(before) + 1] = new
      /\ \A i \in DOMAIN runs : runs'[i] = before[i] /\ i <= Len(before) /\ i \in Nat
      /\ Len(before) \in Nat
  BY <1>1, <1>2, <1>4, SeqOneMore
<1>7. /\ Len(before) + 1 \in Nat \ DOMAIN runs
      /\ \A i \in DOMAIN runs : i < Len(before) + 1
  BY <1>6
<1>8. records'[id] = task /\ \A d \in Ids \ {id} : records'[d] = records[d]
  BY <1>1 DEF StacksInv, RunsType
<1>9. Added(id, task, request, Len(before) + 1)
  BY <1>1, <1>3, <1>5, <1>6, <1>7, <1>8 DEF Added
<1>10. QED BY <1>9

\* A run takes a step: its own object, its own stack and its own record change.
\* It comes to have deployed only with its stack at its program, and a URL is
\* read off that stack.
Moved(r) ==
  LET id == runs[r].id
      key == StackOf(runs[r].task, id)
  IN /\ r \in DOMAIN runs /\ Unfinished(runs[r])
     /\ DOMAIN runs' = DOMAIN runs
     /\ \A i \in DOMAIN runs \ {r} : runs'[i] = runs[i]
     /\ runs'[r].id = id /\ runs'[r].request = runs[r].request /\ runs'[r].alone = runs[r].alone
     /\ runs'[r].task.type = runs[r].task.type /\ runs'[r].task.project = runs[r].task.project
     /\ runs'[r].task.port = runs[r].task.port
     /\ \/ runs'[r].read = runs[r].read /\ runs'[r].task.url = runs[r].task.url
        \/ runs[r].at = "outputs" /\ runs[r].task.type = "browser" /\ runs'[r].task.url = DebugUrl(r)
     /\ \A d \in Ids \ {id} : records'[d] = records[d]
     /\ records'[id] = records[id] \/ records'[id] = runs'[r].task
     /\ Succeeded(id)' => Succeeded(id) \/ (runs'[r].at = "done" /\ records'[id] = runs'[r].task)
     /\ \A k \in Keys \ {key} : stacks'[k] = stacks[k]
     /\ stacks'[key].program \in {stacks[key].program, ProgramOf(runs[r])}
     /\ Deployed(runs'[r]) =>
          \/ Deployed(runs[r]) /\ stacks'[key] = stacks[key]
          \/ AtProgram(r)'

\* Steps up to the outputs: the run's place and stack.
LEMMA PlaceMoves ==
  ASSUME StacksInv, NEW r, r \in DOMAIN runs, Unfinished(runs[r]),
         NEW label \in {"lacking", "err", "up", "polling", "outputs"}, NEW stack \in Locked,
         runs' = [runs EXCEPT ![r].at = label],
         stacks' = [stacks EXCEPT ![StackOf(runs[r].task, runs[r].id)] = stack],
         records' = records,
         stack.program \in {Stack(r).program, ProgramOf(runs[r])},
         label = "outputs" => /\ stack.program # None
                              /\ runs[r].task.type = "browser" => stack.program = ProgramOf(runs[r])
  PROVE  Moved(r)
<1> DEFINE key == StackOf(runs[r].task, runs[r].id)
<1>1. /\ runs[r] \in Run /\ runs[r].id \in Ids /\ key \in Keys /\ stacks \in [Keys -> Locked]
      /\ Stack(r) = stacks[key]
  BY RunFacts DEF StacksInv, RunsType, Stack
<1>2. /\ DOMAIN runs' = DOMAIN runs /\ \A i \in DOMAIN runs \ {r} : runs'[i] = runs[i]
      /\ runs'[r].id = runs[r].id /\ runs'[r].task = runs[r].task
      /\ runs'[r].request = runs[r].request /\ runs'[r].alone = runs[r].alone
      /\ runs'[r].read = runs[r].read /\ runs'[r].at = label
  BY <1>1 DEF Run
<1>3. stacks'[key] = stack /\ \A k \in Keys \ {key} : stacks'[k] = stacks[k]
  BY <1>1
<1>4. Stack(r)' = stack
  BY <1>2, <1>3 DEF Stack
<1>5. Deployed(runs'[r]) => AtProgram(r)'
  <2>1. runs[r].task.type = "browser" => ProgramOf(runs[r]).port = PortOf(runs[r].task)
    BY DEF ProgramOf
  <2>2. Deployed(runs'[r]) => label = "outputs"
    BY <1>2 DEF Deployed
  <2>3. QED BY <1>2, <1>4, <2>1, <2>2 DEF AtProgram
<1>6. Succeeded(runs[r].id)' => Succeeded(runs[r].id)
  BY <1>2 DEF Succeeded
<1>7. QED BY <1>1, <1>2, <1>3, <1>5, <1>6 DEF Moved

\* Steps of the run's own object.
LEMMA ObjectMoves ==
  ASSUME StacksInv, NEW r, Begin(r) \/ GetOutputs(r) \/ Finish(r)
  PROVE  Moved(r)
<1>1. /\ r \in DOMAIN runs /\ runs[r].at \in {"queued", "outputs", "ok", "err", "lacking"}
      /\ Unfinished(runs[r])
  BY DEF Begin, GetOutputs, Finish, At, Unfinished
<1>2. /\ runs[r] \in Run /\ runs[r].task \in Task /\ runs[r].id \in Ids
      /\ StackOf(runs[r].task, runs[r].id) \in Keys /\ records \in [Ids -> Task \cup {None}]
  BY <1>1, RunFacts DEF StacksInv, RunsType
<1>3. UNCHANGED stacks
  BY DEF Begin, GetOutputs, Finish
<1>4. CASE Begin(r)
  <2> DEFINE task == [runs[r].task EXCEPT !.status = "running"]
  <2>1. /\ task.type = runs[r].task.type /\ task.project = runs[r].task.project
        /\ task.port = runs[r].task.port /\ task.url = runs[r].task.url /\ task.status = "running"
    BY <1>2 DEF Task
  <2>2. /\ runs' = [runs EXCEPT ![r] = [runs[r] EXCEPT !.at = "deploy", !.task = task]]
        /\ records' = [records EXCEPT ![runs[r].id] = task]
    BY <1>1, <1>4 DEF Begin
  <2> HIDE DEF task
  <2>3. /\ runs'[r].id = runs[r].id /\ runs'[r].task = task /\ runs'[r].at = "deploy"
        /\ runs'[r].request = runs[r].request /\ runs'[r].alone = runs[r].alone
        /\ runs'[r].read = runs[r].read
        /\ DOMAIN runs' = DOMAIN runs /\ \A i \in DOMAIN runs \ {r} : runs'[i] = runs[i]
        /\ records'[runs[r].id] = task /\ \A d \in Ids \ {runs[r].id} : records'[d] = records[d]
    BY <1>1, <1>2, <2>2 DEF Run
  <2>4. ~Deployed(runs'[r]) /\ ~Succeeded(runs[r].id)'
    BY <2>1, <2>3 DEF Deployed, Succeeded
  <2>5. QED BY <1>1, <1>2, <1>3, <2>1, <2>3, <2>4 DEF Moved
<1>5. CASE GetOutputs(r)
  <2>1. /\ runs'[r].id = runs[r].id /\ runs'[r].at = "ok"
        /\ runs'[r].request = runs[r].request /\ runs'[r].alone = runs[r].alone
        /\ runs'[r].task.type = runs[r].task.type /\ runs'[r].task.project = runs[r].task.project
        /\ runs'[r].task.port = runs[r].task.port
        /\ DOMAIN runs' = DOMAIN runs /\ \A i \in DOMAIN runs \ {r} : runs'[i] = runs[i]
        /\ \/ runs'[r].read = runs[r].read /\ runs'[r].task.url = runs[r].task.url
           \/ runs[r].task.type = "browser" /\ runs'[r].task.url = DebugUrl(r)
    BY <1>1, <1>2, <1>5 DEF GetOutputs, Run, Task
  <2>2. records' = records /\ runs[r].at = "outputs"
    BY <1>5 DEF GetOutputs, At
  <2>3. Deployed(runs[r]) /\ (Succeeded(runs[r].id)' => Succeeded(runs[r].id))
    BY <2>1, <2>2 DEF Deployed, Succeeded
  <2>4. QED BY <1>1, <1>2, <1>3, <2>1, <2>2, <2>3 DEF Moved
<1>6. CASE Finish(r)
  <2> DEFINE task == [runs[r].task EXCEPT !.status = Verdict(runs[r])]
  <2>1. /\ task.type = runs[r].task.type /\ task.project = runs[r].task.project
        /\ task.port = runs[r].task.port /\ task.url = runs[r].task.url
        /\ task.status = Verdict(runs[r])
    BY <1>2 DEF Task
  <2>2. /\ runs' = [runs EXCEPT ![r] = [runs[r] EXCEPT !.at = "done", !.task = task]]
        /\ records' = [records EXCEPT ![runs[r].id] = task]
    BY <1>1, <1>6 DEF Finish
  <2> HIDE DEF task
  <2>3. /\ runs'[r].id = runs[r].id /\ runs'[r].task = task /\ runs'[r].at = "done"
        /\ runs'[r].request = runs[r].request /\ runs'[r].alone = runs[r].alone
        /\ runs'[r].read = runs[r].read
        /\ DOMAIN runs' = DOMAIN runs /\ \A i \in DOMAIN runs \ {r} : runs'[i] = runs[i]
        /\ records'[runs[r].id] = task /\ \A d \in Ids \ {runs[r].id} : records'[d] = records[d]
    BY <1>1, <1>2, <2>2 DEF Run
  <2>4. Deployed(runs'[r]) => Deployed(runs[r])
    BY <2>1, <2>3 DEF Deployed, Verdict
  <2>5. QED BY <1>1, <1>2, <1>3, <2>1, <2>3, <2>4 DEF Moved
<1>7. QED BY <1>4, <1>5, <1>6

LEMMA RunMoves == ASSUME StacksInv, NEW r \in 1..MaxRuns, RunStep(r) PROVE Moved(r)
<1>1. CASE Begin(r) \/ GetOutputs(r) \/ Finish(r)
  BY <1>1, ObjectMoves
<1>2. CASE \/ Deploy(r) \/ UpWithoutResources(r) \/ CreateBrowser(r)
           \/ BrowserReady(r) \/ UpFails(r) \/ UpInterrupted(r)
  <2>1. r \in DOMAIN runs /\ Unfinished(runs[r])
    BY <1>2 DEF Deploy, UpWithoutResources, CreateBrowser, BrowserReady, UpFails, UpInterrupted,
                At, Unfinished
  <2>2. /\ r \in Nat /\ runs[r] \in Run /\ Stack(r) \in Locked /\ ProgramOf(runs[r]) \in Program
        /\ Stack(r) = stacks[StackOf(runs[r].task, runs[r].id)] /\ stacks \in [Keys -> Locked]
        /\ StackOf(runs[r].task, runs[r].id) \in Keys
    BY <2>1, RunFacts, ProgramTyped DEF StacksInv, RunsType, Stack
  <2>3. None \notin Program
    BY InfraAssumption DEF Program, Ranks
  <2>4. \A lock \in Nat \cup {None, Stale} :
          /\ [Stack(r) EXCEPT !.lock = lock] \in Locked
          /\ [Stack(r) EXCEPT !.lock = lock].program = Stack(r).program
    BY <2>2 DEF Locked
  <2> DEFINE Goes(label, stack) ==
               /\ runs' = [runs EXCEPT ![r].at = label]
               /\ stacks' = [stacks EXCEPT ![StackOf(runs[r].task, runs[r].id)] = stack]
               /\ records' = records
               /\ stack.program \in {Stack(r).program, ProgramOf(runs[r])}
               /\ label = "outputs" =>
                    /\ stack.program # None
                    /\ runs[r].task.type = "browser" => stack.program = ProgramOf(runs[r])
  <2>5. \E label \in {"lacking", "err", "up", "polling", "outputs"}, stack \in Locked : Goes(label, stack)
    <3>1. CASE Deploy(r) \/ UpFails(r) \/ UpInterrupted(r)
      <4>1. PICK label \in {"lacking", "err", "up"}, lock \in Nat \cup {None, Stale} :
              Step(r, label, [Stack(r) EXCEPT !.lock = lock])
        <5>1. Stack(r) = [Stack(r) EXCEPT !.lock = Stack(r).lock] /\ Stack(r).lock \in Nat \cup {None, Stale}
          BY <2>2 DEF Locked
        <5>2. QED BY <3>1, <5>1, <2>2 DEF Deploy, UpFails, UpInterrupted, Unlocked
      <4>2. Goes(label, [Stack(r) EXCEPT !.lock = lock])
        BY <4>1, <2>4 DEF Step
      <4>3. QED BY <4>2, <2>4
    <3>2. CASE UpWithoutResources(r)
      <4> DEFINE stack == [lock |-> None, program |-> IF runs[r].task.type = "infra" THEN ProgramOf(runs[r])
                                                                                 ELSE Stack(r).program]
      <4>1. /\ stack \in Locked /\ stack.program \in {Stack(r).program, ProgramOf(runs[r])}
            /\ stack.program = ProgramOf(runs[r])
        BY <3>2, <2>2 DEF UpWithoutResources, UpToDate, Locked
      <4>2. Goes("outputs", stack)
        BY <3>2, <4>1, <2>2, <2>3 DEF UpWithoutResources, Step
      <4>3. QED BY <4>1, <4>2
    <3>3. CASE CreateBrowser(r)
      <4>1. stacks' = [stacks EXCEPT ![StackOf(runs[r].task, runs[r].id)] = Stack(r)]
        BY <3>3, <2>2 DEF CreateBrowser
      <4>2. Goes("polling", Stack(r))
        BY <3>3, <4>1 DEF CreateBrowser
      <4>3. QED BY <4>2, <2>2
    <3>4. CASE BrowserReady(r)
      <4> DEFINE stack == [lock |-> None, program |-> ProgramOf(runs[r])]
      <4>1. stack \in Locked /\ stack.program = ProgramOf(runs[r])
        BY <2>2 DEF Locked
      <4>2. Goes("outputs", stack)
        BY <3>4, <4>1, <2>2, <2>3 DEF BrowserReady, Step
      <4>3. QED BY <4>1, <4>2
    <3>5. QED BY <1>2, <3>1, <3>2, <3>3, <3>4
  <2>6. PICK label \in {"lacking", "err", "up", "polling", "outputs"}, stack \in Locked : Goes(label, stack)
    BY <2>5
  <2>7. QED BY <2>1, <2>6, PlaceMoves
<1>3. QED BY <1>1, <1>2 DEF RunStep

\* All else: runs are lost, records cancelled, and browsers and Pulumi go their way.
Kept ==
  /\ DOMAIN runs' = DOMAIN runs
  /\ \A i \in DOMAIN runs :
       /\ runs'[i].id = runs[i].id /\ runs'[i].task = runs[i].task /\ runs'[i].request = runs[i].request
       /\ runs'[i].alone = runs[i].alone /\ runs'[i].read = runs[i].read
       /\ runs'[i].at = runs[i].at \/ (Unfinished(runs[i]) /\ runs'[i].at = "lost")
  /\ \A k \in Keys : stacks'[k].program = stacks[k].program
  /\ \A id \in Ids : \/ records'[id] = records[id]
                     \/ /\ records[id] # None /\ records'[id] # None
                        /\ records'[id].type = records[id].type
                        /\ records'[id].project = records[id].project
                        /\ records'[id].port = records[id].port /\ records'[id].url = records[id].url
                        /\ records'[id].status = "cancelled"

LEMMA OthersKept ==
  ASSUME StacksInv,
         \/ \E id \in Ids : CancelTask(id)
         \/ \E id \in Ids, p \in Ports : BrowserListens(id, p)
         \/ \E p \in Ports : ForeignListens(p) \/ BrowserDies(p)
         \/ ChromeInstalled
         \/ InstallerWrites \/ OwnInstallerEnds \/ OwnInstallerFails \/ OrphanEnds
         \/ Crash \/ UNCHANGED vars
  PROVE  Kept
<1>1. ASSUME NEW id \in Ids, CancelTask(id) PROVE Kept
  <2> DEFINE record == [records[id] EXCEPT !.status = "cancelled"]
  <2>1. /\ records[id] # None /\ records[id] \in Task /\ records' = [records EXCEPT ![id] = record]
        /\ runs' = Signalled(id) /\ UNCHANGED stacks
    BY <1>1 DEF CancelTask, StacksInv, RunsType
  <2>2. /\ record \in Task /\ record.type = records[id].type /\ record.project = records[id].project
        /\ record.port = records[id].port /\ record.url = records[id].url /\ record.status = "cancelled"
    BY <2>1 DEF Task
  <2> HIDE DEF record
  <2>3. record # None
    BY <2>2, InfraAssumption
  <2>4. records'[id] = record /\ \A d \in Ids \ {id} : records'[d] = records[d]
    BY <2>1 DEF StacksInv, RunsType
  <2>5. QED BY <2>1, <2>2, <2>3, <2>4, SignalledRuns DEF Kept, StacksInv
<1>2. CASE Crash
  <2>1. \A i \in DOMAIN runs :
          /\ runs'[i].id = runs[i].id /\ runs'[i].task = runs[i].task
          /\ runs'[i].request = runs[i].request /\ runs'[i].alone = runs[i].alone
          /\ runs'[i].read = runs[i].read
          /\ runs'[i].at = runs[i].at \/ (Unfinished(runs[i]) /\ runs'[i].at = "lost")
    BY <1>2, RunFacts DEF Crash, Run, StacksInv
  <2>2. \A k \in Keys : stacks'[k].program = stacks[k].program
    BY <1>2 DEF Crash, StacksInv, RunsType, Locked
  <2>3. DOMAIN runs' = DOMAIN runs /\ UNCHANGED records
    BY <1>2 DEF Crash
  <2>4. QED BY <2>1, <2>2, <2>3 DEF Kept
<1>3. CASE UNCHANGED <<records, runs, stacks>>
  BY <1>3 DEF Kept
<1>4. QED BY <1>1, <1>2, <1>3 DEF BrowserListens, ForeignListens, BrowserDies, ChromeInstalled,
              InstallerWrites, OwnInstallerEnds, Installed, OwnInstallerFails, OrphanEnds, Setup, vars

-------------------------------------------------------------------------------
\* Runs keep their task's id and port, so that what was a run's stays one's.
RunsStay == /\ DOMAIN runs \subseteq DOMAIN runs'
            /\ \A i \in DOMAIN runs : /\ runs'[i].id = runs[i].id
                                      /\ runs'[i].task.port = runs[i].task.port
                                      /\ runs'[i].task.type = runs[i].task.type
                                      /\ runs'[i].task.project = runs[i].task.project
                                      /\ runs'[i].request = runs[i].request

LEMMA OwnedStays ==
  ASSUME RunsStay, NEW id, NEW port, Owned(id, port) PROVE Owned(id, port)'
BY DEF RunsStay, Owned, RunsOf, PortOf

LEMMA StepsStay ==
  ASSUME StacksInv,
         \/ \E id \in Ids, task \in Task, request \in Request : Asks(id, task, request)
         \/ \E r \in 1..MaxRuns : Moved(r)
         \/ Kept
  PROVE  RunsStay
<1>1. ASSUME NEW id \in Ids, NEW task \in Task, NEW request \in Request, Asks(id, task, request)
      PROVE  RunsStay
  <2>1. PICK n : Added(id, task, request, n)
    BY <1>1, AsksFacts
  <2>2. QED BY <2>1 DEF Added, RunsStay
<1>2. ASSUME NEW r, Moved(r) PROVE RunsStay
  BY <1>2 DEF Moved, RunsStay
<1>3. CASE Kept
  BY <1>3 DEF Kept, RunsStay
<1>4. QED BY <1>1, <1>2, <1>3

\* Requests hand on the URL of the record, deployments put their own port into the
\* stack, and outputs are those of the stack.
LEMMA UrlsInductive ==
  ASSUME StacksInv, UrlInv,
         \/ \E id \in Ids, task \in Task, request \in Request : Asks(id, task, request)
         \/ \E r \in 1..MaxRuns : Moved(r)
         \/ Kept
  PROVE  UrlInv'
<1> USE DEF UrlInv
<1>1. RunsStay
  BY StepsStay
<1>2. ASSUME \A k \in Keys : k[2] = "browser" /\ stacks'[k].program # None =>
                Owned(k[3], stacks'[k].program.port),
             \A i \in DOMAIN runs' : runs'[i].task.url # None => Owned(runs'[i].id, runs'[i].task.url),
             \A d \in Ids : records'[d] # None /\ records'[d].url # None => Owned(d, records'[d].url)
      PROVE  UrlInv'
  <2>1. \A d, port : Owned(d, port) => Owned(d, port)'
    BY <1>1, OwnedStays
  <2>2. ASSUME NEW d, NEW port, Owned(d, port) PROVE \E i \in RunsOf(d)' : PortOf(runs'[i].task) = port
    BY <2>1, <2>2 DEF Owned
  <2>3. \A k \in Keys : k[2] = "browser" /\ stacks'[k].program # None =>
          \E i \in RunsOf(k[3])' : PortOf(runs'[i].task) = stacks'[k].program.port
    BY <1>2, <2>2
  <2>4. \A r \in DOMAIN runs' : runs'[r].task.url # None =>
          \E i \in RunsOf(runs[r].id)' : PortOf(runs'[i].task) = runs'[r].task.url
    <3>1. ASSUME NEW r \in DOMAIN runs', runs'[r].task.url # None
          PROVE  \E i \in RunsOf(runs[r].id)' : PortOf(runs'[i].task) = runs'[r].task.url
      <4>1. PICK d, port : d = runs'[r].id /\ port = runs'[r].task.url
        OBVIOUS
      <4>2. Owned(d, port)
        BY <1>2, <3>1, <4>1
      <4>3. \E i \in RunsOf(d)' : PortOf(runs'[i].task) = port
        BY <2>2, <4>2
      <4>4. QED BY <4>1, <4>3 DEF RunsOf
    <3>2. QED BY <3>1
  <2>5. \A d \in Ids : records'[d] # None /\ records'[d].url # None =>
          \E i \in RunsOf(d)' : PortOf(runs'[i].task) = records'[d].url
    BY <1>2, <2>2
  <2>6. QED BY <2>3, <2>4, <2>5 DEF Owned
<1>3. ASSUME NEW id \in Ids, NEW task \in Task, NEW request \in Request, Asks(id, task, request)
      PROVE  UrlInv'
  <2>1. PICK n : Added(id, task, request, n)
    BY <1>3, AsksFacts
  <2>2. /\ UNCHANGED stacks /\ records'[id] = task /\ \A d \in Ids \ {id} : records'[d] = records[d]
        /\ DOMAIN runs' = DOMAIN runs \cup {n} /\ runs'[n].id = id /\ runs'[n].task = task
        /\ \A i \in DOMAIN runs : runs'[i].id = runs[i].id /\ runs'[i].task = runs[i].task
    BY <2>1 DEF Added
  <2>3. task.url # None => Owned(id, task.url)
    BY <1>3 DEF Asks
  <2>4. \A k \in Keys : k[2] = "browser" /\ stacks'[k].program # None =>
          Owned(k[3], stacks'[k].program.port)
    BY <2>2
  <2>5. \A i \in DOMAIN runs' : runs'[i].task.url # None => Owned(runs'[i].id, runs'[i].task.url)
    BY <2>2, <2>3
  <2>6. \A d \in Ids : records'[d] # None /\ records'[d].url # None => Owned(d, records'[d].url)
    BY <2>2, <2>3
  <2>7. QED BY <2>4, <2>5, <2>6, <1>2
<1>4. ASSUME NEW r \in 1..MaxRuns, Moved(r) PROVE UrlInv'
  <2> DEFINE id == runs[r].id
             key == StackOf(runs[r].task, id)
  <2>1. /\ r \in DOMAIN runs /\ DOMAIN runs' = DOMAIN runs
        /\ \A i \in DOMAIN runs \ {r} : runs'[i] = runs[i]
        /\ runs'[r].id = id
        /\ \/ runs'[r].task.url = runs[r].task.url
           \/ runs[r].at = "outputs" /\ runs[r].task.type = "browser" /\ runs'[r].task.url = DebugUrl(r)
        /\ \A d \in Ids \ {id} : records'[d] = records[d]
        /\ records'[id] = records[id] \/ records'[id] = runs'[r].task
        /\ \A k \in Keys \ {key} : stacks'[k] = stacks[k]
        /\ stacks'[key].program \in {stacks[key].program, ProgramOf(runs[r])}
    BY <1>4 DEF Moved
  <2>2. /\ id \in Ids /\ key \in Keys /\ key[2] = runs[r].task.type /\ key[3] = id
        /\ Stack(r) = stacks[key]
    BY <2>1, RunFacts DEF StacksInv, StackOf, Stack
  <2>3. runs[r].task.type = "browser" => Owned(id, ProgramOf(runs[r]).port)
    BY <2>1 DEF ProgramOf, Owned, RunsOf
  <2>4. runs'[r].task.url # None => Owned(id, runs'[r].task.url)
    <3>1. CASE runs'[r].task.url = runs[r].task.url
      BY <3>1, <2>1
    <3>2. CASE /\ runs[r].at = "outputs" /\ runs[r].task.type = "browser"
               /\ runs'[r].task.url = Stack(r).program.port
      <4>1. Stack(r).program # None
        BY <3>2, <2>1, InfraAssumption DEF StacksInv, OutputsInv
      <4>2. QED BY <3>2, <4>1, <2>2
    <3>3. QED BY <3>1, <3>2, <2>1 DEF DebugUrl
  <2>5. \A k \in Keys : k[2] = "browser" /\ stacks'[k].program # None =>
          Owned(k[3], stacks'[k].program.port)
    BY <2>1, <2>2, <2>3
  <2>6. \A i \in DOMAIN runs' : runs'[i].task.url # None => Owned(runs'[i].id, runs'[i].task.url)
    BY <2>1, <2>4
  <2>7. \A d \in Ids : records'[d] # None /\ records'[d].url # None => Owned(d, records'[d].url)
    BY <2>1, <2>4
  <2>8. QED BY <2>5, <2>6, <2>7, <1>2
<1>5. CASE Kept
  <2>1. \A k \in Keys : k[2] = "browser" /\ stacks'[k].program # None =>
          Owned(k[3], stacks'[k].program.port)
    BY <1>5 DEF Kept
  <2>2. \A i \in DOMAIN runs' : runs'[i].task.url # None => Owned(runs'[i].id, runs'[i].task.url)
    BY <1>5 DEF Kept
  <2>3. \A d \in Ids : records'[d] # None /\ records'[d].url # None => Owned(d, records'[d].url)
    BY <1>5 DEF Kept
  <2>4. QED BY <2>1, <2>2, <2>3, <1>2
<1>6. QED BY <1>3, <1>4, <1>5

\* The type and the project are taken over from the record, and were asked for once.
LEMMA KindsInductive ==
  ASSUME StacksInv, StacksInv', KindInv,
         \/ \E id \in Ids, task \in Task, request \in Request : Asks(id, task, request)
         \/ \E r \in 1..MaxRuns : Moved(r)
         \/ Kept
  PROVE  KindInv'
<1> DEFINE Now(d, type, project) == \E j \in DOMAIN runs' : /\ runs'[j].id = d
                                                           /\ runs'[j].request.type = type
                                                           /\ runs'[j].request.project = project
           Fits(i) == LET record == records'[runs'[i].id]
                      IN /\ record # None
                         /\ record.type = runs'[i].task.type /\ record.project = runs'[i].task.project
                         /\ Now(runs'[i].id, record.type, record.project)
<1>1. RunsStay
  BY StepsStay
<1>2. ASSUME NEW d, NEW type, NEW project, Requested(d, type, project)
      PROVE  Now(d, type, project)
  BY <1>1, <1>2 DEF Requested, RunsStay, RunsOf
<1>3. \A i \in DOMAIN runs' : runs'[i].id \in Ids /\ runs'[i].task \in Task /\ runs'[i].task # None
  <2>1. \A i \in DOMAIN runs' : runs'[i] \in Run
    BY DEF StacksInv, RunsType
  <2>2. \A task \in Task : task # None
    BY InfraAssumption
  <2>3. QED BY <2>1, <2>2 DEF Run
<1>4. ASSUME \A i \in DOMAIN runs' : Fits(i) PROVE KindInv'
  BY <1>4 DEF KindInv, Requested, RunsOf
<1> HIDE DEF Now
<1>5. ASSUME NEW id \in Ids, NEW task \in Task, NEW request \in Request, Asks(id, task, request)
      PROVE  KindInv'
  <2>1. PICK n : Added(id, task, request, n)
    BY <1>5, AsksFacts
  <2>2. /\ records'[id] = task /\ \A d \in Ids \ {id} : records'[d] = records[d]
        /\ DOMAIN runs' = DOMAIN runs \cup {n} /\ runs'[n].id = id /\ runs'[n].task = task
        /\ runs'[n].request = request
        /\ \A i \in DOMAIN runs : runs'[i].id = runs[i].id /\ runs'[i].task = runs[i].task
    BY <2>1 DEF Added
  <2>3. Now(id, task.type, task.project)
    <3>1. CASE records[id] = None
      BY <1>5, <3>1, <2>2 DEF Asks, Now
    <3>2. CASE records[id] # None
      <4>1. PICK i \in DOMAIN runs : runs[i].id = id
        BY <3>2 DEF StacksInv, LastInv
      <4>2. task.type = records[id].type /\ task.project = records[id].project
        BY <1>5, <3>2 DEF Asks
      <4>3. Requested(id, task.type, task.project)
        BY <4>1, <4>2 DEF KindInv
      <4>4. QED BY <4>3, <1>2
    <3>3. QED BY <3>1, <3>2
  <2>4. ASSUME NEW i \in DOMAIN runs' PROVE Fits(i)
    <3>1. CASE runs'[i].id = id
      <4>1. task # None
        BY InfraAssumption
      <4>2. task.type = runs'[i].task.type /\ task.project = runs'[i].task.project
        <5>1. CASE i \notin DOMAIN runs
          BY <5>1, <2>2
        <5>2. CASE i \in DOMAIN runs
          <6>1. /\ records[id] # None /\ records[id].type = runs'[i].task.type
                /\ records[id].project = runs'[i].task.project
            BY <5>2, <3>1, <2>2 DEF KindInv
          <6>2. QED BY <6>1, <1>5 DEF Asks
        <5>3. QED BY <5>1, <5>2
      <4>3. QED BY <3>1, <4>1, <4>2, <2>2, <2>3
    <3>2. CASE runs'[i].id # id
      <4>1. /\ i \in DOMAIN runs /\ runs[i].id = runs'[i].id /\ runs'[i].task = runs[i].task
            /\ records'[runs[i].id] = records[runs[i].id]
        BY <3>2, <2>2, <1>3
      <4>2. Now(runs[i].id, records[runs[i].id].type, records[runs[i].id].project)
        BY <4>1, <1>2 DEF KindInv
      <4>3. QED BY <4>1, <4>2 DEF KindInv
    <3>3. QED BY <3>1, <3>2
  <2>5. QED BY <2>4, <1>4
<1>6. ASSUME NEW r \in 1..MaxRuns, Moved(r) PROVE KindInv'
  <2> DEFINE id == runs[r].id
  <2>1. /\ r \in DOMAIN runs /\ DOMAIN runs' = DOMAIN runs
        /\ \A i \in DOMAIN runs \ {r} : runs'[i] = runs[i]
        /\ runs'[r].id = id
        /\ runs'[r].task.type = runs[r].task.type /\ runs'[r].task.project = runs[r].task.project
        /\ \A d \in Ids \ {id} : records'[d] = records[d]
        /\ records'[id] = records[id] \/ records'[id] = runs'[r].task
    BY <1>6 DEF Moved
  <2>2. /\ records'[id] # None /\ records'[id].type = records[id].type
        /\ records'[id].project = records[id].project
    BY <2>1, <1>3 DEF KindInv
  <2>3. ASSUME NEW i \in DOMAIN runs' PROVE Fits(i)
    <3>1. /\ i \in DOMAIN runs /\ runs'[i].id = runs[i].id /\ runs[i].id \in Ids
          /\ runs'[i].task.type = runs[i].task.type /\ runs'[i].task.project = runs[i].task.project
      BY <2>1, <1>3
    <3>2. /\ records'[runs[i].id] # None /\ records'[runs[i].id].type = records[runs[i].id].type
          /\ records'[runs[i].id].project = records[runs[i].id].project
      BY <3>1, <2>1, <2>2 DEF KindInv
    <3>3. Now(runs[i].id, records[runs[i].id].type, records[runs[i].id].project)
      BY <3>1, <1>2 DEF KindInv
    <3>4. QED BY <3>1, <3>2, <3>3 DEF KindInv
  <2>4. QED BY <2>3, <1>4
<1>7. CASE Kept
  <2>1. ASSUME NEW i \in DOMAIN runs' PROVE Fits(i)
    <3>1. i \in DOMAIN runs /\ runs'[i].id = runs[i].id /\ runs[i].id \in Ids /\ runs'[i].task = runs[i].task
      BY <1>3, <1>7 DEF Kept
    <3>2. /\ records'[runs[i].id] # None /\ records'[runs[i].id].type = records[runs[i].id].type
          /\ records'[runs[i].id].project = records[runs[i].id].project
      BY <3>1, <1>7 DEF KindInv, Kept
    <3>3. Now(runs[i].id, records[runs[i].id].type, records[runs[i].id].project)
      BY <3>1, <1>2 DEF KindInv
    <3>4. QED BY <3>1, <3>2, <3>3 DEF KindInv
  <2>2. QED BY <2>1, <1>4
<1>8. QED BY <1>5, <1>6, <1>7

\* The step is none of the task's, or gives it nothing that it has to answer for.
Still(id) ==
  /\ RunsOf(id)' = RunsOf(id)
  /\ \A i \in RunsOf(id) :
       /\ runs'[i].task = runs[i].task /\ runs'[i].request = runs[i].request
       /\ runs'[i].read => runs[i].read
       /\ runs'[i].alone => runs[i].alone
       /\ Unfinished(runs'[i]) => Unfinished(runs[i])
       /\ Deployed(runs'[i]) => Deployed(runs[i])
       /\ runs[i].at = "done" => runs'[i].at = "done"
       /\ Stack(i)'.program = Stack(i).program
  /\ records[id] # None => records'[id] # None /\ records'[id].port = records[id].port
  /\ Succeeded(id)' => records'[id] = records[id]

LEMMA StillAsked == ASSUME NEW id, Still(id), AskedOf(id) PROVE AskedOf(id)'
<1> SUFFICES ASSUME Orderly(id)', NEW m, Last(id, m)' PROVE Asked(id, m)'
  BY DEF AskedOf
<1>1. Orderly(id) /\ Last(id, m)
  BY DEF Still, Orderly, Last
<1>2. m \in RunsOf(id) /\ Asked(id, m)
  BY <1>1 DEF AskedOf, Last
<1>3. \A j \in RunsOf(id)' : j # m => ~Unfinished(runs'[j])
  BY <1>2 DEF Still, Asked
<1>4. /\ records'[id] # None /\ records'[id].port = runs'[m].task.port
      /\ runs'[m].task = runs[m].task
  BY <1>2 DEF Still, Asked
<1>5. PortAsked(id, runs[m].task.port)'
  <2>1. PortAsked(id, runs[m].task.port)
    BY <1>2 DEF Asked
  <2>2. \A i \in RunsOf(id) : runs'[i].request = runs[i].request
    BY DEF Still
  <2>3. RunsOf(id)' = RunsOf(id) /\ runs'[m].task = runs[m].task
    BY <1>4 DEF Still
  <2>4. QED BY <2>1, <2>2, <2>3 DEF PortAsked
<1>6. Succeeded(id)' => runs'[m].at = "done" /\ runs'[m].task = records'[id]
  BY <1>2, <1>4 DEF Still, Asked, Succeeded
<1>7. Deployed(runs'[m]) => AtProgram(m)'
  BY <1>2, <1>4 DEF Still, Asked, AtProgram
<1>8. runs'[m].read => runs'[m].task.url = PortOf(runs'[m].task)
  BY <1>2, <1>4 DEF Still, Asked
<1>9. QED BY <1>3, <1>4, <1>5, <1>6, <1>7, <1>8 DEF Asked

\* A run that takes a step is the last of its task.
LEMMA MovedAsked ==
  ASSUME StacksInv, StacksInv', NEW r, Moved(r), NEW id, id = runs[r].id, AskedOf(id)
  PROVE  AskedOf(id)'
<1> DEFINE key == StackOf(runs[r].task, id)
<1>1. /\ r \in DOMAIN runs /\ Unfinished(runs[r])
      /\ DOMAIN runs' = DOMAIN runs
      /\ \A i \in DOMAIN runs \ {r} : runs'[i] = runs[i]
      /\ runs'[r].id = id /\ runs'[r].request = runs[r].request /\ runs'[r].alone = runs[r].alone
      /\ runs'[r].task.type = runs[r].task.type /\ runs'[r].task.project = runs[r].task.project
      /\ runs'[r].task.port = runs[r].task.port
  BY DEF Moved
<1>2. /\ records'[id] = records[id] \/ records'[id] = runs'[r].task
      /\ Succeeded(id)' => Succeeded(id) \/ (runs'[r].at = "done" /\ records'[id] = runs'[r].task)
      /\ Deployed(runs'[r]) => \/ Deployed(runs[r]) /\ stacks'[key] = stacks[key]
                               \/ AtProgram(r)'
      /\ \/ runs'[r].read = runs[r].read /\ runs'[r].task.url = runs[r].task.url
         \/ runs[r].at = "outputs" /\ runs[r].task.type = "browser" /\ runs'[r].task.url = DebugUrl(r)
  BY DEF Moved
<1> SUFFICES ASSUME Orderly(id)', NEW m, Last(id, m)' PROVE Asked(id, m)'
  BY <1>1 DEF AskedOf
<1>3. /\ RunsOf(id)' = RunsOf(id) /\ r \in RunsOf(id)
      /\ \A i \in RunsOf(id) : runs'[i].request = runs[i].request /\ runs'[i].alone = runs[i].alone
  BY <1>1 DEF RunsOf
<1>4. Orderly(id) /\ Last(id, m)
  BY <1>1, <1>3 DEF Orderly, Last
<1>5. Asked(id, m)
  BY <1>4 DEF AskedOf
<1>6. m = r
  BY <1>1, <1>3, <1>5 DEF Asked
<1>7. runs'[r].task # None
  <2>1. runs'[r] \in Run
    BY <1>1 DEF StacksInv, RunsType
  <2>2. QED BY <2>1, InfraAssumption DEF Run
<1>8. \A j \in RunsOf(id)' : j # m => ~Unfinished(runs'[j])
  <2>1. \A j \in RunsOf(id) : j # r => runs'[j] = runs[j]
    BY <1>1 DEF RunsOf
  <2>2. QED BY <2>1, <1>3, <1>5, <1>6 DEF Asked
<1>9. records'[id] # None /\ records'[id].port = runs'[m].task.port
  BY <1>1, <1>2, <1>5, <1>6, <1>7 DEF Asked
<1>10. PortAsked(id, runs[m].task.port)'
  <2>1. PortAsked(id, runs[r].task.port)
    BY <1>5, <1>6 DEF Asked
  <2>2. QED BY <2>1, <1>1, <1>3, <1>6 DEF PortAsked
<1>11. Succeeded(id)' => runs'[m].at = "done" /\ runs'[m].task = records'[id]
  BY <1>1, <1>2, <1>5, <1>6 DEF Asked, Unfinished
<1>12. Stack(r) = stacks[key] /\ Stack(r)' = stacks'[key] /\ PortOf(runs'[r].task) = PortOf(runs[r].task)
  BY <1>1 DEF Stack, StackOf, PortOf
<1>13. Deployed(runs'[m]) => AtProgram(m)'
  BY <1>1, <1>2, <1>5, <1>6, <1>12 DEF Asked, AtProgram
<1>14. runs'[m].read => runs'[m].task.url = PortOf(runs'[m].task)
  BY <1>1, <1>2, <1>5, <1>6, <1>12 DEF Asked, AtProgram, Deployed, DebugUrl
<1>15. QED BY <1>1, <1>8, <1>9, <1>10, <1>11, <1>13, <1>14 DEF Asked

\* Of the runs of a task with a record there is a last one, which LastRun names.
LEMMA LastRunIsLast ==
  ASSUME StacksInv, NEW id \in Ids, records[id] # None
  PROVE  Last(id, LastRun(id)) /\ \A m : Last(id, m) => m = LastRun(id)
<1>1. \A i \in DOMAIN runs : i \in Nat
  BY RunFacts DEF StacksInv
<1>2. \E m \in DOMAIN runs : runs[m].id = id /\ \A j \in DOMAIN runs : runs[j].id = id => j <= m
  BY DEF StacksInv, LastInv
<1>3. LastRun(id) \in DOMAIN runs /\ runs[LastRun(id)].id = id
      /\ \A j \in DOMAIN runs : runs[j].id = id => j <= LastRun(id)
  BY <1>2 DEF LastRun
<1>4. Last(id, LastRun(id))
  BY <1>3 DEF Last, RunsOf
<1>5. ASSUME NEW m, Last(id, m) PROVE m = LastRun(id)
  <2>1. m \in DOMAIN runs /\ LastRun(id) <= m /\ m <= LastRun(id)
    BY <1>4, <1>5 DEF Last, RunsOf
  <2>2. m \in Nat /\ LastRun(id) \in Nat
    BY <2>1, <1>1, <1>3
  <2>3. QED BY <2>1, <2>2
<1>6. QED BY <1>4, <1>5

\* The port of a new run is that of the last request which named one.
LEMMA AddedPort ==
  ASSUME StacksInv, KindInv, NEW id \in Ids, NEW task \in Task, NEW request \in Request, NEW n,
         Asks(id, task, request), Added(id, task, request, n), Orderly(id), AskedOf(id)
  PROVE  PortAsked(id, task.port)'
<1>1. /\ DOMAIN runs' = DOMAIN runs \cup {n} /\ n \in Nat
      /\ runs'[n].id = id /\ runs'[n].request = request
      /\ \A i \in DOMAIN runs : i < n /\ runs'[i].id = runs[i].id /\ runs'[i].request = runs[i].request
  BY DEF Added
<1>2. /\ RunsOf(id)' = RunsOf(id) \cup {n}
      /\ \A i \in RunsOf(id) : i <= n /\ i \in Nat /\ runs'[i].request = runs[i].request
  BY <1>1, RunFacts DEF RunsOf, StacksInv
<1>3. ASSUME request.port # None, task.port = request.port PROVE PortAsked(id, task.port)'
  <2>1. \A j \in RunsOf(id)' : j <= n
    BY <1>1, <1>2
  <2>2. QED BY <1>1, <1>2, <1>3, <2>1 DEF PortAsked
<1>4. ASSUME request.port = None, PortAsked(id, task.port) PROVE PortAsked(id, task.port)'
  BY <1>1, <1>2, <1>4 DEF PortAsked
<1>5. CASE records[id] = None
  <2>1. task.port = request.port
    BY <1>5 DEF Asks
  <2>2. RunsOf(id) = {}
    BY <1>5 DEF KindInv, RunsOf
  <2>3. request.port = None => PortAsked(id, task.port)
    BY <2>1, <2>2 DEF PortAsked
  <2>4. QED BY <2>1, <2>3, <1>3, <1>4
<1>6. CASE records[id] # None
  <2> DEFINE m == LastRun(id)
  <2>1. Last(id, m)
    BY <1>6, LastRunIsLast
  <2>2. PortAsked(id, records[id].port)
    BY <2>1 DEF AskedOf, Asked
  <2>3. CASE request.port = None /\ task.port = records[id].port
    BY <2>2, <2>3, <1>4
  <2>4. CASE request.port # None /\ task.port = request.port
    BY <2>4, <1>3
  <2>5. CASE request = runs[m].request /\ task.port = records[id].port /\ request.port # None
    <3>1. m \in RunsOf(id) /\ \A j \in RunsOf(id) : j <= m
      BY <2>1 DEF Last
    <3>2. PICK i \in RunsOf(id) : /\ runs[i].request.port = records[id].port
                                  /\ \A j \in RunsOf(id) : runs[j].request.port # None => j <= i
      BY <2>2, <2>5, <3>1 DEF PortAsked
    <3>3. i <= m /\ m <= i /\ i \in Nat /\ m \in Nat
      BY <2>5, <3>1, <3>2, <1>2
    <3>4. i = m
      BY <3>3
    <3>5. QED BY <2>5, <3>2, <3>4, <1>3
  <2>6. QED BY <2>2, <2>3, <2>4, <2>5, <1>4, <1>6 DEF Asks
<1>7. QED BY <1>5, <1>6

LEMMA AddedAsked ==
  ASSUME StacksInv, KindInv, NEW id \in Ids, NEW task \in Task, NEW request \in Request, NEW n,
         Asks(id, task, request), Added(id, task, request, n), AskedOf(id)
  PROVE  AskedOf(id)'
<1>1. /\ DOMAIN runs' = DOMAIN runs \cup {n} /\ n \in Nat \ DOMAIN runs
      /\ runs'[n].id = id /\ runs'[n].at = "queued" /\ ~runs'[n].read /\ runs'[n].task = task
      /\ runs'[n].alone => \A i \in RunsOf(id) : ~Unfinished(runs[i])
      /\ \A i \in DOMAIN runs : /\ i < n /\ runs'[i].id = runs[i].id /\ runs'[i].at = runs[i].at
                                /\ runs'[i].alone => runs[i].alone
      /\ records'[id] = task
  BY DEF Added
<1>2. RunsOf(id)' = RunsOf(id) \cup {n}
  BY <1>1 DEF RunsOf
<1> SUFFICES ASSUME Orderly(id)', NEW m, Last(id, m)' PROVE Asked(id, m)'
  BY DEF AskedOf
<1>3. Orderly(id) /\ \A i \in RunsOf(id) : ~Unfinished(runs[i])
  BY <1>1, <1>2 DEF Orderly, RunsOf
<1>4. m = n
  <2>1. m \in RunsOf(id) \cup {n} /\ n <= m
    BY <1>2 DEF Last
  <2>2. ASSUME m \in RunsOf(id) PROVE FALSE
    <3>1. m < n /\ m \in Nat
      BY <2>2, <1>1, RunFacts DEF RunsOf, StacksInv
    <3>2. QED BY <3>1, <2>1, <1>1
  <2>3. QED BY <2>1, <2>2
<1>5. \A j \in RunsOf(id)' : j # m => ~Unfinished(runs'[j])
  BY <1>1, <1>2, <1>3, <1>4 DEF RunsOf, Unfinished
<1>6. records'[id] # None /\ records'[id].port = runs'[m].task.port
  BY <1>1, <1>4, InfraAssumption
<1>7. PortAsked(id, task.port)'
  BY <1>3, AddedPort
<1>8. ~Succeeded(id)' /\ ~Deployed(runs'[m]) /\ ~runs'[m].read
  BY <1>1, <1>4 DEF Succeeded, Deployed, Asks
<1>9. QED BY <1>1, <1>4, <1>5, <1>6, <1>7, <1>8 DEF Asked, PortAsked, RunsOf

LEMMA AskedInductive ==
  ASSUME StacksInv, StacksInv', KindInv, AskedInv,
         \/ \E id \in Ids, task \in Task, request \in Request : Asks(id, task, request)
         \/ \E r \in 1..MaxRuns : Moved(r)
         \/ Kept
  PROVE  AskedInv'
<1> SUFFICES ASSUME NEW d \in Ids PROVE AskedOf(d)'
  BY DEF AskedInv
<1>1. AskedOf(d)
  BY DEF AskedInv
<1>2. \A i \in DOMAIN runs : /\ runs[i] \in Run /\ runs[i].id \in Ids
                             /\ StackOf(runs[i].task, runs[i].id) \in Keys
                             /\ StackOf(runs[i].task, runs[i].id)[3] = runs[i].id
  BY RunFacts DEF StacksInv, StackOf
<1>3. ASSUME NEW id \in Ids, NEW task \in Task, NEW request \in Request, Asks(id, task, request)
      PROVE  AskedOf(d)'
  <2>1. PICK n : Added(id, task, request, n)
    BY <1>3, AsksFacts
  <2>2. CASE d = id
    BY <2>1, <2>2, <1>1, <1>3, AddedAsked
  <2>3. CASE d # id
    <3>1. Still(d)
      BY <2>1, <2>3 DEF Added, Still, RunsOf, Unfinished, Deployed, Stack, Succeeded
    <3>2. QED BY <3>1, <1>1, StillAsked
  <2>4. QED BY <2>2, <2>3
<1>4. ASSUME NEW r \in 1..MaxRuns, Moved(r) PROVE AskedOf(d)'
  <2>1. CASE d = runs[r].id
    BY <2>1, <1>1, <1>4, MovedAsked
  <2>2. CASE d # runs[r].id
    <3> DEFINE key == StackOf(runs[r].task, runs[r].id)
    <3>1. /\ r \in DOMAIN runs /\ DOMAIN runs' = DOMAIN runs
          /\ \A i \in DOMAIN runs \ {r} : runs'[i] = runs[i]
          /\ runs'[r].id = runs[r].id /\ records'[d] = records[d]
          /\ \A k \in Keys \ {key} : stacks'[k] = stacks[k]
      BY <2>2, <1>4 DEF Moved
    <3>2. RunsOf(d)' = RunsOf(d) /\ \A i \in RunsOf(d) : runs'[i] = runs[i]
      BY <2>2, <3>1 DEF RunsOf
    <3>3. \A i \in RunsOf(d) : StackOf(runs[i].task, runs[i].id) \in Keys \ {key}
      BY <2>2, <3>1, <1>2 DEF RunsOf
    <3>4. \A i \in RunsOf(d) : Stack(i)'.program = Stack(i).program
      BY <3>1, <3>2, <3>3 DEF Stack
    <3>5. Still(d)
      BY <3>1, <3>2, <3>4 DEF Still
    <3>6. QED BY <3>5, <1>1, StillAsked
  <2>3. QED BY <2>1, <2>2
<1>5. CASE Kept
  <2>1. RunsOf(d)' = RunsOf(d)
    BY <1>5 DEF Kept, RunsOf
  <2>2. ASSUME NEW i \in RunsOf(d) PROVE Stack(i)'.program = Stack(i).program
    BY <1>2, <1>5 DEF Kept, RunsOf, Stack
  <2>3. Still(d)
    BY <2>1, <2>2, <1>5 DEF Kept, Still, RunsOf, Unfinished, Deployed, Succeeded
  <2>4. QED BY <2>3, <1>1, StillAsked
<1>6. QED BY <1>3, <1>4, <1>5

LEMMA WantedStart == Init => WantedInv
<1> SUFFICES ASSUME Init PROVE WantedInv
  OBVIOUS
<1>1. DOMAIN runs = {} /\ (\A id \in Ids : records[id] = None) /\ \A k \in Keys : stacks[k].program = None
  BY DEF Init
<1>2. QED BY <1>1 DEF WantedInv, AskedInv, AskedOf, Last, RunsOf, KindInv, UrlInv

LEMMA WantedInductive ==
  ASSUME StacksInv, StacksInv', WantedInv, [Next]_vars PROVE WantedInv'
<1>1. \/ \E id \in Ids, task \in Task, request \in Request : Asks(id, task, request)
      \/ \E r \in 1..MaxRuns : Moved(r)
      \/ Kept
  <2>1. CASE \/ RunSubmit
             \/ \E stack \in Names, p \in Projects : DeployInfra(stack, p)
             \/ \E id \in Anonymous, port \in McpPorts : StartBrowser(id, port)
             \/ \E id \in Ids : RestartTask(id)
    BY <2>1, SubmissionsAsk
  <2>2. ASSUME NEW r \in 1..MaxRuns, RunStep(r) PROVE \E s \in 1..MaxRuns : Moved(s)
    BY <2>2, RunMoves
  <2>3. CASE \/ \E id \in Ids : CancelTask(id)
             \/ \E id \in Ids, p \in Ports : BrowserListens(id, p)
             \/ \E p \in Ports : ForeignListens(p) \/ BrowserDies(p)
             \/ ChromeInstalled
             \/ InstallerWrites \/ OwnInstallerEnds \/ OwnInstallerFails \/ OrphanEnds
             \/ Crash \/ UNCHANGED vars
    BY <2>3, OthersKept
  <2>4. QED BY <2>1, <2>2, <2>3 DEF Next
<1>2. AskedInv' /\ KindInv' /\ UrlInv'
  BY <1>1, AskedInductive, KindsInductive, UrlsInductive DEF WantedInv
<1>3. QED BY <1>2 DEF WantedInv

\* The port asked for last is that of the record.
LEMMA PortIsWanted ==
  ASSUME StacksInv, NEW id, NEW port, PortAsked(id, port)
  PROVE  WantedPort(id) = IF port = None THEN DefaultPort ELSE port
<1> DEFINE naming == {i \in RunsOf(id) : runs[i].request.port # None}
<1>1. \A i \in naming : i \in Nat
  BY RunFacts DEF RunsOf, StacksInv
<1>2. CASE port = None
  BY <1>2 DEF PortAsked, WantedPort
<1>3. CASE port # None
  <2>1. PICK i \in naming : runs[i].request.port = port /\ \A j \in naming : j <= i
    BY <1>3 DEF PortAsked
  <2>2. \A m \in naming : (\A j \in naming : j <= m) => m = i
    <3>1. ASSUME NEW m \in naming, \A j \in naming : j <= m PROVE m = i
      <4>1. m <= i /\ i <= m /\ m \in Nat /\ i \in Nat
        BY <3>1, <2>1, <1>1
      <4>2. QED BY <4>1
    <3>2. QED BY <3>1
  <2>3. (CHOOSE m \in naming : \A j \in naming : j <= m) = i
    BY <2>1, <2>2
  <2>4. naming # {}
    BY <2>1
  <2>5. QED BY <1>3, <2>1, <2>3, <2>4 DEF WantedPort
<1>4. QED BY <1>2, <1>3

LEMMA WantedIsDeployed == ASSUME StacksInv, WantedInv PROVE DeployedAsAsked /\ UrlIsOwn
<1> USE DEF WantedInv
<1>1. ASSUME NEW id \in Ids, Succeeded(id), Orderly(id)
      PROVE  LET m == LastRun(id)
             IN m \in RunsOf(id) /\ Asked(id, m) /\ runs[m].task = records[id] /\ Deployed(runs[m])
  <2> DEFINE m == LastRun(id)
  <2>1. Last(id, m)
    BY <1>1, LastRunIsLast DEF Succeeded
  <2>2. m \in RunsOf(id) /\ Asked(id, m)
    BY <1>1, <2>1 DEF AskedInv, AskedOf, Last
  <2>3. runs[m].at = "done" /\ runs[m].task = records[id]
    BY <1>1, <2>2 DEF Asked
  <2>4. QED BY <1>1, <2>2, <2>3 DEF Deployed, Succeeded
<1>2. DeployedAsAsked
  <2> SUFFICES ASSUME NEW id \in Ids, Succeeded(id), Orderly(id), OneKind(id)
               PROVE  LET program == stacks[StackOf(runs[LastRun(id)].request, id)].program
                      IN /\ program # None
                         /\ records[id].type = "browser" => program.port = WantedPort(id)
    BY DEF DeployedAsAsked
  <2> DEFINE m == LastRun(id)
  <2>1. m \in RunsOf(id) /\ Asked(id, m) /\ runs[m].task = records[id] /\ Deployed(runs[m])
    BY <1>1
  <2>2. m \in DOMAIN runs /\ runs[m].id = id
    BY <2>1 DEF RunsOf
  <2>3. Requested(id, runs[m].task.type, runs[m].task.project)
    BY <2>1, <2>2 DEF KindInv
  <2>4. runs[m].request.type = runs[m].task.type /\ runs[m].request.project = runs[m].task.project
    BY <2>1, <2>3 DEF Requested, OneKind
  <2>5. StackOf(runs[m].request, id) = StackOf(runs[m].task, runs[m].id)
    BY <2>2, <2>4 DEF StackOf
  <2>6. AtProgram(m) /\ PortAsked(id, runs[m].task.port)
    BY <2>1 DEF Asked
  <2>7. WantedPort(id) = PortOf(runs[m].task)
    BY <2>6, PortIsWanted DEF PortOf
  <2>8. QED BY <2>1, <2>5, <2>6, <2>7 DEF AtProgram, Stack
<1>3. UrlIsOwn
  <2> SUFFICES ASSUME NEW id \in Ids, records[id] # None, records[id].url # None
               PROVE  /\ \E i \in RunsOf(id) : records[id].url = PortOf(runs[i].task)
                      /\ Succeeded(id) /\ Orderly(id) /\ runs[LastRun(id)].read =>
                           records[id].url = PortOf(records[id])
    BY DEF UrlIsOwn
  <2>1. \E i \in RunsOf(id) : records[id].url = PortOf(runs[i].task)
    BY DEF UrlInv, Owned
  <2>2. ASSUME Succeeded(id), Orderly(id), runs[LastRun(id)].read
        PROVE  records[id].url = PortOf(records[id])
    BY <1>1, <2>2 DEF Asked
  <2>3. QED BY <2>1, <2>2
<1>4. QED BY <1>2, <1>3

\* A task that succeeded is deployed in the stack and on the port that the requests
\* together asked for (grpc_handler.go:59-82, executor.go:68-153).
THEOREM DeploymentsAreAsAsked == Spec => []DeployedAsAsked
<1>1. StacksInv /\ WantedInv => DeployedAsAsked
  BY WantedIsDeployed
<1>2. QED BY <1>1, StacksStart, StacksInductive, WantedStart, WantedInductive, PTL DEF Spec

\* A URL in a record is that of a browser of this task, and once the outputs were
\* read, of the one it has now (executor.go:126-133).
THEOREM UrlsAreOwn == Spec => []UrlIsOwn
<1>1. StacksInv /\ WantedInv => UrlIsOwn
  BY WantedIsDeployed
<1>2. QED BY <1>1, StacksStart, StacksInductive, WantedStart, WantedInductive, PTL DEF Spec
===============================================================================
