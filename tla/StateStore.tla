------------------------------ MODULE StateStore ------------------------------
(***************************************************************************)
(* The task store of pkg/state/store.go: every task is a record under its  *)
(* own id in the Dapr state store, and one more key, "task_index", holds   *)
(* the list of ids that ListTasks walks.  SaveTask writes the record, then *)
(* reads the index, appends the id if it is missing and writes the index   *)
(* back: three requests to the store with no ETag and no transaction, so   *)
(* the requests of other callers fall between them.                        *)
(*                                                                         *)
(* Each request is one atomic step.  A record is abstracted to its         *)
(* existence, the index keeps its contents and its order.                  *)
(***************************************************************************)
EXTENDS Naturals, SequencesExt

CONSTANTS Ids,        \* task ids
          Writers,    \* callers of SaveTask: RPC handlers and task goroutines
          Readers,    \* callers of ListTasks
          StoreFails  \* whether a request to the store may fail

ASSUME StoreFailsAssumption == StoreFails \in BOOLEAN
ASSUME RolesAssumption == Writers \cap Readers = {}

VARIABLES saved,     \* the ids with a record
          index,     \* the list under "task_index"; << >> is also "no such key"
          pc,        \* the request each caller makes next
          arg,       \* the id each writer saves
          ids,       \* each caller's copy of the index: store.go's local "ids"
          listed,    \* the ids of the tasks a reader has collected
          confirmed, \* history: the ids a SaveTask has returned nil for
          disturbed, \* history: two copies of the index met, or a read of it failed
          owed       \* history: the tasks a reader's list has to have

writerVars == <<saved, index, arg, confirmed, disturbed>>
readerVars == <<listed, owed>>
vars == <<saved, index, pc, arg, ids, listed, confirmed, disturbed, owed>>

Clients == Writers \cup Readers

Init == /\ saved = {}
        /\ index = << >>
        /\ pc = [c \in Clients |-> "idle"]
        /\ arg \in [Writers -> Ids]
        /\ ids = [c \in Clients |-> << >>]
        /\ listed = [c \in Readers |-> << >>]
        /\ confirmed = {}
        /\ disturbed = FALSE
        /\ owed = [c \in Readers |-> {}]

Goto(c, label) == pc' = [pc EXCEPT ![c] = label]

-------------------------------------------------------------------------------
(* SaveTask *)

\* Mutant of SaveRecord: the record is left for later.
SaveRecordSkipped(w, id) ==
  /\ pc[w] = "idle"
  /\ arg' = [arg EXCEPT ![w] = id]
  /\ Goto(w, "readIndex")
  /\ UNCHANGED <<saved, index, ids, confirmed, disturbed, readerVars>>

\* SaveState of the record succeeds.
SaveRecord(w, id) ==
  /\ pc[w] = "idle"
  /\ saved' = saved \cup {id}
  /\ arg' = [arg EXCEPT ![w] = id]
  /\ Goto(w, "readIndex")
  /\ UNCHANGED <<index, ids, confirmed, disturbed, readerVars>>

\* It returns an error, the record written or not; SaveTask returns it.
SaveRecordFails(w, id) ==
  /\ StoreFails
  /\ pc[w] = "idle"
  /\ saved' \in {saved, saved \cup {id}}
  /\ UNCHANGED <<index, pc, arg, ids, confirmed, disturbed, readerVars>>

\* Mutant of FoundInIndex: the loop returns on the first id, whatever it is.
FoundAnyId(w) ==
  /\ pc[w] = "readIndex"
  /\ index # << >>
  /\ confirmed' = confirmed \cup {arg[w]}
  /\ Goto(w, "idle")
  /\ UNCHANGED <<saved, index, arg, ids, disturbed, readerVars>>

\* addToIndex read the index: done if the id is there.
FoundInIndex(w) ==
  /\ pc[w] = "readIndex"
  /\ arg[w] \in ToSet(index)
  /\ confirmed' = confirmed \cup {arg[w]}
  /\ Goto(w, "idle")
  /\ UNCHANGED <<saved, index, arg, ids, disturbed, readerVars>>

\* Another writer holds a copy of the index that it has not written back.
CopyHeld == \E w \in Writers : pc[w] = "writeIndex"

\* Mutants of AppendToCopy: no check for the id, and a list started afresh.
AppendUnchecked(w) ==
  /\ pc[w] = "readIndex"
  /\ ids' = [ids EXCEPT ![w] = Append(index, arg[w])]
  /\ Goto(w, "writeIndex")
  /\ disturbed' = (disturbed \/ CopyHeld)
  /\ UNCHANGED <<saved, index, arg, confirmed, readerVars>>
StartAfresh(w) ==
  /\ pc[w] = "readIndex"
  /\ arg[w] \notin ToSet(index)
  /\ ids' = [ids EXCEPT ![w] = <<arg[w]>>]
  /\ Goto(w, "writeIndex")
  /\ disturbed' = (disturbed \/ CopyHeld)
  /\ UNCHANGED <<saved, index, arg, confirmed, readerVars>>

\* It is not there: append it to the copy.
AppendToCopy(w) ==
  /\ pc[w] = "readIndex"
  /\ arg[w] \notin ToSet(index)
  /\ ids' = [ids EXCEPT ![w] = Append(index, arg[w])]
  /\ Goto(w, "writeIndex")
  /\ disturbed' = (disturbed \/ CopyHeld)
  /\ UNCHANGED <<saved, index, arg, confirmed, readerVars>>

\* getTaskIDs failed: addToIndex takes any error for "no index yet".
ReadIndexFails(w) ==
  /\ StoreFails
  /\ pc[w] = "readIndex"
  /\ ids' = [ids EXCEPT ![w] = <<arg[w]>>]
  /\ Goto(w, "writeIndex")
  /\ disturbed' = TRUE
  /\ UNCHANGED <<saved, index, arg, confirmed, readerVars>>

\* The copy replaces the index.
WriteIndex(w) ==
  /\ pc[w] = "writeIndex"
  /\ index' = ids[w]
  /\ confirmed' = confirmed \cup {arg[w]}
  /\ Goto(w, "idle")
  /\ UNCHANGED <<saved, arg, ids, disturbed, readerVars>>

\* SaveState of the index returns an error, the index replaced or not.
WriteIndexFails(w) ==
  /\ StoreFails
  /\ pc[w] = "writeIndex"
  /\ index' \in {index, ids[w]}
  /\ Goto(w, "idle")
  /\ UNCHANGED <<saved, arg, ids, confirmed, disturbed, readerVars>>

-------------------------------------------------------------------------------
(* ListTasks *)

\* getTaskIDs; the error of a missing or unreadable index is an empty list.
BeginList(r) ==
  /\ pc[r] \in {"idle", "listed"}
  /\ \/ /\ ids' = [ids EXCEPT ![r] = index]
        /\ owed' = [owed EXCEPT ![r] = IF disturbed THEN {} ELSE confirmed]
     \/ /\ StoreFails
        /\ ids' = [ids EXCEPT ![r] = << >>]
        /\ owed' = [owed EXCEPT ![r] = {}]
  /\ listed' = [listed EXCEPT ![r] = << >>]
  /\ Goto(r, "getTask")
  /\ UNCHANGED writerVars

\* GetTask of the next id of the copy; on an error the task is left out.
CollectNext(r) ==
  /\ pc[r] = "getTask"
  /\ ids[r] # << >>
  /\ \/ /\ Head(ids[r]) \in saved
        /\ listed' = [listed EXCEPT ![r] = Append(@, Head(ids[r]))]
        /\ UNCHANGED owed
     \/ /\ StoreFails \/ Head(ids[r]) \notin saved
        /\ owed' = [owed EXCEPT ![r] = @ \ {Head(ids[r])}]
        /\ UNCHANGED listed
  /\ ids' = [ids EXCEPT ![r] = Tail(@)]
  /\ UNCHANGED <<writerVars, pc>>

\* Mutant of EndList: the loop stops one id short.
EndListShort(r) ==
  /\ pc[r] = "getTask"
  /\ Len(ids[r]) <= 1
  /\ Goto(r, "listed")
  /\ UNCHANGED <<writerVars, ids, readerVars>>

\* ListTasks returns its list and no error.
EndList(r) ==
  /\ pc[r] = "getTask"
  /\ ids[r] = << >>
  /\ Goto(r, "listed")
  /\ UNCHANGED <<writerVars, ids, readerVars>>

SaveTask(w) == \/ \E id \in Ids : SaveRecord(w, id) \/ SaveRecordFails(w, id)
               \/ FoundInIndex(w) \/ AppendToCopy(w) \/ ReadIndexFails(w)
               \/ WriteIndex(w) \/ WriteIndexFails(w)

ListTasks(r) == BeginList(r) \/ CollectNext(r) \/ EndList(r)

Next == \/ \E w \in Writers : SaveTask(w)
        \/ \E r \in Readers : ListTasks(r)

Spec == Init /\ [][Next]_vars

-------------------------------------------------------------------------------
(* Properties *)

\* Every variable has its type.
TypeOK ==
  /\ saved \subseteq Ids
  /\ index \in Seq(Ids)
  /\ pc \in [Clients -> {"idle", "readIndex", "writeIndex", "getTask", "listed"}]
  /\ \A w \in Writers : pc[w] \in {"idle", "readIndex", "writeIndex"}
  /\ arg \in [Writers -> Ids]
  /\ ids \in [Clients -> Seq(Ids)]
  /\ listed \in [Readers -> Seq(Ids)]
  /\ confirmed \subseteq saved
  /\ disturbed \in BOOLEAN
  /\ owed \in [Readers -> SUBSET Ids]

\* However SaveTasks interleave and whatever requests fail, the index and every
\* list about to replace it name each task at most once and only tasks with a
\* record: ListTasks never reports a task twice nor skips one for want of a
\* record (store.go:31-55).
IndexSound ==
  /\ IsInjective(index) /\ ToSet(index) \subseteq saved
  /\ \A w \in Writers :
       pc[w] = "writeIndex" => IsInjective(ids[w]) /\ ToSet(ids[w]) \subseteq saved

\* As long as no SaveTask has taken a copy of the index while another held one,
\* and no read of it has failed, a task whose SaveTask returned nil is in the
\* index (store.go:36-55); failed writes and failed lists do not matter.
ConfirmedIndexed == ~disturbed => confirmed \subseteq ToSet(index)

\* As long as that is so, no step takes a task out of the index.
IndexNeverForgets == [][~disturbed => ToSet(index) \subseteq ToSet(index')]_vars

\* A list that ListTasks returns has every task confirmed before it was asked
\* for but those whose read failed, and no task twice, although the index may
\* change while the records are being read one by one (store.go:71-85).
ListComplete ==
  \A r \in Readers : pc[r] = "listed" =>
    owed[r] \subseteq ToSet(listed[r]) /\ IsInjective(listed[r])

\* What "list all tasks" asks for: every saved task is in the index.
EverySavedListed == confirmed \subseteq ToSet(index)
===============================================================================
