--------------------------- MODULE StateStoreProofs ---------------------------
(***************************************************************************)
(* Proofs about StateStore, for any number of tasks, writers and readers   *)
(* and whether requests fail or not.                                       *)
(***************************************************************************)
EXTENDS StateStore, SeqLemmas

\* A writer past its first request has written its record.  What it is about to
\* write holds its own task and, in an undisturbed store, the whole index; and
\* then it is the only one.
WriterInv ==
  /\ \A w \in Writers : pc[w] # "idle" => arg[w] \in saved
  /\ ~disturbed => \A w \in Writers : pc[w] = "writeIndex" =>
       /\ ToSet(index) \cup {arg[w]} \subseteq ToSet(ids[w])
       /\ \A v \in Writers : pc[v] = "writeIndex" => v = w

\* What a reader owes is collected or still ahead of it, and nothing is both.
ReaderInv ==
  \A r \in Readers :
    /\ IsInjective(listed[r]) /\ IsInjective(ids[r])
    /\ ToSet(listed[r]) \cap ToSet(ids[r]) = {}
    /\ pc[r] \in {"getTask", "listed"} => owed[r] \subseteq ToSet(listed[r]) \cup ToSet(ids[r])
    /\ pc[r] = "listed" => ids[r] = << >>

\* The inductive invariant.
IInv == TypeOK /\ IndexSound /\ WriterInv /\ ConfirmedIndexed /\ ReaderInv

LEMMA InitIInv == Init => IInv
<1> SUFFICES ASSUME Init PROVE IInv
  OBVIOUS
<1> USE DEF Init, Clients
<1>1. TypeOK
  <2>1. << >> \in Seq(Ids)
    OBVIOUS
  <2>2. /\ ids \in [Clients -> Seq(Ids)] /\ listed \in [Readers -> Seq(Ids)]
        /\ index \in Seq(Ids)
    BY <2>1
  <2>3. QED BY <2>2 DEF TypeOK
<1>2. IndexSound
  BY ShortLists DEF IndexSound
<1>3. WriterInv /\ ConfirmedIndexed
  BY DEF WriterInv, ConfirmedIndexed
<1>4. ReaderInv
  BY ShortLists DEF ReaderInv
<1>5. QED BY <1>1, <1>2, <1>3, <1>4 DEF IInv

\* A step of a writer that leaves every index and copy alone.
LEMMA SaveRecordIInv ==
  ASSUME IInv, NEW w \in Writers, NEW id \in Ids,
         SaveRecord(w, id) \/ SaveRecordFails(w, id)
  PROVE  IInv'
<1> USE DEF SaveRecord, SaveRecordFails, Goto, readerVars
<1> USE RolesAssumption
<1>1. TypeOK'
  BY DEF IInv, TypeOK, Clients
<1>2. IndexSound' /\ ConfirmedIndexed'
  BY DEF IInv, TypeOK, Clients, IndexSound, ConfirmedIndexed
<1>3. WriterInv'
  BY DEF IInv, TypeOK, Clients, WriterInv
<1>4. ReaderInv'
  BY DEF IInv, TypeOK, Clients, ReaderInv
<1>5. QED BY <1>1, <1>2, <1>3, <1>4 DEF IInv

LEMMA FoundInIndexIInv ==
  ASSUME IInv, NEW w \in Writers, FoundInIndex(w)
  PROVE  IInv'
<1> USE DEF FoundInIndex, Goto, readerVars
<1> USE RolesAssumption
<1>1. TypeOK'
  BY DEF IInv, TypeOK, Clients, IndexSound
<1>2. IndexSound' /\ WriterInv' /\ ConfirmedIndexed'
  BY DEF IInv, TypeOK, Clients, IndexSound, WriterInv, ConfirmedIndexed
<1>3. ReaderInv'
  BY DEF IInv, TypeOK, Clients, ReaderInv
<1>4. QED BY <1>1, <1>2, <1>3 DEF IInv

\* A copy is made: of the index with the task appended, or after a failed read.
LEMMA AppendToCopyIInv ==
  ASSUME IInv, NEW w \in Writers, AppendToCopy(w)
  PROVE  IInv'
<1> USE DEF AppendToCopy, Goto, readerVars
<1> USE RolesAssumption
<1>0. arg[w] \in Ids /\ index \in Seq(Ids) /\ arg[w] \in saved
  BY DEF IInv, TypeOK, WriterInv
<1>1. /\ Append(index, arg[w]) \in Seq(Ids)
      /\ ToSet(Append(index, arg[w])) = ToSet(index) \cup {arg[w]}
      /\ IsInjective(Append(index, arg[w]))
  BY <1>0, AppendToSet, AppendKeepsInjective DEF IInv, IndexSound
<1>2. ids' = [ids EXCEPT ![w] = Append(index, arg[w])]
  OBVIOUS
<1> HIDE DEF AppendToCopy
<1>3. TypeOK'
  BY <1>1, <1>2 DEF IInv, TypeOK, Clients, AppendToCopy, CopyHeld
<1>4. IndexSound'
  BY <1>0, <1>1, <1>2 DEF IInv, TypeOK, Clients, IndexSound, AppendToCopy
<1>5. WriterInv'
  BY <1>0, <1>1, <1>2 DEF IInv, TypeOK, Clients, WriterInv, AppendToCopy, CopyHeld
<1>6. ConfirmedIndexed'
  BY DEF IInv, TypeOK, ConfirmedIndexed, AppendToCopy
<1>7. ReaderInv'
  BY <1>2 DEF IInv, TypeOK, Clients, ReaderInv, AppendToCopy
<1>8. QED BY <1>3, <1>4, <1>5, <1>6, <1>7 DEF IInv

LEMMA ReadIndexFailsIInv ==
  ASSUME IInv, NEW w \in Writers, ReadIndexFails(w)
  PROVE  IInv'
<1> USE DEF ReadIndexFails, Goto, readerVars
<1> USE RolesAssumption
<1>0. arg[w] \in Ids /\ arg[w] \in saved
  BY DEF IInv, TypeOK, WriterInv
<1>1. ToSet(<<arg[w]>>) = {arg[w]} /\ IsInjective(<<arg[w]>>) /\ <<arg[w]>> \in Seq(Ids)
  BY <1>0, ShortLists
<1>2. TypeOK'
  BY <1>1 DEF IInv, TypeOK, Clients
<1>3. IndexSound'
  BY <1>0, <1>1 DEF IInv, TypeOK, Clients, IndexSound
<1>4. WriterInv' /\ ConfirmedIndexed'
  BY <1>0 DEF IInv, TypeOK, Clients, WriterInv, ConfirmedIndexed
<1>5. ReaderInv'
  BY DEF IInv, TypeOK, Clients, ReaderInv
<1>6. QED BY <1>2, <1>3, <1>4, <1>5 DEF IInv

\* The index is replaced by a copy, or the request fails before.
LEMMA WriteIndexIInv ==
  ASSUME IInv, NEW w \in Writers, WriteIndex(w) \/ WriteIndexFails(w)
  PROVE  IInv'
<1> USE DEF WriteIndex, WriteIndexFails, Goto, readerVars
<1> USE RolesAssumption
<1>0. arg[w] \in saved /\ ids[w] \in Seq(Ids)
  BY DEF IInv, TypeOK, WriterInv, Clients
<1>1. TypeOK'
  BY <1>0 DEF IInv, TypeOK, Clients
<1>2. IndexSound'
  BY DEF IInv, TypeOK, Clients, IndexSound
<1>3. WriterInv'
  BY DEF IInv, TypeOK, Clients, WriterInv
<1>4. ConfirmedIndexed'
  BY DEF IInv, TypeOK, WriterInv, ConfirmedIndexed
<1>5. ReaderInv'
  BY DEF IInv, TypeOK, Clients, ReaderInv
<1>6. QED BY <1>1, <1>2, <1>3, <1>4, <1>5 DEF IInv

\* A reader takes a copy of the index, or of nothing.
LEMMA BeginListIInv ==
  ASSUME IInv, NEW r \in Readers, BeginList(r)
  PROVE  IInv'
<1> USE DEF BeginList, Goto, writerVars
<1> USE RolesAssumption
<1>1. TypeOK'
  <2>1. /\ ids' \in [Clients -> Seq(Ids)] /\ listed' \in [Readers -> Seq(Ids)]
        /\ owed' \in [Readers -> SUBSET Ids]
    <3>1. /\ index \in Seq(Ids) /\ << >> \in Seq(Ids) /\ r \in Clients
          /\ (IF disturbed THEN {} ELSE confirmed) \in SUBSET Ids
      BY DEF IInv, TypeOK, Clients
    <3>2. QED BY <3>1 DEF IInv, TypeOK
  <2>2. QED BY <2>1 DEF IInv, TypeOK, Clients
<1>2. IndexSound' /\ WriterInv' /\ ConfirmedIndexed'
  BY DEF IInv, TypeOK, Clients, IndexSound, WriterInv, ConfirmedIndexed
<1>3. ReaderInv'
  <2>1. ASSUME NEW q \in Readers, q # r
        PROVE  UNCHANGED <<ids[q], listed[q], owed[q], pc[q]>>
    BY <2>1 DEF IInv, TypeOK, Clients
  <2>2. /\ listed'[r] = << >> /\ pc'[r] = "getTask"
        /\ \/ ids'[r] = index /\ owed'[r] = IF disturbed THEN {} ELSE confirmed
           \/ ids'[r] = << >> /\ owed'[r] = {}
    BY DEF IInv, TypeOK, Clients
  <2>3. owed'[r] \subseteq ToSet(ids'[r]) /\ IsInjective(ids'[r])
    BY <2>2, ShortLists DEF IInv, IndexSound, ConfirmedIndexed
  <2>4. QED BY <2>1, <2>2, <2>3, ShortLists DEF IInv, ReaderInv
<1>4. QED BY <1>1, <1>2, <1>3 DEF IInv

\* A reader moves the head of its copy to its list, or drops it.
LEMMA CollectNextIInv ==
  ASSUME IInv, NEW r \in Readers, CollectNext(r)
  PROVE  IInv'
<1> USE RolesAssumption
<1> DEFINE h == Head(ids[r])
           t == Tail(ids[r])
<1>0. ids[r] \in Seq(Ids) /\ ids[r] # << >> /\ listed[r] \in Seq(Ids) /\ IsInjective(ids[r])
  BY DEF IInv, TypeOK, Clients, ReaderInv, CollectNext
<1>1. /\ h \in Ids /\ t \in Seq(Ids) /\ ToSet(ids[r]) = ToSet(t) \cup {h}
      /\ IsInjective(t) /\ h \notin ToSet(t)
  BY <1>0, TailToSet, TailKeepsInjective
<1>2. /\ Append(listed[r], h) \in Seq(Ids)
      /\ ToSet(Append(listed[r], h)) = ToSet(listed[r]) \cup {h}
      /\ IsInjective(Append(listed[r], h))
  <2>1. IsInjective(listed[r]) /\ h \notin ToSet(listed[r])
    BY <1>1 DEF IInv, ReaderInv
  <2>2. QED BY <1>0, <1>1, <2>1, AppendToSet, AppendKeepsInjective
<1>3. /\ ids' = [ids EXCEPT ![r] = t]
      /\ \/ listed' = [listed EXCEPT ![r] = Append(listed[r], h)] /\ owed' = owed
         \/ listed' = listed /\ owed' = [owed EXCEPT ![r] = owed[r] \ {h}]
      /\ UNCHANGED <<writerVars, pc>> /\ pc[r] = "getTask"
  BY DEF CollectNext
<1> HIDE DEF h, t
<1>4. TypeOK'
  BY <1>1, <1>2, <1>3 DEF IInv, TypeOK, Clients, writerVars
<1>5. IndexSound' /\ WriterInv' /\ ConfirmedIndexed'
  BY <1>3 DEF IInv, TypeOK, Clients, IndexSound, WriterInv, ConfirmedIndexed, writerVars
<1>6. ReaderInv'
  <2>1. ASSUME NEW q \in Readers, q # r
        PROVE  UNCHANGED <<ids[q], listed[q], owed[q], pc[q]>>
    BY <1>3, <2>1 DEF IInv, TypeOK, Clients
  <2>2. /\ ids'[r] = t /\ pc'[r] = "getTask"
        /\ \/ listed'[r] = Append(listed[r], h) /\ owed'[r] = owed[r]
           \/ listed'[r] = listed[r] /\ owed'[r] = owed[r] \ {h}
    BY <1>3 DEF IInv, TypeOK, Clients
  <2>3. /\ IsInjective(listed'[r]) /\ IsInjective(ids'[r])
        /\ ToSet(listed'[r]) \cap ToSet(ids'[r]) = {}
        /\ owed'[r] \subseteq ToSet(listed'[r]) \cup ToSet(ids'[r])
    <3>1. CASE listed'[r] = Append(listed[r], h) /\ owed'[r] = owed[r]
      BY <3>1, <1>1, <1>2, <1>3, <2>2 DEF IInv, ReaderInv
    <3>2. CASE listed'[r] = listed[r] /\ owed'[r] = owed[r] \ {h}
      BY <3>2, <1>1, <1>2, <1>3, <2>2 DEF IInv, ReaderInv
    <3>3. QED BY <3>1, <3>2, <2>2
  <2>4. QED BY <2>1, <2>2, <2>3 DEF IInv, ReaderInv
<1>7. QED BY <1>4, <1>5, <1>6 DEF IInv

LEMMA EndListIInv ==
  ASSUME IInv, NEW r \in Readers, EndList(r)
  PROVE  IInv'
<1> USE DEF EndList, Goto, writerVars, readerVars
<1> USE RolesAssumption
<1>1. TypeOK'
  BY DEF IInv, TypeOK, Clients
<1>2. IndexSound' /\ WriterInv' /\ ConfirmedIndexed'
  BY DEF IInv, TypeOK, Clients, IndexSound, WriterInv, ConfirmedIndexed
<1>3. ReaderInv'
  BY DEF IInv, TypeOK, Clients, ReaderInv
<1>4. QED BY <1>1, <1>2, <1>3 DEF IInv

LEMMA NextIInv == IInv /\ [Next]_vars => IInv'
<1> SUFFICES ASSUME IInv, [Next]_vars PROVE IInv'
  OBVIOUS
<1>1. ASSUME NEW w \in Writers, SaveTask(w) PROVE IInv'
  BY <1>1, SaveRecordIInv, FoundInIndexIInv, AppendToCopyIInv, ReadIndexFailsIInv,
     WriteIndexIInv DEF SaveTask
<1>2. ASSUME NEW r \in Readers, ListTasks(r) PROVE IInv'
  BY <1>2, BeginListIInv, CollectNextIInv, EndListIInv DEF ListTasks
<1>3. CASE UNCHANGED vars
  BY <1>3 DEF IInv, TypeOK, IndexSound, WriterInv, ConfirmedIndexed, ReaderInv, vars
<1>4. QED BY <1>1, <1>2, <1>3 DEF Next

\* What copies of the index contain, and what lists still owe, holds at every step.
THEOREM Invariance == Spec => []IInv
BY InitIInv, NextIInv, PTL DEF Spec

\* The state always has its type, and a confirmed task always has a record.
THEOREM TypeCorrect == Spec => []TypeOK
<1>1. IInv => TypeOK
  BY DEF IInv
<1>2. QED BY <1>1, Invariance, PTL

\* The index is sound whatever interleaves and whatever fails.
THEOREM IndexAlwaysSound == Spec => []IndexSound
<1>1. IInv => IndexSound
  BY DEF IInv
<1>2. QED BY <1>1, Invariance, PTL

\* An undisturbed index has every confirmed task.
THEOREM ConfirmedAlwaysIndexed == Spec => []ConfirmedIndexed
<1>1. IInv => ConfirmedIndexed
  BY DEF IInv
<1>2. QED BY <1>1, Invariance, PTL

\* Every list that is returned is complete.
THEOREM ListsComplete == Spec => []ListComplete
<1>1. IInv => ListComplete
  BY ShortLists DEF IInv, ReaderInv, ListComplete
<1>2. QED BY <1>1, Invariance, PTL

\* An undisturbed index only grows.
THEOREM IndexGrows == Spec => IndexNeverForgets
<1>1. IInv /\ [Next]_vars => [~disturbed => ToSet(index) \subseteq ToSet(index')]_vars
  <2> SUFFICES ASSUME IInv, Next, ~disturbed PROVE ToSet(index) \subseteq ToSet(index')
    OBVIOUS
  <2>1. ASSUME NEW w \in Writers, SaveTask(w), index' # index
        PROVE  pc[w] = "writeIndex" /\ index' = ids[w]
    BY <2>1 DEF SaveTask, SaveRecord, SaveRecordFails, FoundInIndex, AppendToCopy,
                ReadIndexFails, WriteIndex, WriteIndexFails
  <2>2. ASSUME NEW r \in Readers, ListTasks(r) PROVE index' = index
    BY <2>2 DEF ListTasks, BeginList, CollectNext, EndList, writerVars
  <2>3. QED BY <2>1, <2>2 DEF Next, IInv, WriterInv
<1>2. QED BY <1>1, Invariance, PTL DEF Spec, IndexNeverForgets
===============================================================================
