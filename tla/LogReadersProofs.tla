--------------------------- MODULE LogReadersProofs ----------------------------
(***************************************************************************)
(* Proofs about LogReaders, for a log of any length, any windows and any   *)
(* number of tasks and requests of the drawer.                             *)
(***************************************************************************)
EXTENDS LogReaders, SequenceTheorems, FiniteSetTheorems, WellFoundedInduction, TLAPS

\* The log only grows, and logs -follow owes no more than there is.
FollowInv == /\ log \in Seq(Kinds)
             /\ wrote \in Nat /\ wrote <= Len(log)
             /\ follow \in [at : {"begin", "wait", "fetch", "ended", "error"},
                            printed : Nat, saw : Live \cup {"verdict", "cancelled"}, owed : Nat]
             /\ status \in Live \cup {"verdict", "cancelled"}
             /\ follow.owed <= Len(log)
             /\ follow.at = "ended" => follow.printed >= follow.owed

LEMMA AppendKind ==
  ASSUME log \in Seq(Kinds), NEW kind \in Kinds
  PROVE  Append(log, kind) \in Seq(Kinds) /\ Len(Append(log, kind)) = Len(log) + 1
OBVIOUS

LEMMA FollowInductive == ASSUME FollowInv, [Next]_vars PROVE FollowInv'
<1> USE DEF FollowInv, Live
<1>1. ASSUME NEW kind \in Kinds, Write(kind) PROVE FollowInv'
  BY <1>1, AppendKind DEF Write
<1>2. CASE StartRun
  BY <1>2 DEF StartRun
<1>3. CASE EndRun
  BY <1>3 DEF EndRun
<1>4. CASE MarkCancelled
  BY <1>4 DEF MarkCancelled
<1>5. CASE Restart
  BY <1>5 DEF Restart
<1>6. CASE PrintLog
  <2>1. UNCHANGED <<log, wrote, status>> /\ Len(log) \in Nat
    BY <1>6 DEF PrintLog, Followed, task
  <2>2. CASE exists
    <3>1. follow' = [follow EXCEPT !.at = "wait", !.printed = Len(log)]
      BY <1>6, <2>2 DEF PrintLog, Followed
    <3>2. QED BY <2>1, <3>1
  <2>3. CASE ~exists
    <3>1. follow' = [follow EXCEPT !.at = "error"]
      BY <1>6, <2>3 DEF PrintLog, Followed
    <3>2. QED BY <2>1, <3>1
  <2>4. QED BY <2>2, <2>3
<1>7. CASE ReadStatus
  BY <1>7 DEF ReadStatus, Followed, task
<1>8. CASE FetchLog
  <2> DEFINE there == IF Len(log) > follow.printed THEN Len(log) ELSE follow.printed
  <2>1. /\ UNCHANGED <<log, wrote, status>>
        /\ there \in Nat /\ there >= Len(log) /\ Len(log) \in Nat
    BY <1>8 DEF FetchLog, Followed, task
  <2>2. CASE follow.saw \in Live
    <3>1. follow' = [follow EXCEPT !.at = "wait", !.printed = there]
      BY <1>8, <2>2 DEF FetchLog, Followed
    <3>2. QED BY <2>1, <3>1
  <2>3. CASE follow.saw \notin Live
    <3>1. follow' = [follow EXCEPT !.at = "ended", !.printed = there]
      BY <1>8, <2>3 DEF FetchLog, Followed
    <3>2. /\ follow'.printed = there /\ follow'.owed = follow.owed
          /\ follow.owed \in Nat /\ follow.owed <= Len(log)
      BY <3>1
    <3>3. follow'.printed >= follow'.owed
      BY <2>1, <3>2
    <3>4. follow' \in [at : {"begin", "wait", "fetch", "ended", "error"},
                       printed : Nat, saw : Live \cup {"verdict", "cancelled"}, owed : Nat]
      BY <2>1, <3>1
    <3>5. QED BY <2>1, <3>2, <3>3, <3>4
  <2>4. QED BY <2>2, <2>3
<1>9. CASE RequestFails
  BY <1>9 DEF RequestFails, Followed, task
<1>10. CASE UNCHANGED <<task, follow>>
  BY <1>10 DEF task
<1>11. QED
  BY <1>1, <1>2, <1>3, <1>4, <1>5, <1>6, <1>7, <1>8, <1>9, <1>10
     DEF Next, FollowStep, Search, ReceiveMatch, View, Close, Refresh, Answer, Searched, Drawn, vars

\* logs -follow that ends on a verdict has printed all that the run wrote.
THEOREM FollowPrintsAll == Spec => []FollowComplete
<1>1. Init => FollowInv
  BY DEF Init, FollowInv, Live
<1>2. FollowInv /\ [Next]_vars => FollowInv'
  BY FollowInductive
<1>3. FollowInv => FollowComplete
  BY DEF FollowInv, FollowComplete
<1>4. QED BY <1>1, <1>2, <1>3, PTL DEF Spec

-------------------------------------------------------------------------------
\* The last request of an open drawer is for the task it shows, and unless an
\* answer was late, that to the last request is the one on display.
DrawerType ==
  /\ drawer \in [selected : Tasks \cup {None}, open : BOOLEAN, shown : Tasks \cup {None},
                 loading : BOOLEAN, calls : Seq(Tasks), answered : SUBSET Nat, late : BOOLEAN]
  /\ drawer.answered \subseteq DOMAIN drawer.calls

LastCall ==
  LET last == Len(drawer.calls)
  IN  /\ last > 0
      /\ drawer.calls[last] = drawer.selected
      /\ ~drawer.late /\ last \in drawer.answered => drawer.shown = drawer.selected

DrawerInv == DrawerType /\ (drawer.open => LastCall)

LEMMA AppendCall ==
  ASSUME NEW calls \in Seq(Tasks), NEW t \in Tasks
  PROVE  /\ Append(calls, t) \in Seq(Tasks)
         /\ Len(Append(calls, t)) = Len(calls) + 1
         /\ Append(calls, t)[Len(calls) + 1] = t
         /\ DOMAIN calls = 1..Len(calls)
         /\ DOMAIN Append(calls, t) = 1..(Len(calls) + 1)
OBVIOUS

\* A request more, the drawer open: the answer to it is still to come.
LEMMA AnotherCall ==
  ASSUME DrawerInv, NEW t \in Tasks,
         drawer' = [drawer EXCEPT !.selected = t, !.open = TRUE, !.loading = TRUE,
                                  !.calls = Append(drawer.calls, t)]
  PROVE  DrawerInv'
<1>1. /\ drawer'.calls = Append(drawer.calls, t)
      /\ drawer'.selected = t
      /\ drawer'.answered = drawer.answered
      /\ drawer.calls \in Seq(Tasks)
  BY DEF DrawerInv, DrawerType
<1>2. /\ drawer.answered \subseteq 1..Len(drawer.calls)
      /\ Len(drawer'.calls) = Len(drawer.calls) + 1
      /\ Len(drawer'.calls) \notin drawer.answered
  BY <1>1, AppendCall DEF DrawerInv, DrawerType
<1>3. DrawerType'
  <2>1. DOMAIN drawer'.calls = 1..(Len(drawer.calls) + 1) /\ Len(drawer.calls) \in Nat
    BY <1>1, AppendCall
  <2>2. drawer'.answered \subseteq DOMAIN drawer'.calls
    BY <1>1, <1>2, <2>1
  <2>3. Append(drawer.calls, t) \in Seq(Tasks)
    BY <1>1, AppendCall
  <2>4. QED BY <2>2, <2>3 DEF DrawerInv, DrawerType
<1>4. LastCall'
  BY <1>1, <1>2, AppendCall DEF LastCall
<1>5. QED BY <1>3, <1>4 DEF DrawerInv

LEMMA DrawerInductive == ASSUME DrawerInv, [Next]_vars PROVE DrawerInv'
<1>1. ASSUME NEW t \in Tasks, View(t) PROVE DrawerInv'
  BY <1>1, AnotherCall DEF View, Drawn, fetchLogs, DrawerInv, DrawerType
<1>2. CASE Close
  BY <1>2 DEF Close, Drawn, DrawerInv, DrawerType
<1>3. CASE Refresh
  <2>1. drawer.selected \in Tasks
    BY <1>3 DEF Refresh, DrawerInv, DrawerType, LastCall
  <2>2. QED BY <2>1, <1>3, AnotherCall DEF Refresh, Drawn, fetchLogs, DrawerInv, DrawerType
<1>4. ASSUME NEW i \in DOMAIN drawer.calls, Answer(i) PROVE DrawerInv'
  <2> DEFINE last == Len(drawer.calls)
  <2>1. /\ i \in 1..last /\ i \in Nat /\ last \in Nat
        /\ drawer.calls \in Seq(Tasks) /\ drawer.calls[i] \in Tasks
        /\ drawer.answered \subseteq 1..last
    BY <1>4 DEF DrawerInv, DrawerType
  <2>2. drawer' = [drawer EXCEPT !.shown = drawer.calls[i], !.loading = FALSE,
                     !.answered = drawer.answered \cup {i},
                     !.late = drawer.late \/ \E j \in drawer.answered : j > i]
    BY <1>4 DEF Answer, Drawn
  <2>3. /\ drawer'.calls = drawer.calls
        /\ drawer'.selected = drawer.selected
        /\ drawer'.open = drawer.open
        /\ drawer'.shown = drawer.calls[i]
        /\ drawer'.answered = drawer.answered \cup {i}
        /\ drawer'.late = (drawer.late \/ \E j \in drawer.answered : j > i)
    BY <2>2 DEF DrawerInv, DrawerType
  <2>4. DrawerType'
    BY <2>1, <2>2, <2>3 DEF DrawerInv, DrawerType
  <2>5. ASSUME drawer.open PROVE LastCall'
    <3>1. LastCall
      BY <2>5 DEF DrawerInv
    <3>2. CASE i = last
      BY <2>1, <2>3, <3>1, <3>2 DEF LastCall
    <3>3. CASE i < last /\ last \in drawer.answered
      <4>1. drawer'.late
        BY <2>1, <2>3, <3>3
      <4>2. QED BY <2>3, <3>1, <4>1 DEF LastCall
    <3>4. CASE i < last /\ last \notin drawer.answered
      <4>1. last \notin drawer'.answered
        BY <2>1, <2>3, <3>4
      <4>2. QED BY <2>3, <3>1, <4>1 DEF LastCall
    <3>5. QED BY <2>1, <3>2, <3>3, <3>4
  <2>6. QED BY <2>3, <2>4, <2>5 DEF DrawerInv
<1>5. CASE UNCHANGED drawer
  BY <1>5 DEF DrawerInv, DrawerType, LastCall
<1>6. QED
  BY <1>1, <1>2, <1>3, <1>4, <1>5
     DEF Next, FollowStep, StartRun, Write, EndRun, MarkCancelled, Restart, PrintLog, ReadStatus,
         FetchLog, RequestFails, Followed, Search, ReceiveMatch, Searched, vars

\* The drawer shows the log of the task it is open for, once all is answered in order.
THEOREM DrawerShowsTheTask == Spec => []DrawerShowsSelected
<1>1. Init => DrawerInv
  BY DEF Init, DrawerInv, DrawerType
<1>2. DrawerInv /\ [Next]_vars => DrawerInv'
  BY DrawerInductive
<1>3. DrawerInv => DrawerShowsSelected
  BY DEF DrawerInv, DrawerType, LastCall, DrawerShowsSelected
<1>4. QED BY <1>1, <1>2, <1>3, PTL DEF Spec
-------------------------------------------------------------------------------
\* What was printed and what was found is in the log.
SearchInv == /\ search = [at |-> search.at, before |-> search.before, after |-> search.after,
                          matches |-> search.matches, results |-> search.results]
             /\ search.matches \subseteq 1..Len(log)
             /\ \A r \in search.results : r.line \in 1..Len(log)

RestInv == /\ exists \in BOOLEAN
           /\ run \in {"queued", "writing", "over"}
           /\ reader \in {"follow", "search", "drawer"}
           /\ follow.printed <= Len(log)
           /\ SearchInv

\* Whatever happens to a log that only grows, what was within it stays so.
LEMMA RestInductive == ASSUME FollowInv, RestInv, [Next]_vars PROVE RestInv'
<1> USE DEF RestInv
<1>1. log \in Seq(Kinds) /\ Len(log) \in Nat /\ follow.printed \in Nat
  BY DEF FollowInv
<1>2. ASSUME NEW kind \in Kinds, Write(kind) PROVE RestInv'
  <2>1. Len(log') = Len(log) + 1
    BY <1>2, AppendKind DEF Write, FollowInv
  <2>2. UNCHANGED <<exists, run, reader, follow, search>>
    BY <1>2 DEF Write
  <2>3. QED BY <2>1, <2>2, <1>1 DEF SearchInv
<1>3. CASE StartRun \/ EndRun \/ MarkCancelled \/ Restart
  BY <1>3 DEF StartRun, EndRun, MarkCancelled, Restart, SearchInv
<1>4. CASE FollowStep \/ RequestFails
  <2>1. UNCHANGED <<log, exists, run, reader, search>>
    BY <1>4 DEF FollowStep, RequestFails, PrintLog, ReadStatus, FetchLog, Followed, task
  <2>2. follow'.printed <= Len(log)
    <3>1. CASE PrintLog
      <4>1. follow'.printed \in {Len(log), follow.printed}
        BY <3>1 DEF PrintLog, Followed, FollowInv
      <4>2. QED BY <4>1, <1>1
    <3>2. CASE ReadStatus \/ RequestFails
      BY <3>2, <1>1 DEF ReadStatus, RequestFails, Followed, FollowInv
    <3>3. CASE FetchLog
      BY <3>3, <1>1 DEF FetchLog, Followed, FollowInv
    <3>4. QED BY <1>4, <3>1, <3>2, <3>3 DEF FollowStep
  <2>3. QED BY <2>1, <2>2 DEF SearchInv
<1>5. ASSUME NEW b \in Windows, NEW a \in Windows, Search(b, a) PROVE RestInv'
  <2>1. UNCHANGED <<log, exists, run, reader, follow>>
    BY <1>5 DEF Search, Searched, task
  <2>2. search' = [search EXCEPT !.at = "found", !.before = b, !.after = a,
                                 !.matches = {i \in 1..Len(log) : log[i] = "hit"}]
    BY <1>5 DEF Search, Searched
  <2>3. SearchInv'
    BY <2>1, <2>2 DEF SearchInv
  <2>4. QED BY <2>1, <2>3
<1>6. ASSUME NEW i \in search.matches, ReceiveMatch(i) PROVE RestInv'
  <2>1. UNCHANGED <<log, exists, run, reader, follow>>
    BY <1>6 DEF ReceiveMatch, Searched, task
  <2>2. PICK result : /\ result.line = i
                      /\ search' = [search EXCEPT !.matches = search.matches \ {i},
                                                  !.results = search.results \cup {result}]
    <3> DEFINE found == IF search.before > 0 \/ search.after > 0
                        THEN fillContext(i, search.before, search.after)
                        ELSE Around(i, <<>>, 0, 0, 0)
    <3>1. \A lines, n, b, a : Around(i, lines, n, b, a).line = i
      BY DEF Around
    <3>2. found.line = i
      BY <3>1 DEF fillContext
    <3>3. search' = [search EXCEPT !.matches = search.matches \ {i},
                                   !.results = search.results \cup {found}]
      BY <1>6 DEF ReceiveMatch, Searched
    <3>4. QED BY <3>2, <3>3
  <2>3. SearchInv'
    BY <2>1, <2>2 DEF SearchInv
  <2>4. QED BY <2>1, <2>3
<1>7. CASE UNCHANGED <<task, reader, follow, search>>
  BY <1>7 DEF task, SearchInv
<1>8. QED
  BY <1>2, <1>3, <1>4, <1>5, <1>6, <1>7 DEF Next, View, Close, Refresh, Answer, Drawn, vars

LEMMA InitReaders == Init => FollowInv /\ RestInv /\ DrawerInv
<1> SUFFICES ASSUME Init PROVE FollowInv /\ RestInv /\ DrawerInv
  OBVIOUS
<1>1. FollowInv
  BY DEF Init, FollowInv, Live
<1>2. DrawerInv
  BY DEF Init, DrawerInv, DrawerType
<1>3. SearchInv
  BY DEF Init, SearchInv
<1>4. follow.printed <= Len(log)
  <2>1. follow.printed = 0 /\ Len(log) = 0
    BY DEF Init
  <2>2. QED BY <2>1
<1>5. RestInv
  BY <1>3, <1>4 DEF Init, RestInv
<1>6. QED BY <1>1, <1>2, <1>5

\* The variables have their types, and no reader runs ahead of the log.
THEOREM ReadersTypeCorrect == Spec => []TypeOK
<1> DEFINE Inv == FollowInv /\ RestInv /\ DrawerInv
<1>1. Init => Inv
  BY InitReaders
<1>2. Inv /\ [Next]_vars => Inv'
  BY FollowInductive, RestInductive, DrawerInductive
<1>3. Inv => TypeOK
  BY DEF FollowInv, RestInv, SearchInv, DrawerInv, DrawerType, TypeOK
<1>4. QED BY <1>1, <1>2, <1>3, PTL DEF Spec

-------------------------------------------------------------------------------
(* Line numbers *)

\* Numbers counts from one number to another, if that is not below it.
LEMMA NumbersCount ==
  ASSUME NEW from \in Int, NEW to \in Int
  PROVE  /\ Numbers(from, to) \in Seq(Int)
         /\ Len(Numbers(from, to)) = IF from > to THEN 0 ELSE to - from + 1
         /\ \A i \in 1..Len(Numbers(from, to)) : Numbers(from, to)[i] = from + i - 1
<1> DEFINE n == IF from > to THEN 0 ELSE to - from + 1
           s == Numbers(from, to)
<1>1. n \in Nat /\ s = [i \in 1..n |-> from + i - 1]
  BY DEF Numbers
<1> HIDE DEF n, s
<1>2. s \in Seq(Int) /\ Len(s) = n
  BY <1>1
<1>3. QED BY <1>1, <1>2 DEF n, s

\* Sequences of integers are the same if their lengths and elements are.
LEMMA SameElements ==
  ASSUME NEW s \in Seq(Int), NEW t \in Seq(Int), Len(s) = Len(t),
         \A i \in 1..Len(s) : s[i] = t[i]
  PROVE  s = t
OBVIOUS

\* A part of some numbers in a row are numbers in a row.
LEMMA PartOfNumbers ==
  ASSUME NEW a \in Int, NEW e \in Int, NEW i \in Int, NEW j \in Int,
         i >= 1, j <= Len(Numbers(a, e))
  PROVE  SubSeq(Numbers(a, e), i, j) = Numbers(a + i - 1, a + j - 1)
<1> DEFINE s == Numbers(a, e)
           t == SubSeq(s, i, j)
           u == Numbers(a + i - 1, a + j - 1)
<1>1. s \in Seq(Int) /\ Len(s) \in Nat /\ \A k \in 1..Len(s) : s[k] = a + k - 1 /\ s[k] \in Int
  <2>1. /\ s \in Seq(Int)
        /\ Len(s) = IF a > e THEN 0 ELSE e - a + 1
        /\ \A k \in 1..Len(s) : s[k] = a + k - 1
    BY NumbersCount
  <2> HIDE DEF s
  <2>2. QED BY <2>1
<1>2. /\ u \in Seq(Int) /\ Len(u) = (IF i > j THEN 0 ELSE j - i + 1)
      /\ \A k \in 1..Len(u) : u[k] = (a + i - 1) + k - 1
  <2>1. a + i - 1 \in Int /\ a + j - 1 \in Int
    OBVIOUS
  <2>2. /\ u \in Seq(Int)
        /\ Len(u) = IF a + i - 1 > a + j - 1 THEN 0 ELSE (a + j - 1) - (a + i - 1) + 1
        /\ \A k \in 1..Len(u) : u[k] = (a + i - 1) + k - 1
    BY <2>1, NumbersCount
  <2> HIDE DEF u
  <2>3. QED BY <2>2
<1>3. j <= Len(s)
  OBVIOUS
<1> HIDE DEF s, u
<1>4. /\ t \in Seq(Int) /\ Len(t) = (IF i <= j THEN j - i + 1 ELSE 0)
      /\ \A k \in 1..(j - i + 1) : t[k] = s[i + k - 1]
  <2>1. \A k \in i..j : s[k] \in Int
    BY <1>1, <1>3
  <2>2. QED BY <2>1, SubSeqProperties
<1>5. \A k \in 1..(j - i + 1) : s[i + k - 1] = a + (i + k - 1) - 1
  BY <1>1, <1>3
<1> HIDE DEF t
<1>6. t = u
  <2>1. Len(t) = Len(u)
    BY <1>2, <1>4
  <2>2. ASSUME NEW k \in 1..Len(t) PROVE t[k] = u[k]
    <3>1. k \in 1..(j - i + 1) /\ k \in 1..Len(u) /\ k \in Int
      BY <1>4, <2>1
    <3>2. QED BY <3>1, <1>2, <1>4, <1>5
  <2>3. QED BY <1>2, <1>4, <2>1, <2>2, SameElements
<1>7. QED BY <1>6 DEF s, t, u

\* The Scanner yields the first lines of the log.
LEMMA ScannedAreFirst ==
  ASSUME log \in Seq(Kinds)
  PROVE  \E m \in 0..Len(log) : Scanned = 1..m
<1> DEFINE T == {i \in 1..Len(log) : log[i] = "long"}
<1>1. CASE T = {}
  <2>1. Scanned = 1..Len(log)
    BY <1>1 DEF Scanned
  <2>2. QED BY <2>1
<1>2. CASE T # {}
  <2>1. T \subseteq Nat
    OBVIOUS
  <2>2. PICK i \in T : \A j \in T : ~ (<<j, i>> \in OpToRel(<, Nat))
    BY <1>2, <2>1, WFMin, NatLessThanWellFounded
  <2>3. \A j \in T : ~ (j < i)
    BY <2>1, <2>2 DEF OpToRel
  <2>4. Scanned = 1..(i - 1)
    BY <2>3 DEF Scanned
  <2>5. QED BY <2>4
<1>3. QED BY <1>1, <1>2

-------------------------------------------------------------------------------
(* The context of a match *)

\* What fillContext makes of the log as it is: nothing is lost to the clipping at the
\* first line, at the end of the log or at a line that is too long.
LEMMA FilledInPlace ==
  ASSUME log \in Seq(Kinds), search.before \in Nat, search.after \in Nat,
         NEW line \in 1..Len(log)
  PROVE  ContextOf(fillContext(line, search.before, search.after))
<1> DEFINE r == fillContext(line, search.before, search.after)
           start == Start(line, search.before)
           b == search.before
           a == search.after
<1>1. PICK m \in 0..Len(log) : Scanned = 1..m
  BY ScannedAreFirst
<1> DEFINE e == IF m < line + a THEN m ELSE line + a
<1>2. /\ line \in Int /\ line >= 1 /\ Len(log) \in Nat /\ line <= Len(log)
      /\ b \in Nat /\ a \in Nat /\ m \in Nat /\ m <= Len(log)
  BY <1>1
<1>3. start \in Int /\ start >= 1 /\ start <= line /\ start >= line - b
      /\ (b = 0 => start = line) /\ (start > 1 => start = line - b)
  BY <1>2 DEF Start
<1>4. e \in Int /\ e >= 0 /\ e <= m /\ e <= line + a /\ (e < line + a => e = m)
  BY <1>2
<1> HIDE DEF a, b, start, e
<1>5. Read(start, line + a) = Numbers(start, e)
  <2>1. Scanned \cap 1..(line + a) = 1..e
    BY <1>1, <1>2, <1>4 DEF e
  <2>2. Cardinality(1..e) = e
    BY <1>4, FS_Interval
  <2>3. QED BY <2>1, <2>2 DEF Read
<1> DEFINE lines == Numbers(start, e)
           n == Len(lines)
<1>6. lines \in Seq(Int) /\ n = IF start > e THEN 0 ELSE e - start + 1
  BY <1>3, <1>4, NumbersCount
<1>7. r = [line |-> line, length |-> Len(log),
           before |-> IF b > 0 /\ line - start < n THEN SubSeq(lines, 1, line - start) ELSE <<>>,
           after |-> IF a > 0 THEN SubSeq(lines, line - start + 2, n) ELSE <<>>]
  BY <1>5 DEF fillContext, Around, a, b, start
<1> DEFINE around == Scanned \cap (line - b)..(line + a) \cap 1..Len(log)
           after == {i \in around : i > line}
           before == IF line \in Scanned THEN {i \in around : i < line} ELSE {}
<1>8. /\ after = (line + 1)..e
      /\ before = IF line <= m THEN start..(line - 1) ELSE {}
  <2>1. around = {i \in 1..e : i >= line - b}
    BY <1>1, <1>2, <1>3, <1>4
  <2>2. after = (line + 1)..e
    BY <2>1, <1>2, <1>4
  <2>3. CASE line <= m
    <3>1. line \in Scanned /\ line <= e
      BY <1>1, <1>2, <1>4, <2>3 DEF e
    <3>2. {i \in around : i < line} = start..(line - 1)
      BY <2>1, <1>2, <1>3, <1>4, <3>1
    <3>3. QED BY <2>2, <2>3, <3>1, <3>2
  <2>4. CASE ~(line <= m)
    BY <2>2, <2>4, <1>1, <1>2
  <2>5. QED BY <2>3, <2>4
<1> HIDE DEF around, after, before
<1>9. Cardinality(after) = IF line + 1 > e THEN 0 ELSE e - line
  <2>1. Cardinality((line + 1)..e) = IF line + 1 > e THEN 0 ELSE e - (line + 1) + 1
    BY <1>2, <1>4, FS_Interval
  <2>2. QED BY <2>1, <1>2, <1>4, <1>8
<1>10. Cardinality(before) = IF line <= m THEN line - start ELSE 0
  <2>1. Cardinality(start..(line - 1)) = IF start > line - 1 THEN 0 ELSE line - 1 - start + 1
    BY <1>2, <1>3, FS_Interval
  <2>2. Cardinality({}) = 0
    BY FS_EmptySet
  <2>3. QED BY <2>1, <2>2, <1>2, <1>3, <1>8
<1> HIDE DEF lines, n
<1>11. \A i, j \in Int : i >= 1 /\ j <= n => SubSeq(lines, i, j) = Numbers(start + i - 1, start + j - 1)
  BY <1>3, <1>4, PartOfNumbers DEF lines, n
<1>12. \A i, j \in Int : i > j => Numbers(i, j) = <<>>
  BY NumbersCount
<1>13. r.after = Numbers(line + 1, line + Cardinality(after))
  <2>1. CASE a > 0
    <3>1. n \in Int /\ n >= 0 /\ line - start + 2 \in Int /\ line - start + 2 >= 1
      BY <1>3, <1>4, <1>6, <1>2
    <3>2. r.after = Numbers(start + (line - start + 2) - 1, start + n - 1)
      BY <1>7, <1>11, <2>1, <3>1
    <3>3. start + (line - start + 2) - 1 = line + 1
      BY <1>2, <1>3
    <3>4. CASE start > e
      <4>1. n = 0 /\ line + 1 > e /\ start + n - 1 < line + 1
        BY <1>2, <1>3, <1>4, <1>6, <3>4
      <4>2. QED BY <1>2, <1>3, <1>9, <1>12, <3>2, <3>3, <4>1
    <3>5. CASE start <= e /\ line + 1 > e
      <4>1. start + n - 1 = e
        BY <1>3, <1>4, <1>6, <3>5
      <4>2. QED BY <1>2, <1>4, <1>9, <1>12, <3>2, <3>3, <3>5, <4>1
    <3>6. CASE line + 1 <= e
      <4>1. start + n - 1 = e /\ Cardinality(after) = e - line
        BY <1>2, <1>3, <1>4, <1>6, <1>9, <3>6
      <4>2. line + Cardinality(after) = e
        BY <1>2, <1>4, <4>1
      <4>3. QED BY <3>2, <3>3, <4>1, <4>2
    <3>7. QED BY <1>2, <1>3, <1>4, <3>4, <3>5, <3>6
  <2>2. CASE ~(a > 0)
    <3>1. a = 0 /\ line + 1 > e /\ line + 1 \in Int
      BY <1>2, <1>4, <2>2
    <3>2. r.after = << >> /\ Cardinality(after) = 0 /\ line + 0 = line
      BY <1>7, <1>9, <1>2, <2>2, <3>1
    <3>3. Numbers(line + 1, line) = << >>
      BY <1>2, <1>12, <3>1
    <3>4. QED BY <3>2, <3>3
  <2>3. QED BY <2>1, <2>2
<1>14. r.before = Numbers(line - Cardinality(before), line - 1)
  <2>1. line - start < n <=> line <= m
    BY <1>2, <1>3, <1>4, <1>6 DEF e
  <2>2. CASE b > 0 /\ line <= m
    <3>1. r.before = SubSeq(lines, 1, line - start)
      <4>1. b > 0 /\ line - start < n
        BY <2>1, <2>2
      <4>2. r.before = IF b > 0 /\ line - start < n THEN SubSeq(lines, 1, line - start) ELSE << >>
        BY <1>7
      <4>3. QED BY <4>1, <4>2, Zenon
    <3>2. line - start \in Int /\ line - start <= n /\ 1 \in Int /\ 1 >= 1
      BY <1>2, <1>3, <1>6, <1>4, <2>1, <2>2
    <3>3. r.before = Numbers(start + 1 - 1, start + (line - start) - 1)
      BY <1>11, <3>1, <3>2
    <3>4. start + 1 - 1 = start /\ start + (line - start) - 1 = line - 1
      BY <1>2, <1>3
    <3>5. line - Cardinality(before) = start
      BY <1>2, <1>3, <1>10, <2>2
    <3>6. QED BY <3>3, <3>4, <3>5
  <2>3. CASE ~(b > 0 /\ line <= m)
    <3>1. r.before = << >>
      BY <1>7, <2>1, <2>3
    <3>2. Cardinality(before) = 0
      BY <1>2, <1>3, <1>10, <2>3
    <3>3. Numbers(line - 0, line - 1) = << >>
      BY <1>2, <1>12
    <3>4. QED BY <3>1, <3>2, <3>3
  <2>4. QED BY <2>2, <2>3
<1>15. ContextOf(r)
  BY <1>7, <1>13, <1>14 DEF ContextOf, around, after, before, a, b
<1>16. QED BY <1>15

\* What is left out is right when no context was asked for.
LEMMA BareInPlace ==
  ASSUME log \in Seq(Kinds), search.before = 0, search.after = 0, NEW line \in 1..Len(log)
  PROVE  ContextOf(Around(line, << >>, 0, 0, 0))
<1> DEFINE r == Around(line, << >>, 0, 0, 0)
           around == Scanned \cap (r.line - search.before)..(r.line + search.after) \cap 1..r.length
           after == {i \in around : i > r.line}
           before == IF r.line \in Scanned THEN {i \in around : i < r.line} ELSE {}
<1>1. r.line = line /\ r.before = << >> /\ r.after = << >> /\ line \in Int
  BY DEF Around
<1>2. after = {} /\ before = {}
  BY <1>1
<1> HIDE DEF r, around, after, before
<1>3. Cardinality(after) = 0 /\ Cardinality(before) = 0 /\ line + 0 = line /\ line - 0 = line
  BY <1>1, <1>2, FS_EmptySet
<1>4. Numbers(line + 1, line) = << >> /\ Numbers(line, line - 1) = << >>
  BY <1>1, NumbersCount
<1>5. ContextOf(r)
  BY <1>1, <1>3, <1>4 DEF ContextOf, around, after, before
<1>6. QED BY <1>5 DEF r

\* Lines written later change nothing about the context as it was.
LEMMA ContextStays ==
  ASSUME log \in Seq(Kinds), NEW kind \in Kinds, log' = Append(log, kind),
         search'.before = search.before, search'.after = search.after,
         NEW r, r.length \in 0..Len(log), r.line \in 1..r.length, ContextOf(r)
  PROVE  ContextOf(r)'
<1>1. Len(log') = Len(log) + 1 /\ \A i \in 1..Len(log) : log'[i] = log[i]
  BY AppendKind
<1>2. Len(log) \in Nat
  OBVIOUS
<1>3. \A i \in 1..r.length : i \in Scanned' <=> i \in Scanned
  BY <1>1, <1>2 DEF Scanned
<1>4. Scanned' \cap 1..r.length = Scanned \cap 1..r.length /\ (r.line \in Scanned' <=> r.line \in Scanned)
  BY <1>3
<1> DEFINE around == Scanned \cap (r.line - search.before)..(r.line + search.after) \cap 1..r.length
           around1 == Scanned' \cap (r.line - search.before)..(r.line + search.after) \cap 1..r.length
<1>5. around1 = around
  BY <1>4
<1> HIDE DEF around, around1
<1>6. ContextOf(r)' <=>
        LET after == {i \in around1 : i > r.line}
            before == IF r.line \in Scanned' THEN {i \in around1 : i < r.line} ELSE {}
        IN  /\ r.after = Numbers(r.line + 1, r.line + Cardinality(after))
            /\ r.before = Numbers(r.line - Cardinality(before), r.line - 1)
  BY DEF ContextOf, around1, Numbers
<1>7. QED BY <1>4, <1>5, <1>6 DEF ContextOf, around

\* A window is fixed with the search, and every result is of the log as it once was.
ContextInv ==
  /\ search.before \in Nat /\ search.after \in Nat
  /\ search.at = "begin" => search.matches = {} /\ search.results = {}
  /\ \A r \in search.results :
       r.length \in 0..Len(log) /\ r.line \in 1..r.length /\ ContextOf(r)

LEMMA ContextInductive ==
  ASSUME FollowInv, RestInv, ContextInv, [Next]_vars PROVE ContextInv'
<1> USE ReaderAssumption DEF ContextInv
<1>1. log \in Seq(Kinds) /\ Len(log) \in Nat
  BY DEF FollowInv
<1>2. ASSUME NEW kind \in Kinds, Write(kind) PROVE ContextInv'
  <2>1. log' = Append(log, kind) /\ search' = search /\ Len(log') = Len(log) + 1
    BY <1>1, <1>2, AppendKind DEF Write
  <2>2. ASSUME NEW r \in search.results
        PROVE  r.length \in 0..Len(log') /\ r.line \in 1..r.length /\ ContextOf(r)'
    BY <1>1, <2>1, ContextStays
  <2>3. QED BY <2>1, <2>2
<1>3. ASSUME UNCHANGED <<log, search>> PROVE ContextInv'
  <2>1. Scanned' = Scanned
    BY <1>3 DEF Scanned
  <2>2. \A r : ContextOf(r)' <=> ContextOf(r)
    BY <1>3, <2>1 DEF ContextOf, Numbers
  <2>3. QED BY <1>3, <2>2
<1>4. ASSUME NEW b \in Windows, NEW a \in Windows, Search(b, a) PROVE ContextInv'
  <2>1. /\ search' = [search EXCEPT !.at = "found", !.before = b, !.after = a,
                                    !.matches = {i \in 1..Len(log) : log[i] = "hit"}]
        /\ search.at = "begin"
    BY <1>4 DEF Search, Searched
  <2>2. /\ search'.before = b /\ search'.after = a /\ search'.at = "found"
        /\ search'.results = search.results
    BY <2>1 DEF RestInv, SearchInv
  <2>3. QED BY <2>1, <2>2
<1>5. ASSUME NEW i \in search.matches, ReceiveMatch(i) PROVE ContextInv'
  <2> DEFINE found == IF search.before > 0 \/ search.after > 0
                      THEN fillContext(i, search.before, search.after)
                      ELSE Around(i, << >>, 0, 0, 0)
  <2>1. /\ search' = [search EXCEPT !.matches = search.matches \ {i},
                                    !.results = search.results \cup {found}]
        /\ log' = log /\ i \in 1..Len(log)
    BY <1>5 DEF ReceiveMatch, Searched, task, RestInv, SearchInv
  <2>2. found.line = i /\ found.length = Len(log)
    <3>1. \A lines, n, b, a : /\ Around(i, lines, n, b, a).line = i
                              /\ Around(i, lines, n, b, a).length = Len(log)
      BY DEF Around
    <3>2. QED BY <3>1 DEF fillContext
  <2>3. ContextOf(found)
    <3>1. CASE search.before > 0 \/ search.after > 0
      BY <1>1, <2>1, <3>1, FilledInPlace
    <3>2. CASE ~(search.before > 0 \/ search.after > 0)
      BY <1>1, <2>1, <3>2, BareInPlace
    <3>3. QED BY <3>1, <3>2
  <2> HIDE DEF found
  <2>4. /\ search'.before = search.before /\ search'.after = search.after
        /\ search'.at = search.at /\ search'.matches = search.matches \ {i}
        /\ search'.results = search.results \cup {found}
    BY <2>1 DEF RestInv, SearchInv
  <2>5. Scanned' = Scanned
    BY <2>1 DEF Scanned
  <2>6. \A r : ContextOf(r)' <=> ContextOf(r)
    BY <2>4, <2>5 DEF ContextOf, Numbers
  <2>7. search.at # "begin"
    BY <1>5
  <2>8. QED BY <1>1, <2>1, <2>2, <2>3, <2>4, <2>6, <2>7
<1>6. QED
  BY <1>2, <1>3, <1>4, <1>5
     DEF Next, FollowStep, StartRun, EndRun, MarkCancelled, Restart, PrintLog, ReadStatus, FetchLog,
         RequestFails, Followed, View, Close, Refresh, Answer, Drawn, vars, task

\* The context of each match is right, and stays so while the task writes on.
THEOREM ContextIsRight == Spec => []ContextRight
<1> DEFINE Inv == FollowInv /\ RestInv /\ ContextInv
<1>1. Init => Inv
  <2>1. Init => FollowInv /\ RestInv
    BY InitReaders
  <2>2. Init => ContextInv
    BY DEF Init, ContextInv
  <2>3. QED BY <2>1, <2>2
<1>2. Inv /\ [Next]_vars => Inv'
  BY FollowInductive, RestInductive, ContextInductive
<1>3. Inv => ContextRight
  BY DEF ContextInv, ContextRight
<1>4. QED BY <1>1, <1>2, <1>3, PTL DEF Spec

===============================================================================
