------------------------------ MODULE LogReaders -------------------------------
(***************************************************************************)
(* The readers of task logs, each beside a task that goes on writing:      *)
(*   - logs -follow, which polls status and log (main.go:532);             *)
(*   - SearchLogs and GlobalSearch, which read the file once for the       *)
(*     matches and once more for the context of each (grpc_handler.go:329);*)
(*   - the drawer of the admin UI, whose requests may be answered in any   *)
(*     order (TaskDetailsDrawer.tsx:59).                                   *)
(* They do not act on each other nor on the task, so that a behaviour has  *)
(* one of them, the "reader".                                              *)
(*                                                                         *)
(* A log is a sequence of lines: "hit" matches the pattern of the search,  *)
(* "long" is longer than the 64 KB a bufio.Scanner takes.                  *)
(***************************************************************************)
EXTENDS Integers, Sequences, FiniteSets

CONSTANTS Tasks,      \* the tasks the drawer may show
          None,
          MaxLines,   \* bound on the length of the log
          MaxCalls,   \* bound on the requests of the drawer
          Windows     \* the numbers of context lines asked for

ASSUME ReaderAssumption == /\ None \notin Tasks
                           /\ MaxLines \in Nat
                           /\ MaxCalls \in Nat
                           /\ Windows \subseteq Nat

VARIABLES log,     \* the lines of the file
          exists,  \* it is there: Execute has opened it once
          run,     \* of the task: queued, writing, over
          status,  \* in its record; "verdict" is any that the worker gives at the end
          wrote,   \* history: the length of the log at that moment
          reader,  \* follow, search or drawer
          follow,  \* logs -follow: where it is, what it printed, the status it read
          search,  \* the search: its window, matches without and with context
          drawer   \* the drawer: what it shows, the requests on the way

task == <<log, exists, run, status, wrote>>
vars == <<task, reader, follow, search, drawer>>

Kinds == {"plain", "hit", "long"}

Init == /\ log = <<>>
        /\ exists = FALSE
        /\ run = "queued"
        /\ status = "pending"
        /\ wrote = 0
        /\ reader \in {"follow", "search", "drawer"}
        /\ follow = [at |-> "begin", printed |-> 0, saw |-> "pending", owed |-> 0]
        /\ search = [at |-> "begin", before |-> 0, after |-> 0, matches |-> {}, results |-> {}]
        /\ drawer = [selected |-> None, open |-> FALSE, shown |-> None, loading |-> FALSE,
                     calls |-> <<>>, answered |-> {}, late |-> FALSE]

-------------------------------------------------------------------------------
(* The task, which appends to its log *)

\* Mutant of StartRun: O_TRUNC for O_APPEND.
StartRunTruncates == /\ run = "queued"
                     /\ run' = "writing"
                     /\ status' = "running"
                     /\ exists' = TRUE
                     /\ log' = <<>>
                     /\ UNCHANGED <<wrote, reader, follow, search, drawer>>

\* Execute opens the log to append to it.
StartRun == /\ run = "queued"
            /\ run' = "writing"
            /\ status' = "running"
            /\ exists' = TRUE
            /\ UNCHANGED <<log, wrote, reader, follow, search, drawer>>

Write(kind) == /\ run = "writing"
               /\ Len(log) < MaxLines
               /\ log' = Append(log, kind)
               /\ UNCHANGED <<exists, run, status, wrote, reader, follow, search, drawer>>

\* Execute has returned, and with it all output is in the log.
EndRun == /\ run = "writing"
          /\ run' = "over"
          /\ status' = "verdict"
          /\ wrote' = Len(log)
          /\ UNCHANGED <<log, exists, reader, follow, search, drawer>>

\* CancelTask marks the record of a task whose run goes on, and writes on.
MarkCancelled == /\ run # "over"
                 /\ status' = "cancelled"
                 /\ UNCHANGED <<log, exists, run, wrote, reader, follow, search, drawer>>

\* The new run appends to the same file.
Restart == /\ run = "over"
           /\ run' = "queued"
           /\ status' = "pending"
           /\ UNCHANGED <<log, exists, wrote, reader, follow, search, drawer>>

-------------------------------------------------------------------------------
(* logs -follow *)

Followed(next) == /\ reader = "follow"
                  /\ follow' = next
                  /\ UNCHANGED <<task, reader, search, drawer>>

\* Mutant of Live: a task that is cancelled counts as live.
LiveCancelled == {"pending", "running", "cancelled"}

Live == {"pending", "running"}

\* The first GetTaskLogs: an error if there is no file yet.
PrintLog ==
  /\ follow.at = "begin"
  /\ Followed(IF exists THEN [follow EXCEPT !.at = "wait", !.printed = Len(log)]
              ELSE [follow EXCEPT !.at = "error"])

\* A tick: GetTask first ...
ReadStatus ==
  /\ follow.at = "wait"
  /\ Followed([follow EXCEPT !.at = "fetch", !.saw = status, !.owed = wrote])

\* Mutant of FetchLog: it ends on the final status without a last look at the log.
FetchUnlessFinal ==
  /\ follow.at = "fetch"
  /\ Followed(IF follow.saw \in Live
              THEN [follow EXCEPT !.at = "wait", !.printed = Len(log)]
              ELSE [follow EXCEPT !.at = "ended"])

\* ... then GetTaskLogs: what is new is printed, and a final status ends the loop.
FetchLog ==
  /\ follow.at = "fetch"
  /\ Followed([follow EXCEPT !.at = IF follow.saw \in Live THEN "wait" ELSE "ended",
                             !.printed = IF Len(log) > @ THEN Len(log) ELSE @])

\* Any of the three requests may fail, and that ends the command.
RequestFails ==
  /\ follow.at \in {"begin", "wait", "fetch"}
  /\ Followed([follow EXCEPT !.at = "error"])

-------------------------------------------------------------------------------
(* SearchLogs and GlobalSearch *)

Numbers(from, to) == [i \in 1..(IF from > to THEN 0 ELSE to - from + 1) |-> from + i - 1]

\* The lines a Scanner yields: all before the first that is too long.
Scanned == {i \in 1..Len(log) : \A j \in 1..i : log[j] # "long"}

\* What is kept of the lines that were read, the match among them at matchIdx.
Around(line, lines, matchIdx, before, after) ==
  [line |-> line, length |-> Len(log),
   before |-> IF before > 0 /\ matchIdx < Len(lines) THEN SubSeq(lines, 1, matchIdx) ELSE <<>>,
   after |-> IF after > 0 THEN SubSeq(lines, matchIdx + 2, Len(lines)) ELSE <<>>]

\* The lines that fillContext reads, as line numbers: it counts those up to end that
\* the Scanner yields, and keeps them from start on.
Read(start, end) == Numbers(start, Cardinality(Scanned \cap 1..end))

Start(line, before) == IF line > before THEN line - before ELSE 1

\* Mutant of fillContext: the clipping at the first line is forgotten.
fillUnclipped(line, before, after) ==
  Around(line, Read(Start(line, before), line + after), before, before, after)

\* The context of a match; a length is kept of the log as it was (history).
fillContext(line, before, after) ==
  LET start == Start(line, before)
  IN  Around(line, Read(start, line + after), line - start, before, after)

Searched(next) == /\ reader = "search"
                  /\ search' = next
                  /\ UNCHANGED <<task, reader, follow, drawer>>

\* The searcher sends the matching lines of the file as it is now ...
Search(before, after) ==
  /\ search.at = "begin"
  /\ exists
  /\ Searched([search EXCEPT !.at = "found", !.before = before, !.after = after,
                             !.matches = {i \in 1..Len(log) : log[i] = "hit"}])

\* ... and each gets its context from the file as it is when the match is received.
ReceiveMatch(i) ==
  /\ i \in search.matches
  /\ Searched([search EXCEPT
       !.matches = @ \ {i},
       !.results = @ \cup {IF search.before > 0 \/ search.after > 0
                           THEN fillContext(i, search.before, search.after)
                           ELSE Around(i, <<>>, 0, 0, 0)}])

-------------------------------------------------------------------------------
(* TaskDetailsDrawer *)

Drawn(next) == /\ reader = "drawer"
               /\ drawer' = next
               /\ UNCHANGED <<task, reader, follow, search>>

\* fetchLogs asks for the log of the task it was called with.
fetchLogs(d, t) == [d EXCEPT !.loading = TRUE, !.calls = Append(@, t)]

\* The effect, when the drawer opens or closes.
View(t) ==
  /\ ~drawer.open
  /\ Len(drawer.calls) < MaxCalls
  /\ Drawn(fetchLogs([drawer EXCEPT !.selected = t, !.open = TRUE], t))

Close ==
  /\ drawer.open
  /\ Drawn([drawer EXCEPT !.open = FALSE, !.shown = None])

Refresh ==
  /\ drawer.open
  /\ ~drawer.loading
  /\ Len(drawer.calls) < MaxCalls
  /\ Drawn(fetchLogs(drawer, drawer.selected))

\* Mutant of Answer: the log that was there first stays.
AnswerOnce(i) ==
  /\ i \in DOMAIN drawer.calls \ drawer.answered
  /\ Drawn([drawer EXCEPT !.shown = IF @ = None THEN drawer.calls[i] ELSE @,
                          !.loading = FALSE, !.answered = @ \cup {i},
                          !.late = @ \/ \E j \in drawer.answered : j > i])

\* The answer to any request on the way is shown.
Answer(i) ==
  /\ i \in DOMAIN drawer.calls \ drawer.answered
  /\ Drawn([drawer EXCEPT !.shown = drawer.calls[i], !.loading = FALSE,
                          !.answered = @ \cup {i},
                          !.late = @ \/ \E j \in drawer.answered : j > i])

-------------------------------------------------------------------------------
FollowStep == PrintLog \/ ReadStatus \/ FetchLog

Next == \/ StartRun \/ (\E kind \in Kinds : Write(kind)) \/ EndRun \/ MarkCancelled \/ Restart
        \/ FollowStep \/ RequestFails
        \/ \E b, a \in Windows : Search(b, a)
        \/ \E i \in search.matches : ReceiveMatch(i)
        \/ (\E t \in Tasks : View(t)) \/ Close \/ Refresh
        \/ \E i \in DOMAIN drawer.calls : Answer(i)

\* The loop of logs -follow goes on ticking.
Spec == Init /\ [][Next]_vars /\ WF_vars(FollowStep)

-------------------------------------------------------------------------------
(* Properties *)

\* Every variable has its type; a reader never runs ahead of the log.
TypeOK ==
  /\ log \in Seq(Kinds)
  /\ exists \in BOOLEAN
  /\ run \in {"queued", "writing", "over"}
  /\ status \in Live \cup {"verdict", "cancelled"}
  /\ wrote \in 0..Len(log)
  /\ reader \in {"follow", "search", "drawer"}
  /\ follow.at \in {"begin", "wait", "fetch", "ended", "error"}
  /\ follow.printed \in 0..Len(log) /\ follow.owed \in 0..Len(log)
  /\ search.matches \subseteq 1..Len(log)
  /\ \A r \in search.results : r.line \in 1..Len(log)
  /\ drawer.selected \in Tasks \cup {None} /\ drawer.shown \in Tasks \cup {None}
  /\ drawer.calls \in Seq(Tasks) /\ drawer.answered \subseteq DOMAIN drawer.calls

\* logs -follow that ends on the verdict of a run has printed all that the run
\* wrote, however the ticks fall between its last lines and its verdict
\* (main.go:557-582, pkg/skill/SKILL.md:69).
FollowComplete ==
  follow.at = "ended" /\ follow.saw = "verdict" => follow.printed >= follow.owed

\* Once a task stays final, cancelled or not, logs -follow ends.
FollowEnds ==
  (<>[](status \in {"verdict", "cancelled"})) => <>(reader # "follow" \/ follow.at \in {"ended", "error"})

\* The lines before and after a match are those that the Scanner yields there, of the
\* window and of the log as it was.
ContextOf(r) ==
  LET around == Scanned \cap (r.line - search.before)..(r.line + search.after) \cap 1..r.length
      after == {i \in around : i > r.line}
      before == IF r.line \in Scanned THEN {i \in around : i < r.line} ELSE {}
  IN  /\ r.after = Numbers(r.line + 1, r.line + Cardinality(after))
      /\ r.before = Numbers(r.line - Cardinality(before), r.line - 1)

\* The context of a match is the lines right before and right after it, with no
\* gap, none from beyond the window, the start or the end of the file, and none
\* missing but for lines that a line too long for the Scanner hides; whatever is
\* written between the search and the second look (grpc_handler.go:434-469).
ContextRight == \A r \in search.results : ContextOf(r)

\* The drawer shows the log of the task it is open for when all its requests
\* have been answered, unless one was answered after a later one
\* (TaskDetailsDrawer.tsx:64-83).
DrawerShowsSelected ==
  drawer.open /\ drawer.answered = DOMAIN drawer.calls /\ ~drawer.late
    => drawer.shown = drawer.selected
===============================================================================
