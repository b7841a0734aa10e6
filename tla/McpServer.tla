------------------------------- MODULE McpServer -------------------------------
(***************************************************************************)
(* The MCP server of pkg/api/mcp_handler.go: one loop that decodes a value *)
(* from stdin, calls an RPC handler and encodes the reply to stdout, and   *)
(* the process around it, which starts, serves gRPC clients beside the     *)
(* loop, runs tasks that write to the same stdout, and ends with the loop  *)
(* (main.go:333-407).                                                      *)
(*                                                                         *)
(* The handlers are modelled as far as the loop depends on them:           *)
(* RegisterConnection by module Connections, a submission by the channel   *)
(* of the worker, which it may find full, every other tool as a call that  *)
(* returns.  Values are named by their place in what the client sent.      *)
(***************************************************************************)
EXTENDS Connections, Sequences, FiniteSets

CONSTANTS Sendable,  \* the values the client may send
          MaxSent,   \* bound on the values sent to one process
          MaxNoise,  \* bound on what tasks write to the stdout of one process
          MaxBoots,  \* bound on the processes
          MaxAsked,  \* bound on the values and gRPC registrations, over all processes
          PipeCap,   \* what stdout holds before its writer blocks
          QueueCap,  \* capacity of the worker's channel (100 in the code)
          Mcp, Cli   \* the two goroutines that register connections

\* The tools that tools/list advertises.
Tools == {"submit_task", "deploy_infra", "get_task_status", "search_logs", "global_search",
          "restart_task", "cancel_task", "start_browser", "register_connection"}

\* A client calls methods and tools, advertised or not; "mistyped" is JSON that does
\* not fit JSONRPCRequest, "garbage" is not JSON.
Values == Tools \cup {"initialize", "tools/list", "unknown", "mistyped", "garbage"}

ASSUME McpAssumption == /\ Writers = {Mcp, Cli} /\ Mcp # Cli
                        /\ MaxSent \in Nat /\ MaxNoise \in Nat /\ MaxBoots \in Nat /\ MaxAsked \in Nat
                        /\ Sendable \subseteq Values
                        /\ PipeCap \in Nat \ {0} /\ QueueCap \in Nat \ {0}

VARIABLES sent,   \* what the client has sent to this process
          stdin,  \* "open", "closed", or "cut": closed in the middle of a value
          taken,  \* how many values the decoder has taken
          at,     \* where the loop is
          out,    \* what was written to stdout: the place a reply answers, or 0
          read,   \* how much of it the client has read
          queued, \* the tasks in the channel
          ctxDone, \* SIGTERM: the worker's loop has returned
          boots,  \* processes started
          asked   \* values and gRPC registrations so far

sessionVars == <<sent, stdin, taken, at, out, read, queued, ctxDone>>
vars == <<connectionVars, sessionVars, boots, asked>>

\* What handleRequest does with a method, and with a tool of tools/call: it
\* answers, or it submits a task or registers a connection first.  A method or
\* tool it does not know, or a notification, is answered by an error.
Dispatch(value) ==
  CASE value \in {"submit_task", "deploy_infra", "restart_task", "start_browser"} -> "submit"
    [] value = "register_connection" -> "register"
    [] OTHER -> "reply"

IsRequest(value) == value \notin {"mistyped", "garbage"}

Init == /\ ConnectionsInit
        /\ sent = << >> /\ stdin = "open" /\ taken = 0 /\ at = "decode"
        /\ out = << >> /\ read = 0 /\ queued = 0 /\ ctxDone = FALSE
        /\ boots = 0 /\ asked = 0

Loop(from, to) == /\ Serving
                  /\ at = from
                  /\ at' = to
                  /\ UNCHANGED <<sent, stdin, read, ctxDone, boots, asked>>

-------------------------------------------------------------------------------
(* ServeStdio *)

NextValue == sent[taken + 1]

\* Mutant of Decode: a value that does not fit is handed on.
DecodeAnything ==
  /\ taken < Len(sent)
  /\ Loop("decode", IF NextValue = "garbage" THEN "spin" ELSE Dispatch(NextValue))
  /\ taken' = taken + 1
  /\ UNCHANGED <<out, queued, connectionVars>>

\* Mutant of Decode: no error is told from another.
DecodeStopsAtAnyError ==
  /\ taken < Len(sent)
  /\ Loop("decode", IF IsRequest(NextValue) THEN Dispatch(NextValue) ELSE "spin")
  /\ taken' = taken + 1
  /\ UNCHANGED <<out, queued, connectionVars>>

\* A value that does not fit is skipped without a reply; after one that is not
\* JSON the decoder returns the same error for ever.
Decode ==
  /\ taken < Len(sent)
  /\ Loop("decode", CASE NextValue = "garbage" -> "spin"
                      [] NextValue = "mistyped" -> "decode"
                      [] OTHER -> Dispatch(NextValue))
  /\ taken' = taken + 1
  /\ UNCHANGED <<out, queued, connectionVars>>

\* Mutant of DecodeEof: the end of stdin is an error like any other.
DecodeEofContinues ==
  /\ taken = Len(sent)
  /\ stdin # "open"
  /\ Loop("decode", "spin")
  /\ UNCHANGED <<taken, out, queued, connectionVars>>

\* io.EOF ends the loop, io.ErrUnexpectedEOF is one more error that stays.
DecodeEof ==
  /\ taken = Len(sent)
  /\ stdin # "open"
  /\ Loop("decode", IF stdin = "closed" THEN "ended" ELSE "spin")
  /\ UNCHANGED <<taken, out, queued, connectionVars>>

\* log.Printf, continue.
Spin == Loop("spin", "spin") /\ UNCHANGED <<taken, out, queued, connectionVars>>

\* Encode writes the reply at once, and blocks while the client does not read.
Encode ==
  /\ Len(out) - read < PipeCap
  /\ Loop("reply", "decode")
  /\ out' = Append(out, taken)
  /\ UNCHANGED <<taken, queued, connectionVars>>

-------------------------------------------------------------------------------
(* handleRequest *)

\* SubmitTask and RestartTask, called by the loop itself: an error if the record
\* cannot be read or saved ...
CallSubmit == /\ Loop("submit", "send") \/ Loop("submit", "reply")
              /\ UNCHANGED <<taken, out, queued, connectionVars>>

\* Mutant of SendToQueue: the channel has no bound.
SendToQueueUnbounded == /\ Loop("send", "reply")
                        /\ queued' = queued + 1
                        /\ UNCHANGED <<taken, out, connectionVars>>

\* ... and the send to the channel, which blocks the loop while it is full.
SendToQueue == /\ queued < QueueCap
               /\ Loop("send", "reply")
               /\ queued' = queued + 1
               /\ UNCHANGED <<taken, out, connectionVars>>

\* RegisterConnection, called by the loop and by a gRPC client.
McpOpensFile == /\ \E n \in Components, url \in Urls : OpenFile(Mcp, n, url)
                /\ Loop("register", "write")
                /\ UNCHANGED <<taken, out, queued>>

McpWritesFile == /\ FillFile(Mcp) \/ WriteFails(Mcp)
                 /\ Loop("write", "reply")
                 /\ UNCHANGED <<taken, out, queued>>

CliRegisters == /\ \/ /\ asked < MaxAsked
                      /\ asked' = asked + 1
                      /\ \E n \in Components, url \in Urls : OpenFile(Cli, n, url)
                   \/ (FillFile(Cli) \/ WriteFails(Cli)) /\ UNCHANGED asked
                /\ UNCHANGED <<sessionVars, boots>>

McpStep == \/ Decode \/ DecodeEof \/ Spin \/ Encode
           \/ CallSubmit \/ SendToQueue \/ McpOpensFile \/ McpWritesFile

-------------------------------------------------------------------------------
(* The client, the tasks and the process *)

Around == Serving /\ UNCHANGED <<taken, at, boots, connectionVars>>

ClientSends(value) == /\ Around
                      /\ stdin = "open"
                      /\ Len(sent) < MaxSent
                      /\ sent' = Append(sent, value)
                      /\ asked < MaxAsked
                      /\ asked' = asked + 1
                      /\ UNCHANGED <<stdin, out, read, queued, ctxDone>>

ClientCloses == /\ Around
                /\ stdin = "open"
                /\ stdin' \in {"closed", "cut"}
                /\ UNCHANGED <<asked, sent, out, read, queued, ctxDone>>

ClientReads == /\ Around
               /\ read < Len(out)
               /\ read' = read + 1
               /\ UNCHANGED <<asked, sent, stdin, out, queued, ctxDone>>

\* The executor copies the output of a task to stdout, beside the replies.
Noise == {i \in DOMAIN out : out[i] = 0}
TaskWrites == /\ Around
              /\ Cardinality(Noise) < MaxNoise
              /\ Len(out) - read < PipeCap
              /\ out' = Append(out, 0)
              /\ UNCHANGED <<asked, sent, stdin, read, queued, ctxDone>>

WorkerTakes == /\ Around
               /\ ~ctxDone
               /\ queued > 0
               /\ queued' = queued - 1
               /\ UNCHANGED <<asked, sent, stdin, out, read, ctxDone>>

\* The context ends, and with it the worker's loop; that of the server does not
\* look at it.
Sigterm == /\ Around
           /\ ~ctxDone
           /\ ctxDone' = TRUE
           /\ UNCHANGED <<asked, sent, stdin, out, read, queued>>

Starts == /\ boot = "down" => boots < MaxBoots
          /\ Boot
          /\ boots' = IF boot = "down" THEN boots + 1 ELSE boots
          /\ UNCHANGED <<sessionVars, asked>>

\* The process ends at any point; the next one has a client of its own.
Crash == /\ ProcessEnds
         /\ sent' = << >> /\ stdin' = "open" /\ taken' = 0 /\ at' = "decode"
         /\ out' = << >> /\ read' = 0 /\ queued' = 0 /\ ctxDone' = FALSE
         /\ UNCHANGED <<boots, asked>>

\* runServer returns after ServeStdio.
Exit == at = "ended" /\ Crash

Next == \/ McpStep
        \/ CliRegisters
        \/ \E value \in Sendable : ClientSends(value)
        \/ ClientCloses \/ ClientReads
        \/ TaskWrites \/ WorkerTakes
        \/ Sigterm \/ Starts \/ Exit \/ Crash

\* The loop, the worker and a client that waits for replies go on; nobody has to
\* send, to close stdin or to stop the process.
Spec == /\ Init /\ [][Next]_vars
        /\ WF_vars(McpStep) /\ WF_vars(WorkerTakes) /\ WF_vars(ClientReads) /\ WF_vars(Exit)

-------------------------------------------------------------------------------
(* Properties *)

InHand == {"submit", "send", "register", "write", "reply"}

TypeOK == /\ ConnectionsTypeOK
          /\ sent \in Seq(Sendable)
          /\ stdin \in {"open", "closed", "cut"}
          /\ taken \in 0..Len(sent)
          /\ at \in {"decode", "spin", "ended"} \cup InHand
          /\ out \in Seq(Nat)
          /\ read \in 0..Len(out)
          /\ queued \in 0..QueueCap
          /\ ctxDone \in BOOLEAN
          /\ boots \in Nat /\ asked \in Nat

Answered == {out[i] : i \in DOMAIN out} \ {0}

\* The replies on stdout answer the requests that were read, in their order, each
\* once, and no value that is none, but for the request in hand: a client may
\* match them by place, whatever fails or blocks on the way
\* (mcp_handler.go:40-54).
RepliesInOrder ==
  /\ \A i, j \in DOMAIN out : i < j /\ out[i] # 0 /\ out[j] # 0 => out[i] < out[j]
  /\ Answered = {k \in 1..taken : IsRequest(sent[k])} \ (IF at \in InHand THEN {taken} ELSE {})

\* The loop waits for a channel that nobody will take from.
Stuck == ctxDone /\ at = "send" /\ queued = QueueCap

Clean(k) == \A j \in 1..k : sent[j] # "garbage"

\* A request is answered, unless something that is not JSON came before it, the
\* process ends, or SIGTERM has left the loop at a full channel
\* (mcp_handler.go:42, worker.go:35).
RequestsAnswered ==
  \A k \in 1..MaxSent :
    (Serving /\ k <= Len(sent) /\ Clean(k) /\ IsRequest(sent[k]))
      ~> (k \in Answered \/ ~Serving \/ Stuck)

\* The process ends when the client closes stdin, at the end of a value and with
\* nothing before it that is not JSON; then alone (mcp_handler.go:43).
EndsAtEof ==
  (Serving /\ stdin = "closed" /\ Clean(Len(sent))) ~> (~Serving \/ Stuck)
===============================================================================
