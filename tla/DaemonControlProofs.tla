-------------------------- MODULE DaemonControlProofs --------------------------
(***************************************************************************)
(* Proofs about DaemonControl, for any number of commands, daemons and     *)
(* files, with and without crashes.                                        *)
(***************************************************************************)
EXTENDS DaemonControl, TLAPS

\* The daemon holds the lock of the PID file it has open.
Locking == {"search", "check", "reborn", "named", "notified", "serving", "leaving"}
\* It has removed the name of the file, and the lock has gone.
Unlocked == {"unlocked", "released"}

PlaceInv ==
  /\ \A p \in Procs : at[p] \in Locking \cup Unlocked \cup Gone
  /\ \A c \in Cmds : at[c] \in {"idle", "search", "check", "reborn", "lock",
                                "stopSearch", "stopCheck", "signal", "wait"}
  /\ \A c \in Cmds : /\ at[c] = "lock" => open[c] \in Files
                     /\ at[c] = "signal" => seen[c] \in Procs

LockInv ==
  \A p \in Procs : /\ at[p] \in Locking => open[p] \in Files /\ lock[open[p]] = p
                   /\ at[p] \in Unlocked => open[p] \in Files
                   /\ at[p] \in Gone => open[p] = NoFile

\* A daemon that serves, or is about to, is the one its file names; one that is
\* leaving has removed the name, which its file does not get back while it is open.
NameInv ==
  \A p \in Procs : /\ at[p] \in InServer => content[open[p]] = p
                   /\ at[p] \in Unlocked \cup {"leaving"} => open[p] # named

\* The inductive invariant.
DInv == TypeOK /\ PlaceInv /\ LockInv /\ NameInv

USE DaemonAssumption DEF Agents, Gone, InServer, Locking, Unlocked

LEMMA InitDInv == Init => DInv
BY DEF Init, DInv, TypeOK, PlaceInv, LockInv, NameInv

-------------------------------------------------------------------------------
\* A command or a process goes on, with the files as they are.
Places == {"idle", "search", "check", "reborn", "lock", "stopSearch", "stopCheck", "signal",
           "wait", "named", "notified", "serving", "leaving", "unlocked", "released",
           "unused", "dead"}

LEMMA QuietDInv ==
  ASSUME DInv, NEW a \in Agents, NEW label \in Places,
         Goto(a, label), UNCHANGED <<named, content, lock, open>>,
         seen' \in [Agents -> Procs \cup {NoProc}],
         port' \in Procs \cup {NoProc}, term' \subseteq Procs,
         again' \subseteq Cmds, hit' \in BOOLEAN,
         a \in Procs => at[a] \in Locking /\ label \in Locking \ {"leaving"}
                        /\ (label \in InServer => at[a] \in InServer),
         a \in Cmds => label \in {"idle", "search", "check", "reborn",
                                  "stopSearch", "stopCheck", "signal", "wait"},
         \A c \in Cmds : at'[c] = "signal" => seen'[c] \in Procs
  PROVE  DInv'
<1> USE DEF Goto
<1>1. TypeOK'
  BY DEF DInv, TypeOK, Places
<1>2. PlaceInv'
  BY DEF DInv, TypeOK, PlaceInv
<1>3. LockInv'
  BY DEF DInv, TypeOK, PlaceInv, LockInv
<1>4. NameInv'
  BY DEF DInv, TypeOK, PlaceInv, NameInv
<1>5. QED BY <1>1, <1>2, <1>3, <1>4 DEF DInv

\* The same for a command, which keeps the PID it has seen or has another.
LEMMA CommandDInv ==
  ASSUME DInv, NEW c \in Cmds,
         NEW label \in {"idle", "search", "check", "reborn", "stopSearch", "stopCheck",
                        "signal", "wait"},
         NEW v \in Procs \cup {NoProc}, label = "signal" => v \in Procs,
         Goto(c, label), seen' = [seen EXCEPT ![c] = v],
         UNCHANGED <<named, content, lock, open, port>>,
         term' \subseteq Procs, again' \subseteq Cmds, hit' \in BOOLEAN
  PROVE  DInv'
<1>1. label \in Places /\ c \in Agents /\ c \notin Procs
  BY DEF Places
<1>2. seen' \in [Agents -> Procs \cup {NoProc}] /\ port' \in Procs \cup {NoProc}
  BY DEF DInv, TypeOK
<1>3. \A b \in Cmds : at'[b] = "signal" => seen'[b] \in Procs
  BY DEF Goto, DInv, TypeOK, PlaceInv
<1>4. QED BY <1>1, <1>2, <1>3, QuietDInv

LEMMA SeenAgain == ASSUME DInv, NEW c \in Cmds
                   PROVE  seen = [seen EXCEPT ![c] = seen[c]] /\ seen[c] \in Procs \cup {NoProc}
BY DEF DInv, TypeOK

\* A process ends: nobody else has its lock.
LEMMA DiesDInv ==
  ASSUME DInv, NEW p \in Procs, Dies(p), hit' \in BOOLEAN
  PROVE  DInv'
<1> USE DEF Dies, Frees, Forget
<1>1. TypeOK'
  BY DEF DInv, TypeOK
<1>2. PlaceInv'
  BY DEF DInv, TypeOK, PlaceInv
<1>3. LockInv'
  BY DEF DInv, TypeOK, LockInv
<1>4. NameInv'
  BY DEF DInv, TypeOK, NameInv
<1>5. QED BY <1>1, <1>2, <1>3, <1>4 DEF DInv

\* The name is removed: no file that is open gets it back.
LEMMA RemoveDInv ==
  ASSUME DInv, NEW a \in Agents, NEW label \in Places, RemovePidFile(a, label),
         \/ at[a] = "check" /\ label = "reborn"
         \/ a \in Procs /\ at[a] = "serving" /\ label = "leaving"
         \/ a \in Procs /\ at[a] = "unlocked" /\ label = "released"
  PROVE  DInv'
<1> USE DEF RemovePidFile, Goto, Forget, server
<1>1. TypeOK'
  BY DEF DInv, TypeOK
<1>2. PlaceInv'
  BY DEF DInv, TypeOK, PlaceInv
<1>3. LockInv'
  BY DEF DInv, TypeOK, PlaceInv, LockInv
<1>4. NameInv'
  BY DEF DInv, TypeOK, PlaceInv, LockInv, NameInv
<1>5. QED BY <1>1, <1>2, <1>3, <1>4 DEF DInv

-------------------------------------------------------------------------------
(* startDaemon *)

LEMMA OpenDInv == ASSUME DInv, NEW c \in Agents, OpenPidFile(c) PROVE DInv'
<1>1. PICK f \in Files :
        /\ open' = [open EXCEPT ![c] = f]
        /\ \/ named = f /\ UNCHANGED <<named, content>>
           \/ /\ named = NoFile
              /\ \A a \in Agents : open[a] # f
              /\ named' = f
              /\ content' = [content EXCEPT ![f] = NoProc]
  BY DEF OpenPidFile
<1>2. /\ c \in Cmds /\ at' = [at EXCEPT ![c] = "lock"]
      /\ UNCHANGED <<seen, lock, port, term, again, hit>>
  BY DEF OpenPidFile, Goto, server
<1>3. TypeOK'
  <2>1. \A g \in Files : lock[g] # NoProc => lock[g] # c
    BY <1>2 DEF DInv, TypeOK
  <2>2. QED BY <1>1, <1>2, <2>1 DEF DInv, TypeOK
<1>4. PlaceInv'
  BY <1>1, <1>2 DEF DInv, TypeOK, PlaceInv
<1>5. LockInv'
  BY <1>1, <1>2 DEF DInv, TypeOK, LockInv
<1>6. NameInv'
  BY <1>1, <1>2 DEF DInv, TypeOK, LockInv, NameInv
<1>7. QED BY <1>3, <1>4, <1>5, <1>6 DEF DInv

\* The file is not locked, so that no daemon but one that is leaving has it.
LEMMA LaunchDInv ==
  ASSUME DInv, NEW c \in Agents, NEW p \in Procs, Launch(c, p) PROVE DInv'
<1>1. /\ c \in Cmds /\ c # p /\ open[c] \in Files /\ at[p] = "unused"
      /\ lock[open[c]] = NoProc
  BY DEF Launch, DInv, PlaceInv
<1>2. /\ lock' = [lock EXCEPT ![open[c]] = p]
      /\ at' = [at EXCEPT ![c] = "idle", ![p] = "search"]
      /\ open' = [open EXCEPT ![c] = NoFile, ![p] = open[c]]
      /\ UNCHANGED <<seen, named, content, port, term, again, hit>>
  BY DEF Launch, server
<1>3. TypeOK'
  <2>1. \A g \in Files : lock[g] # NoProc => lock[g] # c /\ lock[g] # p
    BY <1>1 DEF DInv, TypeOK, LockInv
  <2>2. QED BY <1>1, <1>2, <2>1 DEF DInv, TypeOK
<1>4. PlaceInv'
  BY <1>1, <1>2 DEF DInv, TypeOK, PlaceInv
<1>5. LockInv'
  BY <1>1, <1>2 DEF DInv, TypeOK, LockInv
<1>6. NameInv'
  BY <1>1, <1>2 DEF DInv, TypeOK, LockInv, NameInv
<1>7. QED BY <1>3, <1>4, <1>5, <1>6 DEF DInv

LEMMA LaunchFailsDInv == ASSUME DInv, NEW c \in Agents, LaunchFails(c) PROVE DInv'
<1>1. /\ c \in Cmds /\ at' = [at EXCEPT ![c] = "idle"]
      /\ open' = [open EXCEPT ![c] = NoFile]
      /\ UNCHANGED <<seen, named, content, lock, port, term, again, hit>>
  BY DEF LaunchFails, Goto, server, DInv, PlaceInv
<1>2. TypeOK'
  <2>1. \A g \in Files : lock[g] # NoProc => lock[g] # c
    BY <1>1 DEF DInv, TypeOK
  <2>2. QED BY <1>1, <2>1 DEF DInv, TypeOK
<1>3. PlaceInv'
  BY <1>1 DEF DInv, TypeOK, PlaceInv
<1>4. LockInv' /\ NameInv'
  BY <1>1 DEF DInv, TypeOK, LockInv, NameInv
<1>5. QED BY <1>2, <1>3, <1>4 DEF DInv

\* Two daemons do not have one file open with the lock of it, so that the PID
\* written is nobody else's.
LEMMA WritePidDInv == ASSUME DInv, NEW p \in Procs, WritePid(p) PROVE DInv'
<1>1. /\ open[p] \in Files /\ lock[open[p]] = p
      /\ content' = [content EXCEPT ![open[p]] = p]
      /\ at' = [at EXCEPT ![p] = "named"]
      /\ UNCHANGED <<seen, named, lock, open, port, term, again, hit>>
  BY DEF WritePid, Goto, server, DInv, LockInv
<1>2. TypeOK'
  BY <1>1 DEF DInv, TypeOK
<1>3. PlaceInv'
  BY <1>1 DEF DInv, TypeOK, PlaceInv
<1>4. LockInv'
  BY <1>1 DEF DInv, TypeOK, LockInv, WritePid
<1>5. NameInv'
  BY <1>1 DEF DInv, TypeOK, LockInv, NameInv
<1>6. QED BY <1>2, <1>3, <1>4, <1>5 DEF DInv

LEMMA StartDaemonDInv == ASSUME DInv, NEW a \in Agents, StartDaemon(a) PROVE DInv'
<1> USE DEF server, pidFile
<1>1. CASE StartSearch(a)
  <2>1. Found \in Procs \cup {NoProc}
    BY DEF Found, DInv, TypeOK
  <2>2. QED BY <1>1, <2>1, QuietDInv
            DEF StartSearch, Search, Goto, DInv, TypeOK, PlaceInv, Places
<1>2. CASE AlreadyRunning(a)
  <2>1. CASE a \in Procs
    BY <1>2, <2>1, DiesDInv DEF AlreadyRunning, DInv, TypeOK
  <2>2. CASE a \in Cmds
    <3>1. /\ Goto(a, "idle") /\ seen' = [seen EXCEPT ![a] = NoProc]
          /\ UNCHANGED <<named, content, lock, open, port, term, again, hit>>
      BY <1>2, <2>2 DEF AlreadyRunning, Forget
    <3>2. QED BY <2>2, <3>1, CommandDInv DEF DInv, TypeOK
  <2>3. QED BY <2>1, <2>2
<1>3. CASE RemoveStale(a)
  BY <1>3, RemoveDInv DEF RemoveStale, Places
<1>4. CASE NothingFound(a)
  BY <1>4, QuietDInv DEF NothingFound, Goto, DInv, TypeOK, PlaceInv, Places
<1>5. QED
  BY <1>1, <1>2, <1>3, <1>4, OpenDInv, LaunchFailsDInv, LaunchDInv DEF StartDaemon

-------------------------------------------------------------------------------
(* runServer *)

\* The file has lost its name, and nobody but the daemon has the lock.
LEMMA UnlockDInv == ASSUME DInv, NEW p \in Procs, Unlock(p) PROVE DInv'
<1>1. /\ at[p] = "leaving" /\ open[p] \in Files /\ lock[open[p]] = p /\ open[p] # named
      /\ lock' = [lock EXCEPT ![open[p]] = NoProc]
      /\ at' = [at EXCEPT ![p] = "unlocked"]
      /\ UNCHANGED <<seen, named, content, open, port, term, again, hit>>
  BY DEF Unlock, Goto, server, DInv, LockInv, NameInv
<1>2. TypeOK'
  BY <1>1 DEF DInv, TypeOK
<1>3. PlaceInv'
  BY <1>1 DEF DInv, TypeOK, PlaceInv
<1>4. LockInv'
  BY <1>1 DEF DInv, TypeOK, LockInv
<1>5. NameInv'
  BY <1>1 DEF DInv, TypeOK, NameInv
<1>6. QED BY <1>2, <1>3, <1>4, <1>5 DEF DInv

LEMMA RunServerDInv == ASSUME DInv, NEW p \in Procs, RunServer(p) PROVE DInv'
<1> USE DEF server, pidFile
<1>1. CASE NotifyContext(p)
  BY <1>1, QuietDInv DEF NotifyContext, Goto, DInv, TypeOK, PlaceInv, Places
<1>2. CASE Listen(p)
  BY <1>2, QuietDInv DEF Listen, Goto, DInv, TypeOK, PlaceInv, Places
<1>3. CASE ListenFails(p) \/ Exit(p)
  BY <1>3, DiesDInv DEF ListenFails, Exit, DInv, TypeOK
<1>4. CASE ShutDown(p) \/ Release(p)
  BY <1>4, RemoveDInv DEF ShutDown, Release, Places
<1>5. QED
  BY <1>1, <1>2, <1>3, <1>4, WritePidDInv, UnlockDInv DEF RunServer

-------------------------------------------------------------------------------
(* stopDaemon *)

LEMMA SignalKillsDInv == ASSUME DInv, NEW c \in Cmds, SignalKills(c) PROVE DInv'
<1> DEFINE p == seen[c]
<1>1. /\ p \in Procs /\ p # c
      /\ at' = [at EXCEPT ![c] = "wait", ![p] = "dead"]
      /\ open' = [open EXCEPT ![p] = NoFile]
      /\ port' = IF port = p THEN NoProc ELSE port
      /\ term' = term \ {p}
      /\ lock' = [f \in Files |-> IF lock[f] = p THEN NoProc ELSE lock[f]]
      /\ seen' = [seen EXCEPT ![p] = NoProc]
      /\ hit' = TRUE
      /\ UNCHANGED <<named, content, again>>
  BY DEF SignalKills, Frees, Forget, DInv, PlaceInv
<1> HIDE DEF p
<1>2. TypeOK'
  BY <1>1 DEF DInv, TypeOK
<1>3. PlaceInv'
  BY <1>1 DEF DInv, TypeOK, PlaceInv
<1>4. LockInv'
  BY <1>1 DEF DInv, TypeOK, LockInv
<1>5. NameInv'
  BY <1>1 DEF DInv, TypeOK, NameInv
<1>6. QED BY <1>2, <1>3, <1>4, <1>5 DEF DInv

LEMMA NotRunningDInv == ASSUME DInv, NEW c \in Cmds, NotRunning(c) PROVE DInv'
<1>1. /\ named' \in {named, NoFile}
      /\ \E label \in {"search", "idle"} : at' = [at EXCEPT ![c] = label]
      /\ seen' = [seen EXCEPT ![c] = NoProc]
      /\ again' \subseteq again
      /\ UNCHANGED <<content, lock, open, port, term, hit>>
  BY DEF NotRunning, EndStop, Goto, Forget
<1>2. TypeOK'
  BY <1>1 DEF DInv, TypeOK
<1>3. PlaceInv'
  BY <1>1 DEF DInv, TypeOK, PlaceInv
<1>4. LockInv'
  BY <1>1 DEF DInv, TypeOK, LockInv
<1>5. NameInv'
  BY <1>1 DEF DInv, TypeOK, LockInv, NameInv
<1>6. QED BY <1>2, <1>3, <1>4, <1>5 DEF DInv

\* The end of a stop leaves the files alone.
LEMMA EndStopDInv ==
  ASSUME DInv, NEW c \in Cmds, EndStop(c), UNCHANGED <<pidFile, port, term, hit>>
  PROVE  DInv'
<1>1. /\ seen' = [seen EXCEPT ![c] = NoProc]
      /\ UNCHANGED <<named, content, lock, open, port>>
      /\ term' \subseteq Procs /\ again' \subseteq Cmds /\ hit' \in BOOLEAN
  BY DEF EndStop, Forget, pidFile, DInv, TypeOK
<1>2. Goto(c, "search") \/ Goto(c, "idle")
  BY DEF EndStop
<1>3. QED BY <1>1, <1>2, CommandDInv

LEMMA StopDaemonDInv == ASSUME DInv, NEW c \in Cmds, StopDaemon(c) PROVE DInv'
<1> USE DEF server, pidFile
<1>1. CASE StopSearch(c)
  <2>1. Found \in Procs \cup {NoProc}
    BY DEF Found, DInv, TypeOK
  <2>2. QED BY <1>1, <2>1, CommandDInv DEF StopSearch, Search, DInv, TypeOK
<1>2. CASE StopRunning(c)
  <2>1. /\ seen[c] \in Procs /\ Goto(c, "signal")
        /\ UNCHANGED <<seen, named, content, lock, open, port, term, again, hit>>
    BY <1>2, SeenAgain DEF StopRunning
  <2>2. QED BY <2>1, SeenAgain, CommandDInv DEF DInv, TypeOK
<1>3. CASE SignalNobody(c) \/ EndWait(c)
  BY <1>3, EndStopDInv DEF SignalNobody, EndWait
<1>4. CASE SignalContext(c)
  <2>1. /\ seen[c] \in Procs /\ Goto(c, "wait") /\ hit' \in BOOLEAN
        /\ term' = term \cup {seen[c]}
        /\ UNCHANGED <<seen, named, content, lock, open, port, again>>
    BY <1>4 DEF SignalContext, DInv, PlaceInv
  <2>2. QED BY <2>1, SeenAgain, CommandDInv DEF DInv, TypeOK
<1>5. QED
  BY <1>1, <1>2, <1>3, <1>4, NotRunningDInv, SignalKillsDInv DEF StopDaemon, SignalTerm

-------------------------------------------------------------------------------
LEMMA NextDInv == DInv /\ [Next]_vars => DInv'
<1> SUFFICES ASSUME DInv, [Next]_vars PROVE DInv'
  OBVIOUS
<1> USE DEF server, pidFile
<1>1. ASSUME NEW c \in Cmds, Start(c) \/ Stop(c) PROVE DInv'
  <2>1. /\ Goto(c, "search") \/ Goto(c, "stopSearch")
        /\ again' \subseteq Cmds
        /\ UNCHANGED <<seen, named, content, lock, open, port, term, hit>>
    BY <1>1 DEF Start, Stop, DInv, TypeOK
  <2>2. QED BY <2>1, SeenAgain, CommandDInv DEF DInv, TypeOK
<1>2. ASSUME NEW p \in Procs, Crash(p) PROVE DInv'
  BY <1>2, DiesDInv DEF Crash
<1>3. CASE UNCHANGED vars
  BY <1>3 DEF vars, DInv, TypeOK, PlaceInv, LockInv, NameInv
<1>4. QED
  BY <1>1, <1>2, <1>3, StartDaemonDInv, RunServerDInv, StopDaemonDInv DEF Next

\* Types, places, locks and names hold together at every step.
THEOREM Invariance == Spec => []DInv
BY InitDInv, NextDInv, PTL DEF Spec

\* Every variable keeps its type, and who holds a lock has the file open.
THEOREM TypeCorrect == Spec => []TypeOK
<1>1. DInv => TypeOK
  BY DEF DInv
<1>2. QED BY <1>1, Invariance, PTL

\* The named PID file of a daemon is its own: it names it and no other has it open.
THEOREM NamesItsDaemon == Spec => []FileNamesDaemon
<1>1. DInv => FileNamesDaemon
  <2> SUFFICES ASSUME DInv, named # NoFile, NEW p \in Procs, at[p] \in InServer, open[p] = named
               PROVE  content[named] = p /\ \A q \in Procs \ {p} : open[q] # named
    BY DEF FileNamesDaemon
  <2>1. content[named] = p /\ lock[named] = p
    BY DEF DInv, LockInv, NameInv
  <2>2. ASSUME NEW q \in Procs \ {p} PROVE open[q] # named
    <3>1. CASE at[q] \in Locking \ {"leaving"}
      BY <2>1, <3>1 DEF DInv, LockInv
    <3>2. CASE at[q] \in Unlocked \cup {"leaving"}
      BY <3>2 DEF DInv, NameInv
    <3>3. CASE at[q] \in Gone
      BY <3>3 DEF DInv, LockInv
    <3>4. QED BY <3>1, <3>2, <3>3 DEF DInv, PlaceInv
  <2>3. QED BY <2>1, <2>2
<1>2. QED BY <1>1, Invariance, PTL

-------------------------------------------------------------------------------
(* The port: the safety of what StartServes promises.                      *)

\* A daemon listens from the start of its server to the end of its process, and
\* begins to end only when it was told to.
Listening == {"serving", "leaving", "unlocked", "released"}

PortInv == /\ \A p \in Procs : at[p] \in Listening <=> port = p
           /\ \A p \in Procs : at[p] \in Listening \ {"serving"} => hit
           /\ term # {} => hit

\* A command or a process goes on without the port.
Ashore(a) == /\ \A b \in Agents \ {a} : at'[b] = at[b]
             /\ a \in Procs => at[a] \notin Listening /\ at'[a] \notin Listening
             /\ UNCHANGED <<port, term>>
             /\ hit => hit'

LEMMA AshoreKeeps ==
  ASSUME PortInv, NEW a \in Agents, Ashore(a) PROVE PortInv'
BY DEF PortInv, Ashore, Listening

\* A process ends, and with it its hold of the port.
LEMMA DiesKeeps ==
  ASSUME DInv, PortInv, NEW p \in Procs, Dies(p), hit => hit' PROVE PortInv'
<1>1. /\ at' = [at EXCEPT ![p] = "dead"] /\ term' = term \ {p}
      /\ port' = IF port = p THEN NoProc ELSE port
      /\ at \in [Agents -> {"idle", "search", "check", "reborn", "lock", "stopSearch", "stopCheck",
                            "signal", "wait", "leaving", "unlocked", "released"} \cup InServer \cup Gone]
  BY DEF Dies, Frees, DInv, TypeOK
<1>2. QED BY <1>1 DEF PortInv, Listening

LEMMA StartDaemonKeeps ==
  ASSUME DInv, PortInv, NEW a \in Agents, StartDaemon(a) PROVE PortInv'
<1> USE DEF server, pidFile, Goto, Forget
<1>1. at \in [Agents -> {"idle", "search", "check", "reborn", "lock", "stopSearch", "stopCheck",
                         "signal", "wait", "leaving", "unlocked", "released"} \cup InServer \cup Gone]
  BY DEF DInv, TypeOK
<1>2. CASE \/ StartSearch(a) \/ RemoveStale(a) \/ NothingFound(a) \/ OpenPidFile(a) \/ LaunchFails(a)
  <2>1. Ashore(a)
    BY <1>1, <1>2 DEF StartSearch, Search, RemoveStale, RemovePidFile, NothingFound, OpenPidFile,
                      LaunchFails, Ashore, Listening
  <2>2. QED BY <2>1, AshoreKeeps
<1>3. CASE AlreadyRunning(a)
  <2>1. CASE a \in Procs
    BY <2>1, <1>3, DiesKeeps DEF AlreadyRunning
  <2>2. CASE a \notin Procs
    <3>1. Ashore(a)
      BY <1>1, <1>3, <2>2 DEF AlreadyRunning, Ashore, Listening
    <3>2. QED BY <3>1, AshoreKeeps
  <2>3. QED BY <2>1, <2>2
<1>4. ASSUME NEW p \in Procs, Launch(a, p) PROVE PortInv'
  <2>1. a \in Cmds
    BY <1>4 DEF Launch, DInv, PlaceInv
  <2>2. /\ at' = [at EXCEPT ![a] = "idle", ![p] = "search"] /\ at[p] = "unused"
        /\ UNCHANGED <<port, term, hit>>
    BY <1>4 DEF Launch
  <2>3. QED BY <1>1, <2>1, <2>2 DEF PortInv, Listening
<1>5. QED BY <1>2, <1>3, <1>4 DEF StartDaemon

LEMMA RunServerKeeps ==
  ASSUME DInv, PortInv, NEW p \in Procs, RunServer(p) PROVE PortInv'
<1> USE DEF server, pidFile, Goto, Forget
<1>1. at \in [Agents -> {"idle", "search", "check", "reborn", "lock", "stopSearch", "stopCheck",
                         "signal", "wait", "leaving", "unlocked", "released"} \cup InServer \cup Gone]
  BY DEF DInv, TypeOK
<1>2. CASE WritePid(p) \/ NotifyContext(p)
  <2>1. Ashore(p)
    BY <1>1, <1>2 DEF WritePid, NotifyContext, Ashore, Listening
  <2>2. QED BY <2>1, AshoreKeeps
<1>3. CASE Listen(p)
  BY <1>1, <1>3 DEF Listen, PortInv, Listening
<1>4. CASE ListenFails(p) \/ Exit(p)
  BY <1>4, DiesKeeps DEF ListenFails, Exit
<1>5. CASE ShutDown(p) \/ Unlock(p) \/ Release(p)
  <2>1. /\ \A b \in Agents \ {p} : at'[b] = at[b]
        /\ at[p] \in Listening /\ at'[p] \in Listening /\ UNCHANGED <<port, term, hit>> /\ hit
    BY <1>1, <1>5 DEF ShutDown, Unlock, Release, RemovePidFile, Listening, PortInv
  <2>2. QED BY <2>1 DEF PortInv
<1>6. QED BY <1>2, <1>3, <1>4, <1>5 DEF RunServer

LEMMA StopDaemonKeeps ==
  ASSUME DInv, PortInv, NEW c \in Cmds, StopDaemon(c) PROVE PortInv'
<1> USE DEF server, pidFile, Goto, Forget
<1>1. at \in [Agents -> {"idle", "search", "check", "reborn", "lock", "stopSearch", "stopCheck",
                         "signal", "wait", "leaving", "unlocked", "released"} \cup InServer \cup Gone]
  BY DEF DInv, TypeOK
<1>2. CASE StopSearch(c) \/ NotRunning(c) \/ StopRunning(c) \/ SignalNobody(c) \/ EndWait(c)
  <2>1. Ashore(c)
    BY <1>1, <1>2 DEF StopSearch, Search, NotRunning, StopRunning, SignalNobody, EndWait, EndStop, Ashore
  <2>2. QED BY <2>1, AshoreKeeps
<1>3. CASE SignalContext(c)
  BY <1>1, <1>3 DEF SignalContext, PortInv, Listening
<1>4. CASE SignalKills(c)
  <2> DEFINE p == seen[c]
  <2>1. /\ p \in Procs /\ at' = [at EXCEPT ![c] = "wait", ![p] = "dead"] /\ hit'
        /\ port' = IF port = p THEN NoProc ELSE port
    BY <1>4 DEF SignalKills, Frees, DInv, PlaceInv
  <2>2. QED BY <1>1, <2>1 DEF PortInv, Listening
<1>5. QED BY <1>2, <1>3, <1>4 DEF StopDaemon, SignalTerm

LEMMA NextPortInv == DInv /\ PortInv /\ [Next]_vars => PortInv'
<1> SUFFICES ASSUME DInv, PortInv, [Next]_vars PROVE PortInv'
  OBVIOUS
<1>1. ASSUME NEW c \in Cmds, Start(c) \/ Stop(c) PROVE PortInv'
  <2>1. Ashore(c)
    BY <1>1 DEF Start, Stop, Goto, Ashore, server, pidFile, DInv, TypeOK
  <2>2. QED BY <2>1, AshoreKeeps
<1>2. ASSUME NEW p \in Procs, Crash(p) PROVE PortInv'
  BY <1>2, DiesKeeps DEF Crash
<1>3. CASE UNCHANGED vars
  BY <1>3 DEF vars, server, PortInv
<1>4. QED
  BY <1>1, <1>2, <1>3, StartDaemonKeeps, RunServerKeeps, StopDaemonKeeps DEF Next

\* The port is with the daemon that listens, and with no other.
THEOREM PortInvariance == Spec => [](DInv /\ PortInv)
<1>1. Init => PortInv
  BY DEF Init, PortInv, Listening
<1>2. QED BY <1>1, Invariance, NextPortInv, PTL DEF Spec

\* No two daemons serve at the same time, whatever became of their PID files
\* (main.go:387-390).
OneServer == \A p, q \in Procs : at[p] = "serving" /\ at[q] = "serving" => p = q

\* At most one daemon serves, for any number of commands, daemons and crashes: who
\* has the port is who listens.
THEOREM OneDaemonServes == Spec => []OneServer
<1>1. PortInv => OneServer
  BY DEF PortInv, OneServer, Listening
<1>2. QED BY <1>1, PortInvariance, PTL

\* No command takes the port from a daemon that serves, except by telling it to
\* stop: the safety half of StartServes (main.go:203-268).
ServesOn == [][port # NoProc /\ port' # port => hit']_vars

\* A daemon that serves goes on until somebody tells it to stop or it crashes.
THEOREM DaemonServesOn == Spec => ServesOn
<1>1. DInv /\ PortInv /\ [Next]_vars => [port # NoProc /\ port' # port => hit']_vars
  <2> SUFFICES ASSUME DInv, PortInv, [Next]_vars, port # NoProc, port' # port PROVE hit'
    OBVIOUS
  <2>1. at[port] \in Listening /\ port \in Procs
    BY DEF DInv, TypeOK, PortInv
  <2>2. ASSUME NEW p \in Procs, Dies(p) PROVE p = port
    BY <2>2 DEF Dies, Frees
  <2>3. ASSUME NEW a \in Agents, StartDaemon(a) PROVE FALSE
    <3>1. AlreadyRunning(a) /\ a \in Procs
      BY <2>3 DEF StartDaemon, StartSearch, Search, AlreadyRunning, RemoveStale, RemovePidFile,
                  NothingFound, OpenPidFile, LaunchFails, Launch, server
    <3>2. QED BY <3>1, <2>1, <2>2 DEF AlreadyRunning, Listening
  <2>4. ASSUME NEW p \in Procs, RunServer(p) PROVE hit'
    <3>1. ListenFails(p) \/ Exit(p)
      BY <2>4 DEF RunServer, WritePid, NotifyContext, Listen, ShutDown, Unlock, Release, RemovePidFile, server
    <3>2. CASE ListenFails(p)
      BY <3>2, <2>1, <2>2 DEF ListenFails, Listening
    <3>3. CASE Exit(p)
      BY <3>3, <2>1, <2>2 DEF Exit, PortInv, Listening
    <3>4. QED BY <3>1, <3>2, <3>3
  <2>5. ASSUME NEW c \in Cmds, Start(c) \/ Stop(c) \/ StopDaemon(c) PROVE hit'
    BY <2>5 DEF Start, Stop, StopDaemon, StopSearch, Search, NotRunning, StopRunning, SignalTerm,
                SignalNobody, SignalContext, SignalKills, EndWait, server, pidFile
  <2>6. QED BY <2>3, <2>4, <2>5 DEF Next, Crash, vars, server
<1>2. QED BY <1>1, PortInvariance, PTL DEF Spec, ServesOn
===============================================================================
