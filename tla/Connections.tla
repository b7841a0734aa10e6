------------------------------ MODULE Connections ------------------------------
(***************************************************************************)
(* The component files from which the embedded Dapr runtime is configured: *)
(* the two defaults written at the start of the process                    *)
(* (pkg/runtime/runtime.go), and those that RegisterConnection writes      *)
(* while it serves (pkg/api/grpc_handler.go:292).  Dapr reads them once,   *)
(* when it starts.                                                         *)
(*                                                                         *)
(* os.WriteFile truncates the file and then writes it: in between, another *)
(* goroutine may do the same, and the process may die.                     *)
(***************************************************************************)
EXTENDS Naturals

CONSTANTS StateStore, SurrealDB, \* the components that have a default
          Others,                \* other names a connection may be given
          Urls,                  \* the contents of a connection file
          Writers,               \* goroutines that may be in RegisterConnection
          Absent, Empty, Mixed, Default \* contents of a file that are no connection

Components == {StateStore, SurrealDB} \cup Others

ASSUME ConnectionsAssumption == /\ StateStore # SurrealDB
                                /\ {StateStore, SurrealDB} \cap Others = {}
                                /\ Absent \notin Components
                                /\ Urls \cap {Absent, Empty, Mixed, Default} = {}
                                /\ Absent \notin {Empty, Mixed, Default}
                                /\ Empty \notin {Mixed, Default}
                                /\ Mixed # Default

VARIABLES files,   \* component -> what is in its file
          boot,    \* how far the process has come
          writes,  \* writer -> the file it has truncated and not written yet
          loaded,  \* component -> what Dapr took from its file
          owed,    \* history: the last registration that was confirmed and left alone
          stolen,  \* history: somebody has begun to register a connection named StateStore
          torn,    \* history: the default of StateStore was once left half written
          refused  \* history: this process could not create that default

connectionVars == <<files, boot, writes, loaded, owed, stolen, torn, refused>>

\* No write under way.
Idle == [name |-> Absent, url |-> Absent, alone |-> FALSE]

ConnectionsInit == /\ files = [n \in Components |-> Absent]
                   /\ boot = "down"
                   /\ writes = [w \in Writers |-> Idle]
                   /\ loaded = [n \in Components |-> Absent]
                   /\ owed = [n \in Components |-> Absent]
                   /\ stolen = FALSE
                   /\ torn = FALSE
                   /\ refused = FALSE

\* RPCs are served, whether or not Dapr has come up.
Serving == boot \in {"up", "bare"}

Booting(from, to) == /\ boot = from
                     /\ boot' = to
                     /\ UNCHANGED <<writes, owed, stolen>>

\* NewEmbeddedRuntime: a file that exists is left alone, whatever is in it.
DefaultExists(n, from, to) ==
  /\ Booting(from, to)
  /\ files[n] # Absent
  /\ UNCHANGED <<files, loaded, torn, refused>>

\* Mutant of CreateDefault: the default is written over what is there.
CreateDefaultAlways(n, from, to) ==
  /\ Booting(from, to)
  /\ files' = [files EXCEPT ![n] = Empty]
  /\ UNCHANGED <<loaded, torn, refused>>

CreateDefault(n, from, to) ==
  /\ Booting(from, to)
  /\ files[n] = Absent
  /\ files' = [files EXCEPT ![n] = Empty]
  /\ UNCHANGED <<loaded, torn, refused>>

FillDefault(n, from, to) ==
  /\ Booting(from, to)
  /\ files' = [files EXCEPT ![n] = Default]
  /\ UNCHANGED <<loaded, torn, refused>>

\* The error of os.WriteFile is dropped, be it that the file cannot be created ...
CreateDefaultFails(n, from, to) ==
  /\ Booting(from, to)
  /\ files[n] = Absent
  /\ refused' = (refused \/ n = StateStore)
  /\ UNCHANGED <<files, loaded, torn>>

\* ... or that it cannot be written, and stays empty.
FillDefaultFails(n, from, to) ==
  /\ Booting(from, to)
  /\ torn' = (torn \/ n = StateStore)
  /\ UNCHANGED <<files, loaded, refused>>

EnsureDefault(n, check, fill, next) ==
  \/ DefaultExists(n, check, next)
  \/ CreateDefault(n, check, fill) \/ CreateDefaultFails(n, check, next)
  \/ FillDefault(n, fill, next) \/ FillDefaultFails(n, fill, next)

\* A complete file of one of the component types that are registered.
Loadable(content) == content = Default \/ content \in Urls

\* Start: Dapr reads the directory, and skips what it cannot read.
LoadComponents ==
  /\ Booting("load", "up")
  /\ loaded' = [n \in Components |-> IF Loadable(files[n]) THEN files[n] ELSE Absent]
  /\ UNCHANGED <<files, torn, refused>>

\* The error of Run is printed, and the process goes on without Dapr.
RunFails == Booting("load", "bare") /\ UNCHANGED <<files, loaded, torn, refused>>

Boot == \/ Booting("down", "store") /\ UNCHANGED <<files, loaded, torn, refused>>
        \/ EnsureDefault(StateStore, "store", "fillStore", "surreal")
        \/ EnsureDefault(SurrealDB, "surreal", "fillSurreal", "load")
        \/ LoadComponents \/ RunFails

\* RegisterConnection: the file is truncated ...
OpenFile(w, n, url) ==
  /\ Serving
  /\ writes[w] = Idle
  /\ files' = [files EXCEPT ![n] = Empty]
  /\ writes' = [v \in Writers |->
                  IF v = w THEN [name |-> n, url |-> url,
                                 alone |-> \A x \in Writers : writes[x].name # n]
                  ELSE IF writes[v].name = n THEN [writes[v] EXCEPT !.alone = FALSE]
                  ELSE writes[v]]
  /\ owed' = [owed EXCEPT ![n] = Absent]
  /\ stolen' = (stolen \/ n = StateStore)
  /\ UNCHANGED <<boot, loaded, torn, refused>>

\* Mutant of FillFile: the connection is written under the name of a default.
FillFileOfStore(w) ==
  /\ writes[w] # Idle
  /\ files' = [files EXCEPT ![StateStore] = writes[w].url]
  /\ writes' = [writes EXCEPT ![w] = Idle]
  /\ owed' = [owed EXCEPT ![writes[w].name] = IF writes[w].alone THEN writes[w].url ELSE @]
  /\ UNCHANGED <<boot, loaded, stolen, torn, refused>>

\* ... and written, from its beginning: the end of a longer text that somebody
\* else has written meanwhile stays.
FillFile(w) ==
  /\ writes[w] # Idle
  /\ LET n == writes[w].name  url == writes[w].url
     IN /\ \E content \in {url} \cup (IF files[n] = Empty THEN {} ELSE {Mixed}) :
             files' = [files EXCEPT ![n] = content]
        /\ owed' = [owed EXCEPT ![n] = IF writes[w].alone THEN url ELSE @]
  /\ writes' = [writes EXCEPT ![w] = Idle]
  /\ UNCHANGED <<boot, loaded, stolen, torn, refused>>

\* The write fails: the caller gets an error, the file stays empty.
WriteFails(w) ==
  /\ writes[w] # Idle
  /\ writes' = [writes EXCEPT ![w] = Idle]
  /\ UNCHANGED <<files, boot, loaded, owed, stolen, torn, refused>>

\* The process ends, in whatever it is at.
ProcessEnds ==
  /\ boot # "down"
  /\ boot' = "down"
  /\ torn' = (torn \/ boot = "fillStore")
  /\ refused' = FALSE
  /\ writes' = [w \in Writers |-> Idle]
  /\ loaded' = [n \in Components |-> Absent]
  /\ UNCHANGED <<files, owed, stolen>>

-------------------------------------------------------------------------------
(* Properties *)

ConnectionsTypeOK ==
  /\ files \in [Components -> Urls \cup {Absent, Empty, Mixed, Default}]
  /\ boot \in {"down", "store", "fillStore", "surreal", "fillSurreal", "load", "up", "bare"}
  /\ writes \in [Writers -> [name: Components, url: Urls, alone: BOOLEAN] \cup {Idle}]
  /\ loaded \in [Components -> Urls \cup {Absent, Default}]
  /\ owed \in [Components -> Urls \cup {Absent}]
  /\ stolen \in BOOLEAN
  /\ torn \in BOOLEAN
  /\ refused \in BOOLEAN

\* A connection whose registration was confirmed, and not overlapped or followed
\* by another of its name, is what Dapr has when it next comes up, whatever
\* crashes and failed starts lie between and though each start writes defaults
\* (grpc_handler.go:318, runtime.go:67-97).
RegisteredIsLoaded ==
  [][boot' = "up" /\ boot # "up" =>
       \A n \in Components : owed[n] # Absent => loaded'[n] = owed[n]]_connectionVars

\* A process in which Dapr has come up has its state store, or none where its file
\* could not be created, which the next start makes good.  Two things do last:
\* somebody has registered a connection under that name, or the default was left
\* half written, by a crash or a failed write, which os.Stat takes for written
\* ever after (runtime.go:69).
StoreIsLoaded ==
  boot = "up" /\ ~stolen /\ ~torn =>
    loaded[StateStore] = IF refused THEN Absent ELSE Default
===============================================================================
