---------------------------- MODULE McpServerProofs ----------------------------
(***************************************************************************)
(* Proofs about Connections and McpServer, for any components, contents,   *)
(* capacities and bounds.                                                  *)
(***************************************************************************)
EXTENDS McpServer, TLAPS

\* Only a process that serves has writes under way.
WritesInv == ~Serving => \A w \in Writers : writes[w] = Idle

\* A write that is alone finds its file as it left it, and no other is at it.
AloneInv ==
  \A w \in Writers : writes[w] # Idle /\ writes[w].alone =>
    /\ files[writes[w].name] = Empty
    /\ \A v \in Writers \ {w} : writes[v].name # writes[w].name

\* A confirmed registration is in its file, and nobody writes there.
OwedInv ==
  \A n \in Components : owed[n] # Absent =>
    files[n] = owed[n] /\ \A w \in Writers : writes[w].name # n

\* A default that is to be filled has been created just now.
DefaultsInv == /\ boot = "fillStore" => files[StateStore] = Empty
               /\ boot = "fillSurreal" => files[SurrealDB] = Empty

\* Without a theft or a torn default the store's file is absent, or the default,
\* or the one being created, and past its start it is absent for a reason.
StoreInv ==
  /\ ~stolen => \A w \in Writers : writes[w].name # StateStore
  /\ ~stolen /\ ~torn =>
       /\ boot # "fillStore" => files[StateStore] \in {Absent, Default}
       /\ boot \notin {"down", "store", "fillStore"} =>
            files[StateStore] = IF refused THEN Absent ELSE Default
  /\ boot \in {"down", "store", "fillStore"} => ~refused

ConnectionsInv == /\ ConnectionsTypeOK /\ WritesInv /\ AloneInv /\ OwedInv
                  /\ DefaultsInv /\ StoreInv /\ StoreIsLoaded

ConnectionsStep == \/ Boot
                   \/ \E w \in Writers, n \in Components, url \in Urls : OpenFile(w, n, url)
                   \/ \E w \in Writers : FillFile(w) \/ WriteFails(w)
                   \/ ProcessEnds
                   \/ UNCHANGED connectionVars

USE DEF Idle, Serving

LEMMA Names ==
  ConnectionsTypeOK =>
    /\ StateStore \in Components /\ SurrealDB \in Components /\ StateStore # SurrealDB
    /\ Absent \notin Components
    /\ \A w \in Writers : writes[w] # Idle =>
         /\ writes[w].name \in Components /\ writes[w].name # Absent
         /\ writes[w].url \in Urls
         /\ writes[w] \in [name: Components, url: Urls, alone: BOOLEAN]
    /\ \A w \in Writers : writes[w] = Idle => writes[w].name \notin Components
    /\ \A n \in Components : owed[n] # Absent => owed[n] \in Urls
BY ConnectionsAssumption DEF ConnectionsTypeOK, Components

LEMMA ConnectionsStart == ConnectionsInit => ConnectionsInv
<1> SUFFICES ASSUME ConnectionsInit PROVE ConnectionsInv
  OBVIOUS
<1> USE DEF ConnectionsInit
<1>1. ConnectionsTypeOK
  BY DEF ConnectionsTypeOK
<1>2. WritesInv /\ AloneInv /\ DefaultsInv /\ StoreIsLoaded
  BY DEF WritesInv, AloneInv, DefaultsInv, StoreIsLoaded
<1>3. OwedInv /\ StoreInv
  BY <1>1, Names, ConnectionsAssumption DEF OwedInv, StoreInv
<1>4. QED BY <1>1, <1>2, <1>3 DEF ConnectionsInv

\* A start writes a default only where there is no file.
LEMMA BootKeeps == ASSUME ConnectionsInv, Boot PROVE ConnectionsInv'
<1> USE DEF ConnectionsInv, Booting
<1>1. CASE Booting("down", "store") /\ UNCHANGED <<files, loaded, torn, refused>>
  <2>1. ConnectionsTypeOK'
    BY <1>1 DEF ConnectionsTypeOK
  <2>2. WritesInv' /\ AloneInv' /\ OwedInv'
    BY <1>1 DEF WritesInv, AloneInv, OwedInv
  <2>3. DefaultsInv' /\ StoreInv' /\ StoreIsLoaded'
    BY <1>1 DEF DefaultsInv, StoreInv, StoreIsLoaded
  <2>4. QED BY <2>1, <2>2, <2>3
<1>2. CASE EnsureDefault(StateStore, "store", "fillStore", "surreal")
  <2> USE <1>2 DEF EnsureDefault, DefaultExists, CreateDefault, CreateDefaultFails,
                   FillDefault, FillDefaultFails
  <2>1. ConnectionsTypeOK'
    BY Names DEF ConnectionsTypeOK
  <2>2. WritesInv' /\ AloneInv'
    BY Names DEF ConnectionsTypeOK, WritesInv, AloneInv
  <2>3. OwedInv'
    BY Names, ConnectionsAssumption DEF ConnectionsTypeOK, WritesInv, OwedInv, DefaultsInv
  <2>4. DefaultsInv' /\ StoreIsLoaded'
    BY Names, ConnectionsAssumption DEF ConnectionsTypeOK, DefaultsInv, StoreIsLoaded
  <2>5. ~stolen' => \A w \in Writers : writes'[w].name # StateStore
    BY DEF StoreInv
  <2>6. /\ ~stolen /\ ~torn /\ boot # "fillStore" => files[StateStore] \in {Absent, Default}
        /\ boot \in {"store", "fillStore"} /\ ~refused
        /\ StateStore \in DOMAIN files
    BY Names DEF ConnectionsTypeOK, StoreInv
  <2>7. ~stolen' /\ ~torn' =>
          /\ boot' # "fillStore" => files'[StateStore] \in {Absent, Default}
          /\ boot' \notin {"down", "store", "fillStore"} =>
               files'[StateStore] = IF refused' THEN Absent ELSE Default
    <3>1. CASE DefaultExists(StateStore, "store", "surreal")
      BY <3>1, <2>6
    <3>2. CASE CreateDefault(StateStore, "store", "fillStore")
      BY <3>2, <2>6
    <3>3. CASE CreateDefaultFails(StateStore, "store", "surreal")
      BY <3>3, <2>6
    <3>4. CASE FillDefault(StateStore, "fillStore", "surreal")
      BY <3>4, <2>6
    <3>5. CASE FillDefaultFails(StateStore, "fillStore", "surreal")
      BY <3>5, <2>6
    <3>6. QED BY <3>1, <3>2, <3>3, <3>4, <3>5
  <2>8. boot' \in {"down", "store", "fillStore"} => ~refused'
    BY <2>6
  <2>9. StoreInv'
    BY <2>5, <2>7, <2>8 DEF StoreInv
  <2>10. QED BY <2>1, <2>2, <2>3, <2>4, <2>9
<1>3. CASE EnsureDefault(SurrealDB, "surreal", "fillSurreal", "load")
  <2> USE <1>3 DEF EnsureDefault, DefaultExists, CreateDefault, CreateDefaultFails,
                   FillDefault, FillDefaultFails
  <2>1. ConnectionsTypeOK'
    BY Names DEF ConnectionsTypeOK
  <2>2. WritesInv' /\ AloneInv'
    BY Names DEF ConnectionsTypeOK, WritesInv, AloneInv
  <2>3. OwedInv'
    BY Names, ConnectionsAssumption DEF ConnectionsTypeOK, WritesInv, OwedInv, DefaultsInv
  <2>4. DefaultsInv' /\ StoreIsLoaded'
    BY Names, ConnectionsAssumption DEF ConnectionsTypeOK, DefaultsInv, StoreIsLoaded
  <2>5. StoreInv'
    BY Names, ConnectionsAssumption DEF ConnectionsTypeOK, StoreInv
  <2>6. QED BY <2>1, <2>2, <2>3, <2>4, <2>5
<1>4. CASE LoadComponents \/ RunFails
  BY <1>4, Names, ConnectionsAssumption
     DEF LoadComponents, RunFails, Loadable, Serving, ConnectionsTypeOK, WritesInv, AloneInv, OwedInv,
         DefaultsInv, StoreInv, StoreIsLoaded
<1>5. QED BY <1>1, <1>2, <1>3, <1>4 DEF Boot

\* Whoever opens a file takes it from those who were alone at it.
LEMMA OpenKeeps ==
  ASSUME ConnectionsInv, NEW w \in Writers, NEW n \in Components, NEW url \in Urls,
         OpenFile(w, n, url)
  PROVE  ConnectionsInv'
<1> USE DEF ConnectionsInv, OpenFile
<1>1. /\ writes'[w] = [name |-> n, url |-> url, alone |-> \A x \in Writers : writes[x].name # n]
      /\ \A v \in Writers \ {w} : /\ writes'[v].name = writes[v].name
                                  /\ writes[v].name = n => ~writes'[v].alone
                                  /\ writes[v].name # n => writes'[v] = writes[v]
      /\ files'[n] = Empty /\ owed'[n] = Absent
      /\ \A m \in Components \ {n} : files'[m] = files[m] /\ owed'[m] = owed[m]
  BY Names DEF ConnectionsTypeOK
<1>2. ConnectionsTypeOK'
  BY Names, ConnectionsAssumption DEF ConnectionsTypeOK
<1>3. WritesInv' /\ DefaultsInv' /\ StoreIsLoaded'
  BY DEF WritesInv, DefaultsInv, StoreIsLoaded
<1>4. AloneInv'
  BY <1>1, Names DEF AloneInv
<1>5. OwedInv'
  BY <1>1, Names DEF OwedInv
<1>6. StoreInv'
  BY <1>1, Names DEF StoreInv
<1>7. QED BY <1>2, <1>3, <1>4, <1>5, <1>6

\* What is confirmed was written alone.
LEMMA FillKeeps ==
  ASSUME ConnectionsInv, NEW w \in Writers, FillFile(w)
  PROVE  ConnectionsInv'
<1> USE DEF ConnectionsInv, FillFile
<1> DEFINE n == writes[w].name
<1>1. /\ writes' = [writes EXCEPT ![w] = Idle]
      /\ files'[n] \in {writes[w].url, Mixed}
      /\ files[n] = Empty => files'[n] = writes[w].url
      /\ owed'[n] = IF writes[w].alone THEN writes[w].url ELSE owed[n]
      /\ \A m \in Components \ {n} : files'[m] = files[m] /\ owed'[m] = owed[m]
      /\ n \in Components /\ writes[w].url \in Urls
      /\ writes'[w] = Idle /\ \A v \in Writers \ {w} : writes'[v] = writes[v]
      /\ Serving /\ UNCHANGED <<boot, loaded, stolen, torn, refused>>
  BY Names DEF ConnectionsTypeOK, WritesInv
<1>2. ConnectionsTypeOK'
  BY <1>1, Names, ConnectionsAssumption DEF ConnectionsTypeOK
<1>3. WritesInv' /\ DefaultsInv' /\ StoreIsLoaded'
  BY <1>1 DEF WritesInv, DefaultsInv, StoreIsLoaded
<1>4. AloneInv'
  BY <1>1, Names DEF AloneInv
<1>5. OwedInv'
  <2> SUFFICES ASSUME NEW m \in Components, owed'[m] # Absent
               PROVE  files'[m] = owed'[m] /\ \A v \in Writers : writes'[v].name # m
    BY DEF OwedInv
  <2>1. CASE m # n
    BY <2>1, <1>1, Names DEF OwedInv
  <2>2. CASE m = n
    <3>1. writes[w].alone
      BY <2>2, <1>1 DEF OwedInv
    <3>2. files[n] = Empty /\ \A v \in Writers \ {w} : writes[v].name # n
      BY <3>1 DEF AloneInv
    <3>3. QED BY <2>2, <3>1, <3>2, <1>1, Names
  <2>3. QED BY <2>1, <2>2
<1>6. StoreInv'
  <2>1. ~stolen => n # StateStore
    BY DEF StoreInv
  <2>2. QED BY <2>1, <1>1, Names DEF StoreInv
<1>7. QED BY <1>2, <1>3, <1>4, <1>5, <1>6

LEMMA ConnectionsInductive == ASSUME ConnectionsInv, ConnectionsStep PROVE ConnectionsInv'
<1>1. CASE Boot
  BY <1>1, BootKeeps
<1>2. ASSUME NEW w \in Writers, NEW n \in Components, NEW url \in Urls, OpenFile(w, n, url)
      PROVE  ConnectionsInv'
  BY <1>2, OpenKeeps
<1>3. ASSUME NEW w \in Writers, FillFile(w) PROVE ConnectionsInv'
  BY <1>3, FillKeeps
<1>4. ASSUME NEW w \in Writers, WriteFails(w) PROVE ConnectionsInv'
  <2>1. /\ writes'[w] = Idle /\ \A v \in Writers \ {w} : writes'[v] = writes[v]
        /\ UNCHANGED <<files, boot, loaded, owed, stolen, torn, refused>>
    BY <1>4 DEF WriteFails, ConnectionsInv, ConnectionsTypeOK
  <2>2. ConnectionsTypeOK'
    BY <1>4 DEF WriteFails, ConnectionsInv, ConnectionsTypeOK
  <2>3. WritesInv' /\ DefaultsInv' /\ StoreIsLoaded'
    BY <2>1 DEF ConnectionsInv, WritesInv, DefaultsInv, StoreIsLoaded
  <2>4. AloneInv'
    BY <2>1, Names DEF ConnectionsInv, AloneInv
  <2>5. OwedInv' /\ StoreInv'
    BY <2>1, Names DEF ConnectionsInv, OwedInv, StoreInv
  <2>6. QED BY <2>2, <2>3, <2>4, <2>5 DEF ConnectionsInv
<1>5. CASE ProcessEnds
  BY <1>5, Names, ConnectionsAssumption
     DEF ProcessEnds, ConnectionsInv, ConnectionsTypeOK, WritesInv, AloneInv, OwedInv,
         DefaultsInv, StoreInv, StoreIsLoaded, Components
<1>6. CASE UNCHANGED connectionVars
  BY <1>6 DEF connectionVars, ConnectionsInv, ConnectionsTypeOK, WritesInv, AloneInv, OwedInv,
              DefaultsInv, StoreInv, StoreIsLoaded
<1>7. QED BY <1>1, <1>2, <1>3, <1>4, <1>5, <1>6 DEF ConnectionsStep

\* Every step of the server is one of the component files.
LEMMA ServerMovesConnections == ASSUME [Next]_vars PROVE ConnectionsStep
<1> USE DEF ConnectionsStep
<1>1. CASE McpStep
  BY <1>1, McpAssumption
     DEF McpStep, Decode, DecodeEof, Spin, Encode, CallSubmit, SendToQueue, McpOpensFile, McpWritesFile
<1>2. CASE CliRegisters
  BY <1>2, McpAssumption DEF CliRegisters
<1>3. CASE ClientCloses \/ ClientReads \/ TaskWrites \/ WorkerTakes \/ Sigterm
           \/ \E value \in Sendable : ClientSends(value)
  BY <1>3 DEF ClientCloses, ClientReads, TaskWrites, WorkerTakes, Sigterm, ClientSends, Around
<1>4. CASE Starts \/ Exit \/ Crash
  BY <1>4 DEF Starts, Exit, Crash
<1>5. CASE UNCHANGED vars
  BY <1>5 DEF vars
<1>6. QED BY <1>1, <1>2, <1>3, <1>4, <1>5 DEF Next

\* A process in which Dapr has come up has its state store, in any number of boots,
\* crashes, failed writes and registrations: only a connection of that name or a
\* default left half written, whoever or whatever left it so, takes it away for good,
\* and a file that could not be created takes it away until the next start
\* (runtime.go:67-97).
THEOREM ServesWithStore == Spec => []StoreIsLoaded
<1>1. Init => ConnectionsInv
  BY ConnectionsStart DEF Init
<1>2. ConnectionsInv /\ [Next]_vars => ConnectionsInv'
  BY ConnectionsInductive, ServerMovesConnections
<1>3. ConnectionsInv => StoreIsLoaded
  BY DEF ConnectionsInv
<1>4. QED BY <1>1, <1>2, <1>3, PTL DEF Spec

\* A confirmed registration is what the next start loads.
THEOREM RegistrationsLoaded == Spec => RegisteredIsLoaded
<1> DEFINE Loads == boot' = "up" /\ boot # "up" =>
                      \A n \in Components : owed[n] # Absent => loaded'[n] = owed[n]
<1>1. Init => ConnectionsInv
  BY ConnectionsStart DEF Init
<1>2. ConnectionsInv /\ [Next]_vars => ConnectionsInv'
  BY ConnectionsInductive, ServerMovesConnections
<1>3. ConnectionsInv /\ [Next]_vars => [Loads]_connectionVars
  <2> SUFFICES ASSUME ConnectionsInv, [Next]_vars, boot' = "up", boot # "up",
                      NEW n \in Components, owed[n] # Absent
               PROVE  loaded'[n] = owed[n]
    OBVIOUS
  <2>1. LoadComponents
    BY ServerMovesConnections, Names
       DEF ConnectionsStep, Boot, EnsureDefault, DefaultExists, CreateDefault, CreateDefaultFails,
           FillDefault, FillDefaultFails, RunFails, Booting,
           OpenFile, FillFile, WriteFails, ProcessEnds, connectionVars, ConnectionsInv, WritesInv
  <2>2. files[n] = owed[n] /\ owed[n] \in Urls
    BY Names DEF ConnectionsInv, OwedInv
  <2>3. QED BY <2>1, <2>2 DEF LoadComponents, Loadable
<1>4. QED BY <1>1, <1>2, <1>3, PTL DEF Spec, RegisteredIsLoaded

-------------------------------------------------------------------------------
\* What the types of the session's variables are.
SessionType == /\ sent \in Seq(Sendable)
               /\ stdin \in {"open", "closed", "cut"}
               /\ taken \in Nat /\ taken <= Len(sent)
               /\ at \in {"decode", "spin", "ended"} \cup InHand
               /\ out \in Seq(Nat)
               /\ read \in Nat /\ read <= Len(out)
               /\ queued \in Nat /\ queued <= QueueCap
               /\ ctxDone \in BOOLEAN
               /\ boots \in Nat /\ asked \in Nat

\* The request in hand is the last value taken.
HandInv == at \in InHand => taken > 0 /\ IsRequest(sent[taken])

SessionInv == SessionType /\ HandInv /\ RepliesInOrder

LEMMA TypeFromParts == SessionType /\ ConnectionsTypeOK => TypeOK
BY McpAssumption DEF SessionType, TypeOK

\* What was taken from the client is one of the things it may send.
LEMMA TakenInRange ==
  ASSUME SessionType
  PROVE  /\ taken \in 0..Len(sent) /\ Len(sent) \in Nat
         /\ \A k \in 1..Len(sent) : sent[k] \in Sendable
         /\ DOMAIN sent = 1..Len(sent) /\ DOMAIN out = 1..Len(out) /\ Len(out) \in Nat
         /\ \A i \in DOMAIN out : out[i] \in Nat
BY DEF SessionType

\* No reply is for a value that was not taken, nor for the request in hand.
LEMMA RepliesBound ==
  ASSUME SessionInv, NEW i \in DOMAIN out, out[i] # 0
  PROVE  out[i] \in 1..taken /\ (at \in InHand => out[i] # taken)
<1>1. out[i] \in Answered
  BY DEF Answered
<1>2. QED BY <1>1 DEF SessionInv, RepliesInOrder

LEMMA AppendOut ==
  ASSUME SessionType, NEW e \in Nat
  PROVE  /\ Append(out, e) \in Seq(Nat) /\ Len(Append(out, e)) = Len(out) + 1
         /\ DOMAIN Append(out, e) = (DOMAIN out) \cup {Len(out) + 1} /\ DOMAIN out = 1..Len(out)
         /\ Append(out, e)[Len(out) + 1] = e
         /\ \A i \in DOMAIN out : Append(out, e)[i] = out[i]
         /\ Len(out) \in Nat
BY DEF SessionType

LEMMA AppendSent ==
  ASSUME SessionType, NEW value \in Sendable
  PROVE  /\ Append(sent, value) \in Seq(Sendable) /\ Len(Append(sent, value)) = Len(sent) + 1
         /\ \A k \in 1..Len(sent) : Append(sent, value)[k] = sent[k]
BY DEF SessionType

\* A step that leaves the values taken and the replies alone, and the loop at a
\* request if it was at one.
Apart == /\ UNCHANGED <<sent, taken, out>>
         /\ at \in InHand <=> at' \in InHand

LEMMA ApartKeeps == ASSUME SessionInv, Apart PROVE HandInv' /\ RepliesInOrder'
BY DEF SessionInv, Apart, HandInv, RepliesInOrder, Answered, IsRequest

\* Of the values, the mistyped and the garbage are skipped.
LEMMA DecodeKeeps == ASSUME SessionInv, Decode PROVE SessionInv'
<1> USE DEF SessionInv
<1>1. /\ UNCHANGED <<sent, stdin, read, ctxDone, boots, asked, out, queued>>
      /\ taken' = taken + 1 /\ taken < Len(sent) /\ at = "decode" /\ at \notin InHand
  BY DEF Decode, Loop, InHand
<1>2. /\ sent[taken'] = NextValue
      /\ IsRequest(NextValue) => at' \in InHand
      /\ ~IsRequest(NextValue) => at' \in {"spin", "decode"} /\ at' \notin InHand
  <2>1. CASE NextValue = "garbage"
    BY <2>1, <1>1 DEF Decode, Loop, InHand, IsRequest, NextValue
  <2>2. CASE NextValue = "mistyped"
    BY <2>2, <1>1 DEF Decode, Loop, InHand, IsRequest, NextValue
  <2>3. CASE NextValue \notin {"garbage", "mistyped"}
    <3>1. at' = Dispatch(NextValue)
      BY <2>3 DEF Decode, Loop
    <3>2. Dispatch(NextValue) \in {"submit", "register", "reply"}
      BY DEF Dispatch
    <3>3. QED BY <2>3, <3>1, <3>2, <1>1 DEF InHand, IsRequest, NextValue
  <2>4. QED BY <2>1, <2>2, <2>3
<1>3. SessionType'
  BY <1>1, <1>2 DEF SessionType
<1>4. HandInv'
  BY <1>1, <1>2, TakenInRange DEF HandInv, IsRequest
<1>5. Answered' = Answered /\ Answered = {k \in 1..taken : IsRequest(sent[k])}
  BY <1>1 DEF RepliesInOrder, Answered
<1>6. {k \in 1..taken' : IsRequest(sent'[k])}
      = {k \in 1..taken : IsRequest(sent[k])} \cup (IF IsRequest(NextValue) THEN {taken'} ELSE {})
  BY <1>1, <1>2, TakenInRange DEF IsRequest
<1>7. taken' \notin {k \in 1..taken : IsRequest(sent[k])}
  BY <1>1, TakenInRange
<1>8. Answered' = {k \in 1..taken' : IsRequest(sent'[k])} \ (IF at' \in InHand THEN {taken'} ELSE {})
  BY <1>2, <1>5, <1>6, <1>7
<1>9. RepliesInOrder'
  BY <1>1, <1>8 DEF RepliesInOrder
<1>10. QED BY <1>3, <1>4, <1>9

\* The reply to the request in hand comes after all others.
LEMMA EncodeKeeps == ASSUME SessionInv, Encode PROVE SessionInv'
<1> USE DEF SessionInv
<1>1. /\ UNCHANGED <<sent, stdin, read, ctxDone, boots, asked, taken, queued>>
      /\ out' = Append(out, taken) /\ at \in InHand /\ at' = "decode" /\ at' \notin InHand
      /\ taken \in Nat /\ taken > 0
  BY DEF Encode, Loop, InHand, HandInv, SessionType
<1>2. SessionType'
  BY <1>1, AppendOut DEF SessionType
<1>3. Answered' = Answered \cup {taken}
  BY <1>1, AppendOut DEF Answered
<1>4. Answered' = {k \in 1..taken' : IsRequest(sent'[k])}
  BY <1>1, <1>3 DEF RepliesInOrder, HandInv
<1>5. \A i, j \in DOMAIN out' : i < j /\ out'[i] # 0 /\ out'[j] # 0 => out'[i] < out'[j]
  <2> SUFFICES ASSUME NEW i \in DOMAIN out', NEW j \in DOMAIN out', i < j, out'[i] # 0, out'[j] # 0
               PROVE  out'[i] < out'[j]
    OBVIOUS
  <2>1. i \in DOMAIN out /\ out'[i] = out[i] /\ i \in Nat /\ j \in Nat
    BY <1>1, AppendOut
  <2>2. CASE j \in DOMAIN out
    BY <2>1, <2>2, <1>1, AppendOut DEF RepliesInOrder
  <2>3. CASE j = Len(out) + 1
    BY <2>1, <2>3, <1>1, AppendOut, RepliesBound
  <2>4. QED BY <2>2, <2>3, <1>1, AppendOut
<1>6. RepliesInOrder' /\ HandInv'
  BY <1>1, <1>4, <1>5 DEF RepliesInOrder, HandInv
<1>7. QED BY <1>2, <1>6

\* The output of a task falls between the replies.
LEMMA TaskWritesKeeps == ASSUME SessionInv, TaskWrites PROVE SessionInv'
<1> USE DEF SessionInv
<1>1. /\ UNCHANGED <<sent, stdin, read, ctxDone, boots, asked, taken, queued, at>>
      /\ out' = Append(out, 0)
  BY DEF TaskWrites, Around
<1>2. SessionType' /\ HandInv'
  BY <1>1, AppendOut DEF SessionType, HandInv, IsRequest
<1>3. Answered' = Answered
  BY <1>1, AppendOut DEF Answered
<1>4. \A i, j \in DOMAIN out' : i < j /\ out'[i] # 0 /\ out'[j] # 0 => out'[i] < out'[j]
  BY <1>1, AppendOut DEF RepliesInOrder
<1>5. RepliesInOrder'
  BY <1>1, <1>3, <1>4 DEF RepliesInOrder, IsRequest
<1>6. QED BY <1>2, <1>5

LEMMA ClientSendsKeeps ==
  ASSUME SessionInv, NEW value \in Sendable, ClientSends(value) PROVE SessionInv'
<1> USE DEF SessionInv
<1>1. /\ UNCHANGED <<stdin, read, ctxDone, boots, taken, queued, at, out>>
      /\ sent' = Append(sent, value) /\ asked' \in Nat
  BY DEF ClientSends, Around, SessionType
<1>2. SessionType'
  BY <1>1, AppendSent DEF SessionType
<1>3. \A k \in 1..taken : sent'[k] = sent[k]
  BY <1>1, AppendSent, TakenInRange
<1>4. HandInv'
  BY <1>1, <1>3, TakenInRange DEF HandInv, IsRequest
<1>5. {k \in 1..taken' : IsRequest(sent'[k])} = {k \in 1..taken : IsRequest(sent[k])}
  BY <1>1, <1>3 DEF IsRequest
<1>6. Answered' = Answered
  BY <1>1 DEF Answered
<1>7. RepliesInOrder'
  BY <1>1, <1>5, <1>6 DEF RepliesInOrder
<1>8. QED BY <1>2, <1>4, <1>7

LEMMA NewSession ==
  /\ Init => SessionInv
  /\ SessionInv /\ Crash => SessionInv'
<1> DEFINE Fresh == /\ sent = << >> /\ stdin = "open" /\ taken = 0 /\ at = "decode"
                    /\ out = << >> /\ read = 0 /\ queued = 0 /\ ctxDone = FALSE
                    /\ boots \in Nat /\ asked \in Nat
<1>1. Fresh => SessionInv
  <2> SUFFICES ASSUME Fresh PROVE SessionInv
    OBVIOUS
  <2>1. SessionType /\ HandInv
    <3>1. << >> \in Seq(Sendable) /\ << >> \in Seq(Nat) /\ Len(<< >>) = 0
      OBVIOUS
    <3>2. /\ (sent \in Seq(Sendable)) /\ (out \in Seq(Nat))
          /\ (taken <= Len(sent)) /\ (read <= Len(out)) /\ (queued <= QueueCap)
      BY <3>1, McpAssumption
    <3>3. SessionType
      BY <3>2 DEF SessionType
    <3>4. HandInv
      BY DEF HandInv, InHand
    <3>5. QED BY <3>3, <3>4
  <2>2. DOMAIN out = {} /\ Answered = {}
    BY DEF Answered
  <2>3. {k \in 1..taken : IsRequest(sent[k])} = {}
    OBVIOUS
  <2>4. QED BY <2>1, <2>2, <2>3 DEF SessionInv, RepliesInOrder
<1>2. Init => Fresh
  BY DEF Init
<1>3. Fresh' => SessionInv'
  BY <1>1, PTL
<1>4. SessionInv /\ Crash => Fresh'
  BY DEF SessionInv, SessionType, Crash
<1>5. QED BY <1>1, <1>2, <1>3, <1>4

LEMMA SessionInductive == ASSUME SessionInv, [Next]_vars PROVE SessionInv'
<1> USE DEF SessionInv
<1>1. CASE Decode \/ Encode \/ TaskWrites
  BY <1>1, DecodeKeeps, EncodeKeeps, TaskWritesKeeps
<1>2. CASE DecodeEof \/ Spin \/ CallSubmit \/ SendToQueue \/ McpOpensFile \/ McpWritesFile
  <2>1. Apart /\ SessionType'
    BY <1>2, McpAssumption
       DEF DecodeEof, Spin, CallSubmit, SendToQueue, McpOpensFile, McpWritesFile, Loop, Apart,
           InHand, SessionType
  <2>2. QED BY <2>1, ApartKeeps
<1>3. CASE CliRegisters \/ Starts \/ UNCHANGED vars
  <2>1. Apart /\ SessionType'
    BY <1>3 DEF CliRegisters, Starts, sessionVars, vars, Apart, SessionType
  <2>2. QED BY <2>1, ApartKeeps
<1>4. CASE ClientCloses \/ ClientReads \/ WorkerTakes \/ Sigterm
  <2> USE DEF SessionType
  <2>1. Apart
    BY <1>4 DEF ClientCloses, ClientReads, WorkerTakes, Sigterm, Around, Apart
  <2>2. ASSUME ClientCloses \/ Sigterm PROVE SessionType'
    BY <2>2 DEF ClientCloses, Sigterm, Around
  <2>3. ASSUME ClientReads PROVE SessionType'
    BY <2>3, TakenInRange DEF ClientReads, Around
  <2>4. ASSUME WorkerTakes PROVE SessionType'
    BY <2>4, McpAssumption DEF WorkerTakes, Around
  <2>5. QED BY <1>4, <2>1, <2>2, <2>3, <2>4, ApartKeeps
<1>5. ASSUME NEW value \in Sendable, ClientSends(value) PROVE SessionInv'
  BY <1>5, ClientSendsKeeps
<1>6. CASE Exit \/ Crash
  BY <1>6, NewSession DEF Exit
<1>7. QED BY <1>1, <1>2, <1>3, <1>4, <1>5, <1>6 DEF Next, McpStep

\* The variables have their types.
THEOREM McpTypeCorrect == Spec => []TypeOK
<1>1. Init => ConnectionsInv /\ SessionInv
  BY ConnectionsStart, NewSession DEF Init
<1>2. ConnectionsInv /\ SessionInv /\ [Next]_vars => (ConnectionsInv /\ SessionInv)'
  BY ConnectionsInductive, ServerMovesConnections, SessionInductive
<1>3. ConnectionsInv /\ SessionInv => TypeOK
  BY TypeFromParts DEF ConnectionsInv, SessionInv
<1>4. QED BY <1>1, <1>2, <1>3, PTL DEF Spec

\* The replies match the requests by place, whatever the tasks write in between.
THEOREM RepliesMatch == Spec => []RepliesInOrder
<1>1. Init => SessionInv
  BY NewSession
<1>2. SessionInv /\ [Next]_vars => SessionInv'
  BY SessionInductive
<1>3. SessionInv => RepliesInOrder
  BY DEF SessionInv
<1>4. QED BY <1>1, <1>2, <1>3, PTL DEF Spec
===============================================================================
