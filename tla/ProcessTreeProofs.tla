--------------------------- MODULE ProcessTreeProofs --------------------------
(***************************************************************************)
(* Proofs about ProcessTree, for any number of processes.                  *)
(***************************************************************************)
EXTENDS ProcessTree, TLAPS

\* Nobody is below himself by the parents in "of": of any processes one has its
\* parent elsewhere.
NoCycle(of) == \A X \in SUBSET Pids : X # {} => \E p \in X : of[p] \notin X

\* Nor by the parents as they are and those the scan has read taken together.  Who
\* is no process has no parent, and an unborn one is nobody's.
TreeInv ==
  /\ \A X \in SUBSET Pids : X # {} => \E p \in X : parent[p] \notin X /\ ppid[p] \notin X
  /\ \A p \in Pids : p \notin Listed => parent[p] = NoPid
  /\ \A p, q \in Pids : state[p] = "unborn" => ppid[p] = NoPid /\ ppid[q] # p

\* A force kill is that of a shell which was started, with its PID once it scans.
KillInv ==
  /\ exec = "idle" => kill = "none" /\ \A p \in Pids : state[p] = "unborn"
  /\ exec # "idle" => state[Shell] # "unborn"
  /\ \A p \in attached : state[p] # "unborn"
  /\ kill \in {"scan", "descendants"} => pid = Shell
  /\ kill = "none" => attached = {}
  /\ kill # "scan" => unread = {}

\* While the scan reads, the parent of an attached process is attached and alive,
\* and is what the scan has read or will read.
ScanInv ==
  unread # {} =>
    \A p \in (attached \cap Listed) \ {Shell} :
      /\ parent[p] \in attached \cap Alive
      /\ p \notin unread => ppid[p] = parent[p]

\* From then on what is left of the attached is below the shell in what was read,
\* and then a target.
DescendInv ==
  LET left == (attached \cap Alive) \ {Shell}
  IN  /\ kill = "scan" /\ unread = {} => left \subseteq Below(Shell, ppid)
      /\ kill = "descendants" => left \subseteq targets
      /\ kill \in {"group", "signal", "done"} => attached \cap Alive = {}

\* The inductive invariant.
PInv == TypeOK /\ TreeInv /\ KillInv /\ ScanInv /\ DescendInv /\ SurvivorsLeftGroup

-------------------------------------------------------------------------------
(* Below *)

\* A child of root, or of one below it, is below root.
LEMMA ChildIsBelow ==
  ASSUME NEW root, NEW of, NEW p \in Pids, p # root, of[p] \in Below(root, of) \cup {root}
  PROVE  p \in Below(root, of)
BY DEF Below

\* The parent of one below root is root or below it.
LEMMA ParentOfBelow ==
  ASSUME NEW root, NEW of, NEW p \in Below(root, of)
  PROVE  of[p] \in Below(root, of) \cup {root}
<1> DEFINE closed == {S \in SUBSET Pids : \A q \in Pids : of[q] \in S \cup {root} => q \in S}
           T == {q \in Pids : \A S \in closed : q \in S}
<1>1. Below(root, of) = T \ {root}
  BY DEF Below
<1>2. \A q \in Pids : of[q] \in T \cup {root} => q \in T
  OBVIOUS
<1>3. SUFFICES ASSUME of[p] \notin T \cup {root} PROVE FALSE
  BY <1>1
<1>4. T \ {p} \in closed
  BY <1>2, <1>3
<1>5. QED BY <1>1, <1>4

\* Without cycles, the parent of root is not below it.
LEMMA RootIsNotBelow ==
  ASSUME NEW of, NoCycle(of), NEW root \in Pids
  PROVE  of[root] \notin Below(root, of) \cup {root}
<1> DEFINE X == Below(root, of) \cup {root}
<1>1. X \in SUBSET Pids /\ X # {}
  BY DEF Below
<1>2. \A p \in Below(root, of) : of[p] \in X
  BY ParentOfBelow
<1>3. PICK p \in X : of[p] \notin X
  BY <1>1, Zenon DEF NoCycle
<1>4. QED BY <1>2, <1>3

\* Without cycles, those from which every step up stays among them or reaches root
\* are below root.
LEMMA ClimbersAreBelow ==
  ASSUME NEW of, NoCycle(of), NEW root, NEW G \in SUBSET Pids, root \notin G,
         \A p \in G : of[p] \in G \cup {root}
  PROVE  G \subseteq Below(root, of)
<1> SUFFICES ASSUME NEW S \in SUBSET Pids,
                    \A q \in Pids : of[q] \in S \cup {root} => q \in S
             PROVE  G \subseteq S
  BY DEF Below
<1>1. \A p \in G \ S : of[p] \in G \ S
  OBVIOUS
<1>2. G \ S \in SUBSET Pids
  OBVIOUS
<1>3. QED BY <1>1, <1>2, Zenon DEF NoCycle

LEMMA TreeHasNoCycle == TreeInv => NoCycle(parent) /\ NoCycle(ppid)
BY Zenon DEF TreeInv, NoCycle

-------------------------------------------------------------------------------
(* Processes that end *)

\* What the end of the processes of S does to those that go on.
LEMMA EndEffect ==
  ASSUME TypeOK, TreeInv, NEW S \in SUBSET Alive, End(S)
  PROVE  /\ state' \in [Pids -> {"unborn", "alive", "zombie", "gone"}]
         /\ parent' \in [Pids -> Pids \cup {Daemon, Adopter, NoPid}]
         /\ Alive' = Alive \ S
         /\ Listed' \subseteq Listed
         /\ \A p \in Pids : state'[p] = "unborn" <=> state[p] = "unborn"
         /\ \A p \in Pids : parent'[p] = IF p \notin Listed' THEN NoPid
                                         ELSE IF parent[p] \in S THEN Adopter ELSE parent[p]
         /\ grouped' = grouped \ S
         /\ writes' = writes \ S
         /\ attached' = IF unread = {} THEN attached
                        ELSE attached \ UNION {Below(p, parent) : p \in S}
<1> DEFINE newParent == [p \in Pids |-> IF parent[p] \in S THEN Adopter ELSE parent[p]]
           ended == S \cup {p \in Pids : state[p] = "zombie"}
           reaped == {p \in ended : newParent[p] = Adopter}
<1>1. /\ state' = [p \in Pids |-> CASE p \in reaped -> "gone"
                                    [] p \in S \ reaped -> "zombie"
                                    [] OTHER -> state[p]]
      /\ parent' = [p \in Pids |-> IF p \in reaped THEN NoPid ELSE newParent[p]]
  BY DEF End
<1>2. \A p \in Pids : newParent[p] = IF parent[p] \in S THEN Adopter ELSE parent[p]
  OBVIOUS
<1>3. /\ S \subseteq Pids /\ reaped \subseteq Listed
      /\ \A p \in S : state[p] = "alive"
      /\ \A p \in reaped : p \in S \/ state[p] = "zombie"
      /\ \A p \in Pids : state[p] = "zombie" /\ newParent[p] = Adopter => p \in reaped
  BY DEF Alive, Listed
<1> HIDE DEF newParent, ended, reaped
<1>4. /\ state' \in [Pids -> {"unborn", "alive", "zombie", "gone"}]
      /\ \A p \in Pids : /\ p \in reaped => state'[p] = "gone"
                         /\ p \in S \ reaped => state'[p] = "zombie"
                         /\ p \notin S \cup reaped => state'[p] = state[p]
  BY <1>1 DEF TypeOK
<1>5. /\ Alive' = Alive \ S /\ Listed' = Listed \ reaped
      /\ \A p \in Pids : state'[p] = "unborn" <=> state[p] = "unborn"
  BY <1>3, <1>4 DEF Alive, Listed
<1>6. \A p \in Pids : parent'[p] = IF p \in reaped THEN NoPid ELSE newParent[p]
  BY <1>1
<1>7. \A p \in Pids : p \notin Listed => newParent[p] = NoPid
  BY <1>2, <1>3, ProcessAssumption DEF TreeInv
<1>8. parent' \in [Pids -> Pids \cup {Daemon, Adopter, NoPid}]
  BY <1>1, <1>2 DEF TypeOK
<1>9. QED BY <1>2, <1>5, <1>6, <1>7, <1>8, <1>4 DEF End

\* An end keeps the types and the tree, whatever the force kill does meanwhile.
LEMMA EndTree ==
  ASSUME TypeOK, TreeInv, NEW S \in SUBSET Alive, End(S),
         \A p \in Pids : ppid'[p] \in {ppid[p], NoPid}
  PROVE  /\ TreeInv'
         /\ (grouped \cup writes \subseteq Alive)'
         /\ (\A p \in Listed : parent[p] \in Alive \cup {Adopter, Daemon})'
<1> USE ProcessAssumption
<1>1. (grouped \cup writes \subseteq Alive)'
  BY EndEffect DEF TypeOK
<1>2. ASSUME NEW p \in Listed' PROVE parent'[p] \in Alive' \cup {Adopter, Daemon}
  <2>1. p \in Listed /\ p \in Pids
    BY <1>2, EndEffect DEF Listed
  <2>2. parent[p] \in Alive \cup {Adopter, Daemon}
    BY <2>1 DEF TypeOK
  <2>3. parent'[p] = IF parent[p] \in S THEN Adopter ELSE parent[p]
    BY <1>2, <2>1, EndEffect
  <2>4. Alive' = Alive \ S
    BY EndEffect
  <2>5. QED BY <2>2, <2>3, <2>4
<1>3. \A p \in Pids : parent'[p] \in {parent[p], Adopter, NoPid}
  BY EndEffect
<1>4. ASSUME NEW X \in SUBSET Pids, X # {}
      PROVE  \E p \in X : parent'[p] \notin X /\ ppid'[p] \notin X
  <2>1. PICK p \in X : parent[p] \notin X /\ ppid[p] \notin X
    BY <1>4 DEF TreeInv
  <2>2. QED BY <1>3, <2>1
<1>5. \A p \in Pids : p \notin Listed' => parent'[p] = NoPid
  BY EndEffect
<1>6. \A p \in Pids : state'[p] = "unborn" <=> state[p] = "unborn"
  BY EndEffect
<1>7. (\A p, q \in Pids : state[p] = "unborn" => ppid[p] = NoPid /\ ppid[q] # p)'
  BY <1>6 DEF TreeInv
<1>8. TreeInv'
  BY <1>4, <1>5, <1>7 DEF TreeInv
<1>9. QED BY <1>1, <1>2, <1>8

\* An end while the scan reads takes from the attached those that it cuts off.
LEMMA EndScan ==
  ASSUME TypeOK, TreeInv, ScanInv, NEW S \in SUBSET Alive, End(S), UNCHANGED <<unread, ppid>>
  PROVE  ScanInv'
<1> USE ProcessAssumption
<1> SUFFICES ASSUME unread # {}, NEW p \in ((attached \cap Listed) \ {Shell})'
             PROVE  /\ parent'[p] \in (attached \cap Alive)'
                    /\ p \notin unread' => ppid'[p] = parent'[p]
  BY DEF ScanInv
<1>1. /\ attached' = attached \ UNION {Below(q, parent) : q \in S}
      /\ p \in (attached \cap Listed) \ {Shell} /\ p \in Listed' /\ p \in Pids
  BY EndEffect DEF Listed
<1>2. /\ parent[p] \in attached \cap Alive
      /\ p \notin unread => ppid[p] = parent[p]
  BY <1>1 DEF ScanInv
<1>3. NoCycle(parent)
  BY TreeHasNoCycle
<1>4. \A q \in S : q \in Pids /\ p \notin Below(q, parent)
  BY <1>1 DEF Alive
<1>5. ASSUME NEW q \in S PROVE parent[p] \notin Below(q, parent) \cup {q}
  <2>1. CASE p = q
    BY <2>1, <1>3, <1>4, RootIsNotBelow
  <2>2. CASE p # q
    BY <2>2, <1>1, <1>4, ChildIsBelow
  <2>3. QED BY <2>1, <2>2
<1>6. parent[p] \notin S /\ parent[p] \in attached'
  BY <1>1, <1>2, <1>5
<1>7. parent'[p] = parent[p] /\ parent[p] \in Alive'
  BY <1>1, <1>2, <1>6, EndEffect
<1>8. QED BY <1>2, <1>6, <1>7

\* An end that no step of the force kill makes.
LEMMA EndPInv ==
  ASSUME PInv, NEW S \in SUBSET Alive, End(S),
         UNCHANGED <<exec, pid, cancelled, kill, unread, ppid, targets>>
  PROVE  PInv'
<1> USE ProcessAssumption DEF PInv
<1>1. /\ Alive' = Alive \ S /\ attached' \subseteq attached /\ grouped' = grouped \ S
      /\ \A p \in Pids : state'[p] = "unborn" <=> state[p] = "unborn"
  BY EndEffect
<1>2. TreeInv' /\ (grouped \cup writes \subseteq Alive)'
      /\ (\A p \in Listed : parent[p] \in Alive \cup {Adopter, Daemon})'
  BY EndTree
<1>3. TypeOK'
  BY <1>1, <1>2, EndEffect DEF TypeOK
<1>4. KillInv'
  BY <1>1 DEF KillInv, TypeOK
<1>5. ScanInv'
  BY EndScan
<1>6. DescendInv'
  BY <1>1 DEF DescendInv, Below
<1>7. SurvivorsLeftGroup'
  BY <1>1 DEF SurvivorsLeftGroup, Killed
<1>8. QED BY <1>2, <1>3, <1>4, <1>5, <1>6, <1>7

-------------------------------------------------------------------------------
(* The force kill *)

LEMMA CancelForcePInv ==
  ASSUME PInv, CancelWithoutPid \/ ListProc \/ ListProcFails
  PROVE  PInv'
<1> USE ProcessAssumption DEF PInv, CancelForce, procs
<1> USE DEF CancelWithoutPid, ListProc, ListProcFails
<1>1. /\ kill = "none" /\ exec # "idle" /\ unread = {} /\ attached = {}
      /\ Shell \in Pids /\ state[Shell] # "unborn" /\ Below(Shell, parent) \subseteq Pids
  BY DEF KillInv, Below
<1>2. /\ UNCHANGED <<state, parent, grouped, writes, exec, pid, cancelled, ppid, targets>>
      /\ Alive' = Alive /\ Listed' = Listed
  BY DEF Alive, Listed
<1>3. TypeOK'
  BY <1>1, <1>2 DEF TypeOK, Listed
<1>4. TreeInv'
  BY <1>2 DEF TreeInv
<1>5. KillInv'
  BY <1>1, <1>2 DEF KillInv, TypeOK, Listed
<1>6. ScanInv'
  <2>1. CASE ListProc
    <3> SUFFICES ASSUME NEW p \in (attached' \cap Listed) \ {Shell}
                 PROVE  parent[p] \in attached' \cap Alive /\ p \in unread'
      BY <1>2, <2>1 DEF ScanInv
    <3>1. p \in Below(Shell, parent) \cap Listed /\ p \in Pids
      BY <2>1 DEF Listed
    <3>2. parent[p] \in Below(Shell, parent) \cup {Shell}
      BY <3>1, ParentOfBelow
    <3>3. parent[p] \in Alive
      BY <1>1, <3>1, <3>2 DEF TypeOK
    <3>4. QED BY <2>1, <3>1, <3>2, <3>3 DEF Alive, Listed
  <2>2. CASE CancelWithoutPid \/ ListProcFails
    BY <2>2, <1>1 DEF ScanInv
  <2>3. QED BY <2>1, <2>2
<1>7. DescendInv'
  <2>1. CASE CancelWithoutPid
    BY <2>1, <1>1, <1>2 DEF DescendInv
  <2>2. CASE ListProc
    BY <2>2, <1>1, <1>2 DEF DescendInv, Listed, Alive
  <2>3. CASE ListProcFails
    BY <2>3, <1>2 DEF DescendInv
  <2>4. QED BY <2>1, <2>2, <2>3
<1>8. SurvivorsLeftGroup'
  BY <1>1 DEF SurvivorsLeftGroup, Killed
<1>9. QED BY <1>3, <1>4, <1>5, <1>6, <1>7, <1>8

\* Whether an entry is read or skipped.  With the last one the attached that are left
\* are below the shell as read: the parent of each is what was read of it.
LEMMA EntryPInv ==
  ASSUME PInv, NEW p \in unread, kill = "scan", unread' = unread \ {p},
         UNCHANGED <<procs, exec, pid, cancelled, kill, targets>>,
         attached' \subseteq attached,
         ppid' \in [Pids -> Pids \cup {Daemon, Adopter, NoPid}], TreeInv',
         \A q \in (attached' \cap Listed) \ {Shell} :
           /\ parent[q] \in attached' \cap Alive
           /\ q \notin unread' => ppid'[q] = parent[q]
  PROVE  PInv'
<1> USE ProcessAssumption DEF PInv, procs
<1>1. /\ UNCHANGED <<state, parent, grouped, writes>>
      /\ Alive' = Alive /\ Listed' = Listed /\ attached' \subseteq Pids /\ kill' = "scan"
  BY DEF Alive, Listed, TypeOK
<1>2. TypeOK' /\ KillInv' /\ ScanInv' /\ SurvivorsLeftGroup'
  BY <1>1 DEF TypeOK, KillInv, ScanInv, SurvivorsLeftGroup, Killed
<1>3. DescendInv'
  <2>1. CASE unread' = {}
    <3> DEFINE G == (attached' \cap Listed) \ {Shell}
    <3>1. NoCycle(ppid')
      BY Zenon DEF TreeInv, NoCycle
    <3>2. \A q \in G : ppid'[q] \in G \cup {Shell}
      BY <2>1 DEF Alive, Listed
    <3>3. G \in SUBSET Pids /\ Shell \notin G
      BY DEF Listed
    <3>4. G \subseteq Below(Shell, ppid')
      BY <3>1, <3>2, <3>3, ClimbersAreBelow
    <3>5. (attached' \cap Alive) \ {Shell} \subseteq Below(Shell, ppid')
      BY <3>4 DEF Alive, Listed
    <3>6. QED BY <3>5, <1>1 DEF DescendInv, Below
  <2>2. CASE unread' # {}
    BY <2>2, <1>1 DEF DescendInv
  <2>3. QED BY <2>1, <2>2
<1>4. QED BY <1>2, <1>3

LEMMA ReadStatPInv == ASSUME PInv, NEW p \in Pids, ReadStat(p) PROVE PInv'
<1> USE ProcessAssumption DEF PInv, ReadStat, procs
<1>1. /\ UNCHANGED <<state, parent>> /\ p \in unread
      /\ Alive' = Alive /\ Listed' = Listed /\ p \in Listed
      /\ state[p] # "unborn" /\ parent[p] \in Alive \cup {Adopter, Daemon}
  BY DEF Alive, Listed, TypeOK
<1>2. \A q \in Pids : ppid'[q] = IF q = p THEN parent[p] ELSE ppid[q]
  BY DEF TypeOK
<1>3. TreeInv'
  <2>1. ASSUME NEW X \in SUBSET Pids, X # {}
        PROVE  \E q \in X : parent'[q] \notin X /\ ppid'[q] \notin X
    BY <1>1, <1>2, <2>1 DEF TreeInv
  <2>2. \A q, r \in Pids : state[q] = "unborn" => ppid'[q] = NoPid /\ ppid'[r] # q
    <3>1. \A q \in Pids : state[q] = "unborn" => q \notin Alive
      BY DEF Alive
    <3>2. QED BY <1>1, <1>2, <3>1 DEF TreeInv
  <2>3. QED BY <1>1, <2>1, <2>2 DEF TreeInv
<1>4. \A q \in (attached \cap Listed) \ {Shell} :
        /\ parent[q] \in attached \cap Alive
        /\ q \notin unread' => ppid'[q] = parent[q]
  BY <1>1, <1>2 DEF ScanInv, Listed
<1>5. ppid' \in [Pids -> Pids \cup {Daemon, Adopter, NoPid}]
  BY DEF TypeOK
<1>6. QED BY <1>1, <1>3, <1>4, <1>5, EntryPInv

\* Who is attached still has its parent attached: it is not below the one skipped.
LEMMA ReadStatFailsPInv == ASSUME PInv, NEW p \in Pids, ReadStatFails(p) PROVE PInv'
<1> USE ProcessAssumption DEF PInv, ReadStatFails, procs
<1>1. /\ UNCHANGED <<state, parent, ppid>> /\ p \in unread
      /\ Alive' = Alive /\ Listed' = Listed
  BY DEF Alive, Listed
<1>2. TreeInv'
  BY <1>1 DEF TreeInv
<1>3. ASSUME NEW q \in (attached' \cap Listed) \ {Shell}
      PROVE  /\ parent[q] \in attached' \cap Alive
             /\ q \notin unread' => ppid'[q] = parent[q]
  <2>1. /\ q \in (attached \cap Listed) \ {Shell} /\ q \in Pids
        /\ q # p /\ q \notin Below(p, parent)
    BY DEF Listed
  <2>2. /\ parent[q] \in attached \cap Alive
        /\ q \notin unread => ppid[q] = parent[q]
    BY <1>1, <2>1 DEF ScanInv
  <2>3. parent[q] \notin Below(p, parent) \cup {p}
    BY <2>1, ChildIsBelow
  <2>4. QED BY <2>1, <2>2, <2>3
<1>4. ppid' \in [Pids -> Pids \cup {Daemon, Adopter, NoPid}]
  BY DEF TypeOK
<1>5. QED BY <1>1, <1>2, <1>3, <1>4, EntryPInv

LEMMA CollectPInv == ASSUME PInv, Collect PROVE PInv'
<1> USE ProcessAssumption DEF PInv, Collect, procs
<1>1. /\ UNCHANGED <<state, parent, grouped, writes, exec, pid, cancelled, unread, ppid, attached>>
      /\ Alive' = Alive /\ Listed' = Listed /\ pid = Shell
      /\ kill = "scan" /\ kill' = "descendants" /\ unread = {}
  BY DEF Alive, Listed, KillInv
<1>2. Below(pid, ppid) \subseteq Pids
  BY DEF Below
<1>3. TypeOK' /\ TreeInv' /\ KillInv'
  BY <1>1, <1>2 DEF TypeOK, TreeInv, KillInv
<1>4. ScanInv' /\ SurvivorsLeftGroup'
  BY <1>1 DEF ScanInv, SurvivorsLeftGroup, Killed
<1>5. DescendInv'
  BY <1>1 DEF DescendInv
<1>6. QED BY <1>3, <1>4, <1>5

\* The kills that come after the scan: of a descendant, of the shell, of its group.
LEMMA SigkillPInv ==
  ASSUME PInv, NEW S \in SUBSET Pids, Sigkill(S), kill \in {"descendants", "group"},
         \/ /\ kill = "descendants" /\ kill' = "descendants" /\ ppid' = ppid
            /\ \E p \in S : targets' = targets \ {p}
         \/ /\ kill = "descendants" /\ kill' = "group" /\ ppid' = Nothing
            /\ targets = {} /\ targets' = targets /\ Shell \in S
         \/ /\ kill = "group" /\ kill' = "signal" /\ ppid' = ppid
            /\ targets' = targets /\ S = grouped
  PROVE  PInv'
<1> DEFINE T == S \cap Alive
<1> USE ProcessAssumption DEF PInv
<1>1. /\ End(T) /\ T \in SUBSET Alive
      /\ UNCHANGED <<exec, pid, cancelled, unread>> /\ unread = {}
  BY DEF Sigkill, KillInv
<1>2. \A p \in Pids : ppid'[p] \in {ppid[p], NoPid}
  BY DEF Nothing
<1>3. /\ Alive' = Alive \ T /\ attached' = attached /\ grouped' = grouped \ T
      /\ \A p \in Pids : state'[p] = "unborn" <=> state[p] = "unborn"
  BY <1>1, EndEffect
<1>4. TreeInv' /\ (grouped \cup writes \subseteq Alive)'
      /\ (\A p \in Listed : parent[p] \in Alive \cup {Adopter, Daemon})'
  BY <1>1, <1>2, EndTree
<1>5. /\ state' \in [Pids -> {"unborn", "alive", "zombie", "gone"}]
      /\ parent' \in [Pids -> Pids \cup {Daemon, Adopter, NoPid}]
  BY <1>1, EndEffect
<1>6. ppid' \in [Pids -> Pids \cup {Daemon, Adopter, NoPid}] /\ targets' \subseteq Pids
      /\ kill' \in {"descendants", "group", "signal"}
  BY DEF TypeOK, Nothing
<1>7. TypeOK'
  BY <1>1, <1>3, <1>4, <1>5, <1>6 DEF TypeOK
<1>8. KillInv'
  BY <1>1, <1>3, <1>6 DEF KillInv, TypeOK
<1>9. ScanInv'
  BY <1>1 DEF ScanInv
<1>10. DescendInv'
  BY <1>1, <1>3 DEF DescendInv
<1>11. SurvivorsLeftGroup'
  <2>1. grouped \subseteq Alive
    BY DEF TypeOK
  <2>2. QED BY <1>3, <2>1 DEF SurvivorsLeftGroup, Killed
<1>12. QED BY <1>4, <1>7, <1>8, <1>9, <1>10, <1>11

LEMMA KillStepPInv == ASSUME PInv, KillStep PROVE PInv'
<1> USE ProcessAssumption
<1>1. ASSUME NEW p \in Pids, ReadStat(p) \/ ReadStatFails(p) PROVE PInv'
  BY <1>1, ReadStatPInv, ReadStatFailsPInv
<1>2. ASSUME NEW p \in Pids, KillDescendant(p) PROVE PInv'
  <2>1. {p} \in SUBSET Pids /\ p \in {p}
    OBVIOUS
  <2>2. QED BY <1>2, <2>1, SigkillPInv DEF KillDescendant
<1>3. CASE Collect
  BY <1>3, CollectPInv
<1>4. CASE KillParent
  <2>1. pid = Shell /\ {Shell} \in SUBSET Pids /\ Shell \in {Shell}
    BY <1>4 DEF PInv, KillInv, KillParent
  <2>2. QED BY <1>4, <2>1, SigkillPInv DEF KillParent
<1>5. CASE KillGroup
  <2>1. grouped \in SUBSET Pids
    BY DEF PInv, TypeOK, Alive
  <2>2. QED BY <1>5, <2>1, SigkillPInv DEF KillGroup
<1>6. CASE Signal
  <2> USE DEF PInv, Signal, procs
  <2>1. /\ UNCHANGED <<state, parent, grouped, writes, exec, pid, unread, ppid, targets, attached>>
        /\ Alive' = Alive /\ Listed' = Listed /\ kill = "signal" /\ kill' = "done"
    BY <1>6 DEF Alive, Listed
  <2>2. cancelled' \in BOOLEAN
    BY <1>6
  <2>3. TypeOK' /\ TreeInv' /\ KillInv'
    BY <2>1, <2>2 DEF TypeOK, TreeInv, KillInv
  <2>4. ScanInv' /\ DescendInv' /\ SurvivorsLeftGroup'
    BY <2>1 DEF ScanInv, DescendInv, SurvivorsLeftGroup, Killed
  <2>5. QED BY <2>3, <2>4
<1>7. QED BY <1>1, <1>2, <1>3, <1>4, <1>5, <1>6 DEF KillStep

-------------------------------------------------------------------------------
(* The processes and executeRawCommand *)

LEMMA ForkPInv == ASSUME PInv, NEW p \in Pids, Fork(p) PROVE PInv'
<1> USE ProcessAssumption DEF PInv, force
<1> DEFINE unborn == {q \in Pids \ {Shell} : state[q] = "unborn"}
<1>1. PICK child \in unborn :
        /\ state' = [state EXCEPT ![child] = "alive"]
        /\ parent' = [parent EXCEPT ![child] = p]
        /\ grouped' \in {grouped, Inherit(p, child, grouped)}
        /\ writes' \in {writes, Inherit(p, child, writes)}
        /\ state[p] = "alive"
        /\ UNCHANGED <<exec, pid, cancelled, kill, unread, ppid, targets, attached>>
  BY DEF Fork
<1>2. /\ child \in Pids /\ child # Shell /\ state[child] = "unborn" /\ p # child
      /\ Alive' = Alive \cup {child} /\ Listed' = Listed \cup {child}
      /\ child \notin Listed /\ child \notin Alive /\ p \in Alive
      /\ \A q \in Pids : parent'[q] = IF q = child THEN p ELSE parent[q]
      /\ \A q \in Pids : state'[q] = IF q = child THEN "alive" ELSE state[q]
  BY <1>1 DEF TypeOK, Alive, Listed
<1>3. /\ grouped' \subseteq grouped \cup {child} /\ (grouped = {} => grouped' = {})
      /\ writes' \subseteq writes \cup {child}
  BY <1>1 DEF Inherit
<1>4. TypeOK'
  BY <1>1, <1>2, <1>3 DEF TypeOK
<1>5. \A q \in Pids : parent[q] # child /\ ppid[q] # child
  <2>1. \A q \in Listed : parent[q] # child
    BY <1>2 DEF TypeOK
  <2>2. QED BY <1>2, <2>1 DEF TreeInv
<1>6. TreeInv'
  <2>1. ASSUME NEW X \in SUBSET Pids, X # {}
        PROVE  \E q \in X : parent'[q] \notin X /\ ppid'[q] \notin X
    <3>1. CASE X = {child}
      BY <3>1, <1>1, <1>2, <1>5
    <3>2. CASE X # {child}
      <4>1. X \ {child} \in SUBSET Pids /\ X \ {child} # {}
        BY <2>1, <3>2
      <4>2. PICK q \in X \ {child} : parent[q] \notin X \ {child} /\ ppid[q] \notin X \ {child}
        BY <4>1, Zenon DEF TreeInv
      <4>3. QED BY <1>1, <1>2, <1>5, <4>2
    <3>3. QED BY <3>1, <3>2
  <2>2. \A q \in Pids : q \notin Listed' => parent'[q] = NoPid
    BY <1>2 DEF TreeInv
  <2>3. QED BY <1>1, <1>2, <2>1, <2>2 DEF TreeInv
<1>7. child \notin attached
  BY <1>2 DEF KillInv
<1>8. KillInv'
  BY <1>1, <1>2 DEF KillInv, TypeOK
<1>9. ScanInv'
  BY <1>1, <1>2, <1>7 DEF ScanInv, Listed
<1>10. DescendInv'
  BY <1>1, <1>2, <1>7 DEF DescendInv, Below
<1>11. SurvivorsLeftGroup'
  BY <1>1, <1>3 DEF SurvivorsLeftGroup, Killed
<1>12. QED BY <1>4, <1>6, <1>8, <1>9, <1>10, <1>11

\* Whoever reaps a process: the others keep their parents, for it was nobody's.
LEMMA ReapedPInv ==
  ASSUME PInv, NEW p \in Pids, state[p] = "zombie", Reaped(p),
         exec # "idle", exec' \in {exec, "reaped"}, UNCHANGED <<pid, cancelled, force>>
  PROVE  PInv'
<1> USE ProcessAssumption DEF PInv, Reaped, force
<1>1. /\ Alive' = Alive /\ Listed' = Listed \ {p} /\ p \in Listed /\ p \notin Alive
      /\ \A q \in Pids : parent'[q] = IF q = p THEN NoPid ELSE parent[q]
      /\ \A q \in Pids : state'[q] = IF q = p THEN "gone" ELSE state[q]
      /\ UNCHANGED <<grouped, writes, pid, cancelled, kill, unread, ppid, targets, attached>>
  BY DEF TypeOK, Alive, Listed
<1>2. TypeOK'
  BY <1>1 DEF TypeOK
<1>3. TreeInv'
  <2>1. ASSUME NEW X \in SUBSET Pids, X # {}
        PROVE  \E q \in X : parent'[q] \notin X /\ ppid'[q] \notin X
    BY <1>1, <2>1 DEF TreeInv
  <2>2. QED BY <1>1, <2>1 DEF TreeInv
<1>4. KillInv'
  BY <1>1 DEF KillInv, TypeOK
<1>5. ScanInv'
  BY <1>1 DEF ScanInv, Listed
<1>6. DescendInv'
  BY <1>1 DEF DescendInv, Below
<1>7. SurvivorsLeftGroup'
  BY <1>1 DEF SurvivorsLeftGroup, Killed
<1>8. QED BY <1>2, <1>3, <1>4, <1>5, <1>6, <1>7

LEMMA StartCommandPInv == ASSUME PInv, StartCommand PROVE PInv'
<1> USE ProcessAssumption DEF PInv, StartCommand, force
<1>1. kill = "none" /\ \A p \in Pids : state[p] = "unborn"
  BY DEF KillInv
<1>2. /\ Alive = {} /\ Alive' = {Shell} /\ Listed' = {Shell}
      /\ \A q \in Pids : parent'[q] = IF q = Shell THEN Daemon ELSE NoPid
      /\ \A q \in Pids : state'[q] = IF q = Shell THEN "alive" ELSE "unborn"
      /\ \A q \in Pids : ppid[q] = NoPid /\ parent[q] = NoPid
      /\ UNCHANGED <<pid, cancelled, kill, unread, ppid, targets, attached>>
  BY <1>1 DEF TypeOK, Alive, Listed, TreeInv
<1>3. TypeOK'
  BY <1>2 DEF TypeOK
<1>4. attached = {} /\ unread = {}
  BY <1>1 DEF KillInv
<1>5. TreeInv'
  BY <1>2 DEF TreeInv
<1>6. KillInv'
  BY <1>1, <1>2, <1>4 DEF KillInv
<1>7. ScanInv' /\ DescendInv' /\ SurvivorsLeftGroup'
  BY <1>1, <1>2, <1>4 DEF ScanInv, DescendInv, SurvivorsLeftGroup, Killed
<1>8. QED BY <1>3, <1>5, <1>6, <1>7

\* The steps that touch neither the processes nor the force kill.
LEMMA RestPInv ==
  ASSUME PInv, UNCHANGED <<procs, force>>, cancelled' \in BOOLEAN, pid' \in {pid, Shell},
         \/ exec' = exec
         \/ exec # "idle" /\ exec' \in {"waiting", "returned"}
  PROVE  PInv'
<1> USE ProcessAssumption DEF PInv, procs, force
<1>1. /\ UNCHANGED <<state, parent, grouped, writes, kill, unread, ppid, targets, attached>>
      /\ Alive' = Alive /\ Listed' = Listed
  BY DEF Alive, Listed
<1>2. TypeOK' /\ TreeInv' /\ KillInv'
  BY <1>1 DEF TypeOK, TreeInv, KillInv
<1>3. ScanInv' /\ DescendInv' /\ SurvivorsLeftGroup'
  BY <1>1 DEF ScanInv, DescendInv, SurvivorsLeftGroup, Killed
<1>4. QED BY <1>2, <1>3

-------------------------------------------------------------------------------
(* The theorems *)

LEMMA InitPInv == Init => PInv
<1> SUFFICES ASSUME Init PROVE PInv
  OBVIOUS
<1> USE ProcessAssumption DEF Init, Nothing
<1>1. Alive = {} /\ Listed = {}
  BY DEF Alive, Listed
<1>2. TypeOK /\ TreeInv
  BY <1>1 DEF TypeOK, TreeInv
<1>3. KillInv /\ ScanInv /\ DescendInv /\ SurvivorsLeftGroup
  BY <1>1 DEF KillInv, ScanInv, DescendInv, SurvivorsLeftGroup, Killed
<1>4. QED BY <1>2, <1>3 DEF PInv

LEMMA NextPInv == PInv /\ [Next]_vars => PInv'
<1> SUFFICES ASSUME PInv, [Next]_vars PROVE PInv'
  OBVIOUS
<1> USE ProcessAssumption
<1>1. ASSUME NEW p \in Pids, Fork(p) \/ Exit(p) \/ Reap(p) PROVE PInv'
  <2>1. CASE Fork(p)
    BY <2>1, ForkPInv
  <2>2. CASE Exit(p)
    <3>1. {p} \in SUBSET Alive
      BY <2>2 DEF Exit, Alive
    <3>2. QED BY <2>2, <3>1, EndPInv DEF Exit
  <2>3. CASE Reap(p)
    <3>1. exec # "idle"
      BY <2>3 DEF PInv, KillInv, Reap
    <3>2. QED BY <2>3, <3>1, ReapedPInv DEF Reap
  <2>4. QED BY <1>1, <2>1, <2>2, <2>3
<1>2. CASE Cancel
  BY <1>2, RestPInv DEF Cancel
<1>3. CASE CancelWithoutPid \/ ListProc \/ ListProcFails
  BY <1>3, CancelForcePInv
<1>4. CASE StartCommand
  BY <1>4, StartCommandPInv
<1>5. CASE SavePid \/ WaitReturns
  BY <1>5, RestPInv DEF SavePid, WaitReturns, PInv, TypeOK
<1>6. CASE ContextKills
  <2>1. {Shell} \in SUBSET Alive
    BY <1>6 DEF ContextKills, Alive
  <2>2. QED BY <1>6, <2>1, EndPInv DEF ContextKills
<1>7. CASE WaitReaps
  BY <1>7, ReapedPInv DEF WaitReaps
<1>8. CASE KillStep
  BY <1>8, KillStepPInv
<1>9. CASE UNCHANGED vars
  BY <1>9, RestPInv DEF vars, PInv, TypeOK
<1>10. QED BY <1>1, <1>2, <1>3, <1>4, <1>5, <1>6, <1>7, <1>8, <1>9 DEF Next, ExecuteStep

\* The processes, the scan and the kill stay in order at every step.
THEOREM ProcessInvariance == Spec => []PInv
BY InitPInv, NextPInv, PTL DEF Spec

\* Types, and that every orphan has a parent which reaps it.
THEOREM ProcessTypeCorrect == Spec => []TypeOK
<1>1. PInv => TypeOK
  BY DEF PInv
<1>2. QED BY ProcessInvariance, <1>1, PTL

\* killProcessTree leaves none alive of those that were below the shell when it began
\* and that the scan could see: whose stat, and that of every process between them and
\* the shell, it read while these lived.  What they fork, end or leave meanwhile
\* makes no difference, nor which other stats are read; where /proc cannot be read,
\* it is the shell alone (grpc_handler.go:471, 497, 514).
THEOREM SeenDescendantsAreKilled == Spec => []SeenDescendantsDie
<1>1. PInv => SeenDescendantsDie
  BY DEF PInv, DescendInv, SeenDescendantsDie, Killed
<1>2. QED BY ProcessInvariance, <1>1, PTL

\* The signal to -parentPID comes after the shell itself was killed and leaves no
\* one who could fork into the group again (grpc_handler.go:492).
THEOREM GroupIsKilled == Spec => []SurvivorsLeftGroup
<1>1. PInv => SurvivorsLeftGroup
  BY DEF PInv
<1>2. QED BY ProcessInvariance, <1>1, PTL

\* The recursion of collect ends: though the parents were read at different times,
\* while processes were forked and orphans adopted, there is no cycle in them
\* (grpc_handler.go:535).
THEOREM CollectEnds == Spec => []NoCycle(ppid)
<1>1. PInv => NoCycle(ppid)
  BY TreeHasNoCycle DEF PInv
<1>2. QED BY ProcessInvariance, <1>1, PTL

===============================================================================
