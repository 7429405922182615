------------------------------- MODULE FileLocks -------------------------------
(* The reservations of source files by the agents of a project: one registry  *)
(* file, rewritten as a whole by transactions under a side-car flock          *)
(* (leanflow_cli/runtime/file_locks.py). File tools reserve single files; the *)
(* terminal authority reserves namespaces, strictly, before it persists an    *)
(* outcome (leanflow_cli/native/terminal_authority.py).                       *)
EXTENDS Naturals, FiniteSets

CONSTANTS Actors,        \* the agents, tools and guards that reserve files
          Procs,         \* their processes
          ProcOf,        \* the process of each actor
          Owners,        \* owner ids
          OwnerOf,       \* the owner id an actor gives
          Terminals,     \* the actors that guard terminal outcomes
          Forcing,       \* the actors that ask to replace foreign file leases
          Paths, Within, \* <<p, q>> \in Within: p is q or below it
          ReadFaults,    \* the registry may be unreadable for one read
          FlockFaults,   \* the side-car may be impossible to flock
          NoOne          \* no process, as in an entry of an older version

ASSUME ActorsAssumption ==
  /\ ProcOf \in [Actors -> Procs] /\ OwnerOf \in [Actors -> Owners]
  /\ Terminals \subseteq Actors /\ Forcing \subseteq Actors
  /\ NoOne \notin Procs \cup Owners
ASSUME PathsAssumption ==
  /\ Within \subseteq Paths \X Paths
  /\ \A p \in Paths : <<p, p>> \in Within
\* The registry serializes its readers and writers: it can be read, and where
\* it cannot be flocked the mutex of one process is enough.
Serialized ==
  /\ ~ReadFaults
  /\ FlockFaults => \A a, b \in Actors : ProcOf[a] = ProcOf[b]

\* No two actors go by the same owner id.
UniqueOwners == \A a, b \in Actors : OwnerOf[a] = OwnerOf[b] => a = b

ASSUME FaultsAssumption == ReadFaults \in BOOLEAN /\ FlockFaults \in BOOLEAN

VARIABLES locks,    \* the registry, as persisted
          txn,      \* what a transaction without flock has read, per actor
          granted,  \* the kind of lease each actor was told it has, per path
          alive,    \* the processes that run
          ended     \* the owners whose session reached a terminal status

vars == <<locks, txn, granted, alive, ended>>

Kinds == {"file", "namespace"}
Entries == [owner : Owners, pid : Procs \cup {NoOne}, kind : Kinds, lapsed : BOOLEAN]
NoEntry == [owner |-> NoOne, pid |-> NoOne, kind |-> "file", lapsed |-> TRUE]
Registries == [Paths -> Entries \cup {NoEntry}]
Empty == [p \in Paths |-> NoEntry]
Closed == [open |-> FALSE, seen |-> Empty]

TypeOK ==
  /\ locks \in Registries
  /\ txn \in [Actors -> [open : BOOLEAN, seen : Registries]]
  /\ granted \in [Actors -> [Paths -> Kinds \cup {"none"}]]
  /\ alive \subseteq Procs
  /\ ended \subseteq Owners

\* A registry that an older version left behind: entries without a process id
\* and without a kind, which count as file leases.
LegacyEntries == [owner : Owners, pid : {NoOne}, kind : {"file"}, lapsed : {FALSE}]

Init ==
  /\ locks \in [Paths -> LegacyEntries \cup {NoEntry}]
  /\ txn = [a \in Actors |-> Closed]
  /\ granted = [a \in Actors |-> [p \in Paths |-> "none"]]
  /\ alive = Procs
  /\ ended = {}
-------------------------------------------------------------------------------
(* The registry as a transaction sees it *)

\* A lease with a process id lasts as long as the process; the time limit is
\* for entries without one.
Stale(entry) ==
  IF entry.pid \in Procs THEN entry.pid \notin alive ELSE entry.lapsed

Cleaned(registry) ==
  [p \in Paths |-> IF Stale(registry[p]) THEN NoEntry ELSE registry[p]]

Strict(kind) == kind = "namespace"

\* What a read can yield. A tolerant read takes an unreadable registry for an
\* empty one; a strict read refuses, and needs the flock.
Seen(a, strict) ==
  IF txn[a].open THEN (IF strict THEN {} ELSE {Cleaned(txn[a].seen)})
  ELSE {Cleaned(locks)} \cup (IF ReadFaults /\ ~strict THEN {Empty} ELSE {})

\* Mutant: only the flock excludes other transactions.
Enters_NoMutex(a) == ProcOf[a] \in alive /\ OwnerOf[a] \notin ended

\* The mutex of the process is held for the whole transaction, so another
\* transaction of this process waits for one that runs without flock.
Enters(a) ==
  /\ ProcOf[a] \in alive
  /\ OwnerOf[a] \notin ended
  /\ \A b \in Actors \ {a} : ProcOf[b] = ProcOf[a] => ~txn[b].open

Covers(p, kind, q) == p = q \/ (kind = "namespace" /\ <<q, p>> \in Within)

\* Two leases exclude each other when one covers the path of the other.
Overlap(p, pkind, q, qkind) == Covers(p, pkind, q) \/ Covers(q, qkind, p)

\* Mutant: leases below a requested namespace are overlooked.
Conflicts_BelowOnly(registry, a, p, kind) ==
  {q \in Paths : /\ registry[q] # NoEntry
                 /\ registry[q].owner # OwnerOf[a]
                 /\ Covers(q, registry[q].kind, p)}

Conflicts(registry, a, p, kind) ==
  {q \in Paths : /\ registry[q] # NoEntry
                 /\ registry[q].owner # OwnerOf[a]
                 /\ Overlap(p, kind, q, registry[q].kind)}

\* Force replaces a foreign file lease on exactly the requested file.
Forceable(registry, p, kind) ==
  {q \in {p} : kind = "file" /\ registry[q].kind = "file"}

\* Reacquiring a file does not weaken the owner's namespace lease on it.
StoredKind(registry, a, p, kind) ==
  IF registry[p].owner = OwnerOf[a] /\ registry[p].kind = "namespace"
  THEN "namespace" ELSE kind

Lease(a, kind) ==
  [owner |-> OwnerOf[a], pid |-> ProcOf[a], kind |-> kind, lapsed |-> FALSE]

Commit(a, registry) ==
  /\ locks' = registry
  /\ txn' = [txn EXCEPT ![a] = Closed]
-------------------------------------------------------------------------------
(* Transactions of an actor *)

\* Without flock nothing holds off other processes between read and write.
OpenWithoutFlock(a) ==
  /\ FlockFaults
  /\ Enters(a) /\ ~txn[a].open
  /\ \E registry \in Seen(a, FALSE) :
       txn' = [txn EXCEPT ![a] = [open |-> TRUE, seen |-> registry]]
  /\ UNCHANGED <<locks, granted, alive, ended>>

\* Tools reserve files; only the terminal authority reserves namespaces.
Acquire(a, p, kind, force) ==
  /\ Enters(a)
  /\ kind = "namespace" => a \in Terminals
  /\ force => a \in Forcing
  /\ \E registry \in Seen(a, Strict(kind)) :
       /\ Conflicts(registry, a, p, kind) \subseteq
            (IF force THEN Forceable(registry, p, kind) ELSE {})
       /\ LET stored == StoredKind(registry, a, p, kind)
          IN  /\ Commit(a, [registry EXCEPT ![p] = Lease(a, stored)])
              /\ granted' = [granted EXCEPT ![a][p] = stored]
  /\ UNCHANGED <<alive, ended>>

\* A refused request, or a release that finds nothing it may release, leaves
\* without writing.
Refused(a) ==
  /\ txn[a].open
  /\ Enters(a)
  /\ txn' = [txn EXCEPT ![a] = Closed]
  /\ UNCHANGED <<locks, granted, alive, ended>>

\* Mutant: the owner is not compared.
Release_AnyOwner(a, p, kind, force) ==
  /\ Enters(a)
  /\ kind = "namespace" => a \in Terminals
  /\ force => a \in Forcing /\ kind = "file"
  /\ \E registry \in Seen(a, Strict(kind)) :
       /\ registry[p] # NoEntry
       /\ registry[p].kind = kind
       /\ Commit(a, [registry EXCEPT ![p] = NoEntry])
  /\ granted' = [granted EXCEPT ![a][p] = "none"]
  /\ UNCHANGED <<alive, ended>>

\* The kind must be the recorded one, also with force.
Release(a, p, kind, force) ==
  /\ Enters(a)
  /\ kind = "namespace" => a \in Terminals
  /\ force => a \in Forcing /\ kind = "file"
  /\ \E registry \in Seen(a, Strict(kind)) :
       /\ registry[p] # NoEntry
       /\ registry[p].kind = kind
       /\ registry[p].owner = OwnerOf[a] \/ force
       /\ Commit(a, [registry EXCEPT ![p] = NoEntry])
  /\ granted' = [granted EXCEPT ![a][p] = "none"]
  /\ UNCHANGED <<alive, ended>>

Without(registry, owners) ==
  [p \in Paths |-> IF registry[p].owner \in owners THEN NoEntry ELSE registry[p]]

\* At the end of an agent, a delegate or a runner; runners do it strictly.
ReleaseAll(a) ==
  /\ Enters(a)
  /\ \E registry \in Seen(a, a \in Terminals) :
       Commit(a, Without(registry, {OwnerOf[a]}))
  /\ granted' = [granted EXCEPT ![a] = [p \in Paths |-> "none"]]
  /\ UNCHANGED <<alive, ended>>

\* A starting runner drops the leases of sessions known to be over.
ReleaseStale(a) ==
  /\ Enters(a)
  /\ ended # {}
  /\ \E registry \in Seen(a, FALSE) : Commit(a, Without(registry, ended))
  /\ UNCHANGED <<granted, alive, ended>>

\* Looking at the registry cleans and rewrites it.
ListLocks(a) ==
  /\ Enters(a)
  /\ \E registry \in Seen(a, FALSE) : Commit(a, registry)
  /\ UNCHANGED <<granted, alive, ended>>
-------------------------------------------------------------------------------
(* Sessions, processes and time *)

Dropped(actors) ==
  /\ granted' = [a \in Actors |-> IF a \in actors THEN [p \in Paths |-> "none"]
                                  ELSE granted[a]]
  /\ txn' = [a \in Actors |-> IF a \in actors THEN Closed ELSE txn[a]]

\* A session stops without releasing what it holds; its process may go on.
EndSession(o) ==
  /\ o \notin ended
  /\ \A a \in Actors : OwnerOf[a] = o => ~txn[a].open
  /\ ended' = ended \cup {o}
  /\ Dropped({a \in Actors : OwnerOf[a] = o})
  /\ UNCHANGED <<locks, alive>>

Die(proc) ==
  /\ proc \in alive
  /\ alive' = alive \ {proc}
  /\ Dropped({a \in Actors : ProcOf[a] = proc})
  /\ UNCHANGED <<locks, ended>>

Lapse(p) ==
  /\ locks[p] # NoEntry
  /\ locks[p].pid = NoOne
  /\ locks' = [locks EXCEPT ![p].lapsed = TRUE]
  /\ UNCHANGED <<txn, granted, alive, ended>>

ActorNext(a) ==
  \/ OpenWithoutFlock(a) \/ Refused(a)
  \/ \E p \in Paths, kind \in Kinds, force \in BOOLEAN :
       Acquire(a, p, kind, force) \/ Release(a, p, kind, force)
  \/ ReleaseAll(a) \/ ReleaseStale(a) \/ ListLocks(a)

Next ==
  \/ \E a \in Actors : ActorNext(a)
  \/ \E o \in Owners : EndSession(o)
  \/ \E proc \in Procs : Die(proc)
  \/ \E p \in Paths : Lapse(p)

Spec == Init /\ [][Next]_vars
-------------------------------------------------------------------------------
(* Properties *)

Has(a, p) == granted[a][p] # "none"

\* Two actors are never both told that they may write a file: neither by file
\* leases on it nor by a namespace above it.
GrantsDisjoint ==
  \A a, b \in Actors : \A p, q \in Paths :
    a # b /\ Has(a, p) /\ Has(b, q) => ~Overlap(p, granted[a][p], q, granted[b][q])

\* The lease under a terminal outcome is in the registry, as a namespace of
\* its guard, until the guard lets it go: nobody evicts terminal authority.
TerminalStands ==
  \A a \in Actors, p \in Paths :
    granted[a][p] = "namespace" => locks[p] = Lease(a, "namespace")

\* A lease of a live process whose session goes on stays its owner's: a step
\* of anybody else neither removes it nor hands it over.
LeaseStands ==
  [][\A a \in Actors, p \in Paths :
       Has(a, p) /\ granted'[a][p] = granted[a][p] => locks'[p] = locks[p]]_vars
===============================================================================
