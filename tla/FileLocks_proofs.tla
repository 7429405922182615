---------------------------- MODULE FileLocks_proofs ----------------------------
(* What the reservations guarantee, for every set of actors, processes and     *)
(* paths. Leases are exclusive if every actor has an owner id of its own and   *)
(* the registry serializes its transactions; typing needs neither.             *)
EXTENDS FileLocks, TLAPS

\* What a transaction reads is a registry.
LEMMA SeenType ==
  ASSUME TypeOK, NEW a \in Actors, NEW strict,
         NEW registry \in Seen(a, strict)
  PROVE  registry \in Registries
<1>1. Empty \in Registries
  BY DEF Empty, Registries
<1>2. ASSUME NEW r \in Registries PROVE Cleaned(r) \in Registries
  BY <1>2 DEF Cleaned, Registries
<1>3. locks \in Registries /\ txn[a].seen \in Registries
  BY DEF TypeOK
<1> QED BY <1>1, <1>2, <1>3 DEF Seen

\* A lease written for an actor is an entry.
LEMMA LeaseType ==
  ASSUME NEW a \in Actors, NEW kind \in Kinds
  PROVE  Lease(a, kind) \in Entries
BY ActorsAssumption DEF Lease, Entries

\* Closing a transaction keeps the type of the open ones.
LEMMA CommitType ==
  ASSUME TypeOK, NEW a \in Actors, NEW registry \in Registries, Commit(a, registry)
  PROVE  locks' \in Registries /\ txn' \in [Actors -> [open : BOOLEAN, seen : Registries]]
<1>1. Empty \in Registries
  BY DEF Empty, Registries
<1>2. Closed \in [open : BOOLEAN, seen : Registries]
  BY <1>1 DEF Closed
<1> QED BY <1>2 DEF TypeOK, Commit

\* Every step of an actor keeps the types.
LEMMA ActorType ==
  ASSUME TypeOK, NEW a \in Actors, ActorNext(a)
  PROVE  TypeOK'
<1>1. CASE OpenWithoutFlock(a)
  <2>1. PICK registry \in Seen(a, FALSE) :
          txn' = [txn EXCEPT ![a] = [open |-> TRUE, seen |-> registry]]
    BY <1>1 DEF OpenWithoutFlock
  <2>2. registry \in Registries
    BY SeenType
  <2> QED BY <1>1, <2>1, <2>2 DEF OpenWithoutFlock, TypeOK
<1>2. CASE Refused(a)
  <2>1. Closed \in [open : BOOLEAN, seen : Registries]
    BY DEF Closed, Empty, Registries
  <2> QED BY <1>2, <2>1 DEF Refused, TypeOK
<1>3. ASSUME NEW p \in Paths, NEW kind \in Kinds, NEW force \in BOOLEAN,
             Acquire(a, p, kind, force)
      PROVE  TypeOK'
  <2> DEFINE Stored(r) == StoredKind(r, a, p, kind)
  <2>1. PICK registry \in Seen(a, Strict(kind)) :
          /\ Commit(a, [registry EXCEPT ![p] = Lease(a, Stored(registry))])
          /\ granted' = [granted EXCEPT ![a][p] = Stored(registry)]
    BY <1>3 DEF Acquire
  <2>2. registry \in Registries
    BY SeenType DEF Strict
  <2>3. Stored(registry) \in Kinds
    BY DEF StoredKind, Kinds
  <2>4. [registry EXCEPT ![p] = Lease(a, Stored(registry))] \in Registries
    BY <2>2, <2>3, LeaseType DEF Registries
  <2> HIDE DEF Stored
  <2>5. locks' \in Registries /\ txn' \in [Actors -> [open : BOOLEAN, seen : Registries]]
    BY <2>1, <2>4, CommitType
  <2>6. granted' \in [Actors -> [Paths -> Kinds \cup {"none"}]]
    BY <2>1, <2>3 DEF TypeOK
  <2> QED BY <1>3, <2>5, <2>6 DEF Acquire, TypeOK
<1>4. ASSUME NEW p \in Paths, NEW kind \in Kinds, NEW force \in BOOLEAN,
             Release(a, p, kind, force)
      PROVE  TypeOK'
  <2>1. PICK registry \in Seen(a, Strict(kind)) :
          Commit(a, [registry EXCEPT ![p] = NoEntry])
    BY <1>4 DEF Release
  <2>2. [registry EXCEPT ![p] = NoEntry] \in Registries
    BY SeenType DEF Registries, Strict
  <2>3. locks' \in Registries /\ txn' \in [Actors -> [open : BOOLEAN, seen : Registries]]
    BY <2>1, <2>2, CommitType
  <2> QED BY <1>4, <2>3 DEF Release, TypeOK
<1>5. ASSUME NEW owners PROVE \A r \in Registries : Without(r, owners) \in Registries
  BY DEF Without, Registries
<1>6. CASE ReleaseAll(a)
  <2>1. PICK registry \in Seen(a, a \in Terminals) :
          Commit(a, Without(registry, {OwnerOf[a]}))
    BY <1>6 DEF ReleaseAll
  <2>2. Without(registry, {OwnerOf[a]}) \in Registries
    BY SeenType, <1>5
  <2>3. locks' \in Registries /\ txn' \in [Actors -> [open : BOOLEAN, seen : Registries]]
    BY <2>1, <2>2, CommitType
  <2> QED BY <1>6, <2>3 DEF ReleaseAll, TypeOK
<1>7. CASE ReleaseStale(a)
  <2>1. PICK registry \in Seen(a, FALSE) : Commit(a, Without(registry, ended))
    BY <1>7 DEF ReleaseStale
  <2>2. Without(registry, ended) \in Registries
    BY SeenType, <1>5
  <2>3. locks' \in Registries /\ txn' \in [Actors -> [open : BOOLEAN, seen : Registries]]
    BY <2>1, <2>2, CommitType
  <2> QED BY <1>7, <2>3 DEF ReleaseStale, TypeOK
<1>8. CASE ListLocks(a)
  <2>1. PICK registry \in Seen(a, FALSE) : Commit(a, registry)
    BY <1>8 DEF ListLocks
  <2>2. locks' \in Registries /\ txn' \in [Actors -> [open : BOOLEAN, seen : Registries]]
    BY <2>1, SeenType, CommitType
  <2> QED BY <1>8, <2>2 DEF ListLocks, TypeOK
<1> QED BY <1>1, <1>2, <1>3, <1>4, <1>6, <1>7, <1>8 DEF ActorNext

\* So do the ends of sessions and processes, and time.
LEMMA TypeStep == TypeOK /\ [Next]_vars => TypeOK'
<1> SUFFICES ASSUME TypeOK, [Next]_vars PROVE TypeOK'
  OBVIOUS
<1>1. ASSUME NEW actors, Dropped(actors)
      PROVE  /\ txn' \in [Actors -> [open : BOOLEAN, seen : Registries]]
             /\ granted' \in [Actors -> [Paths -> Kinds \cup {"none"}]]
  <2>1. Closed \in [open : BOOLEAN, seen : Registries]
    BY DEF Closed, Empty, Registries
  <2> QED BY <1>1, <2>1 DEF Dropped, TypeOK
<1>2. ASSUME NEW o \in Owners, EndSession(o) PROVE TypeOK'
  BY <1>1, <1>2 DEF EndSession, TypeOK
<1>3. ASSUME NEW proc \in Procs, Die(proc) PROVE TypeOK'
  BY <1>1, <1>3 DEF Die, TypeOK
<1>4. ASSUME NEW p \in Paths, Lapse(p) PROVE TypeOK'
  <2>1. locks[p] \in Entries
    BY <1>4 DEF Lapse, TypeOK, Registries
  <2>2. [locks[p] EXCEPT !.lapsed = TRUE] \in Entries
    BY <2>1 DEF Entries
  <2>3. locks' \in Registries
    BY <1>4, <2>2 DEF Lapse, TypeOK, Registries
  <2> QED BY <1>4, <2>3 DEF Lapse, TypeOK
<1>5. CASE UNCHANGED vars
  BY <1>5 DEF vars, TypeOK
<1> QED BY <1>2, <1>3, <1>4, <1>5, ActorType DEF Next

\* Every variable keeps its type, whatever is forced, unreadable or unlocked.
THEOREM TypeCorrect == Spec => []TypeOK
<1>1. Init => TypeOK
  <2> SUFFICES ASSUME Init PROVE TypeOK
    OBVIOUS
  <2>1. LegacyEntries \subseteq Entries
    BY DEF LegacyEntries, Entries, Kinds
  <2>2. locks \in Registries
    BY <2>1 DEF Init, Registries
  <2>3. Closed \in [open : BOOLEAN, seen : Registries]
    BY DEF Closed, Empty, Registries
  <2> QED BY <2>2, <2>3 DEF Init, TypeOK
<1> QED BY <1>1, TypeStep, PTL DEF Spec
---------------------------------------------------------------------------------
(* Exclusion *)

\* What a transaction has read still says what the registry says of every live
\* process, and old entries are file leases.
Agrees(registry) ==
  \A p \in Paths : locks[p].pid \in alive \/ registry[p].pid \in alive =>
    registry[p] = locks[p]

OldAreFiles(registry) ==
  \A p \in Paths : registry[p].pid = NoOne => registry[p].kind = "file"

Clean(registry) ==
  \A p \in Paths : registry[p].pid = NoOne \/ registry[p].pid \in alive

Snapshots ==
  \A a \in Actors : txn[a].open =>
    FlockFaults /\ Agrees(txn[a].seen) /\ OldAreFiles(txn[a].seen)

\* The kinds of lease that nobody can replace.
Firm == IF Forcing = {} THEN Kinds ELSE {"namespace"}

\* The registry holds what the actors were told they have ...
Backed ==
  \A a \in Actors, p \in Paths : granted[a][p] \in Firm =>
    /\ locks[p] = Lease(a, granted[a][p])
    /\ ProcOf[a] \in alive
    /\ OwnerOf[a] \notin ended

\* ... and its live leases are known to the actors they are recorded for.
Recorded ==
  \A a \in Actors, p \in Paths :
    locks[p].owner = OwnerOf[a] /\ locks[p].pid \in alive /\ OwnerOf[a] \notin ended =>
      granted[a][p] = locks[p].kind

IInv ==
  /\ TypeOK
  /\ Snapshots
  /\ OldAreFiles(locks)
  /\ Backed
  /\ Forcing = {} => Recorded /\ GrantsDisjoint

\* Without read faults a transaction sees every lease of a live process.
LEMMA SeenAgrees ==
  ASSUME IInv, Serialized, NEW a \in Actors, NEW strict, NEW registry \in Seen(a, strict)
  PROVE  /\ registry \in Registries
         /\ Agrees(registry)
         /\ OldAreFiles(registry)
         /\ Clean(registry)
<1>1. alive \subseteq Procs /\ NoOne \notin Procs
  BY ActorsAssumption DEF IInv, TypeOK
<1>2. ASSUME NEW r \in Registries, Agrees(r), OldAreFiles(r)
      PROVE  Agrees(Cleaned(r)) /\ OldAreFiles(Cleaned(r)) /\ Clean(Cleaned(r))
  <2>1. ASSUME NEW p \in Paths
        PROVE  /\ locks[p].pid \in alive \/ Cleaned(r)[p].pid \in alive =>
                    Cleaned(r)[p] = locks[p]
               /\ Cleaned(r)[p].pid = NoOne => Cleaned(r)[p].kind = "file"
               /\ Cleaned(r)[p].pid = NoOne \/ Cleaned(r)[p].pid \in alive
    <3>1. Cleaned(r)[p] = IF Stale(r[p]) THEN NoEntry ELSE r[p]
      BY DEF Cleaned
    <3>2. r[p].pid \in Procs \cup {NoOne}
      BY DEF Registries, Entries, NoEntry
    <3>3. NoEntry.pid = NoOne /\ NoEntry.kind = "file"
      BY DEF NoEntry
    <3>4. CASE Stale(r[p])
      BY <1>1, <1>2, <3>1, <3>3, <3>4 DEF Stale, Agrees
    <3>5. CASE ~Stale(r[p])
      BY <1>1, <1>2, <3>1, <3>2, <3>5 DEF Stale, Agrees, OldAreFiles
    <3> QED BY <3>4, <3>5
  <2> QED BY <2>1 DEF Agrees, OldAreFiles, Clean
<1>3. Agrees(locks) /\ OldAreFiles(locks) /\ locks \in Registries
  BY DEF Agrees, IInv, TypeOK
<1>4. txn[a].open => Agrees(txn[a].seen) /\ OldAreFiles(txn[a].seen)
  BY DEF IInv, Snapshots
<1>5. txn[a].seen \in Registries
  BY DEF IInv, TypeOK
<1>6. CASE txn[a].open
  BY <1>2, <1>4, <1>5, <1>6, SeenType DEF Seen, IInv
<1>7. CASE ~txn[a].open
  <2>1. registry = Cleaned(locks)
    BY <1>7 DEF Seen, Serialized
  <2> QED BY <1>2, <1>3, <2>1, SeenType DEF IInv
<1> QED BY <1>6, <1>7

\* While an actor commits, no other transaction is open.
LEMMA CommitAlone ==
  ASSUME IInv, Serialized, NEW a \in Actors, Enters(a),
         NEW registry, OldAreFiles(registry), Commit(a, registry)
  PROVE  Snapshots' /\ OldAreFiles(locks)'
<1>1. ASSUME NEW b \in Actors PROVE ~txn'[b].open
  <2>1. CASE b = a
    BY <2>1 DEF Commit, Closed, IInv, TypeOK
  <2>2. CASE b # a
    <3>1. txn[b].open => ProcOf[b] = ProcOf[a]
      BY DEF Serialized, IInv, Snapshots
    <3> QED BY <2>2, <3>1 DEF Commit, Enters, IInv, TypeOK
  <2> QED BY <2>1, <2>2
<1>2. OldAreFiles(locks)'
  BY DEF Commit, OldAreFiles
<1> QED BY <1>1, <1>2 DEF Snapshots

\* A granted lease keeps other owners out, and is kept out by theirs.
LEMMA AcquireStep ==
  ASSUME IInv, TypeOK', Serialized, UniqueOwners,
         NEW a \in Actors, NEW p \in Paths, NEW kind \in Kinds, NEW force \in BOOLEAN,
         Acquire(a, p, kind, force)
  PROVE  IInv'
<1> DEFINE Stored(r) == StoredKind(r, a, p, kind)
           Next1(r) == [r EXCEPT ![p] = Lease(a, Stored(r))]
<1>1. PICK registry \in Seen(a, Strict(kind)) :
        /\ Conflicts(registry, a, p, kind) \subseteq
             (IF force THEN Forceable(registry, p, kind) ELSE {})
        /\ Commit(a, Next1(registry))
        /\ granted' = [granted EXCEPT ![a][p] = Stored(registry)]
  BY DEF Acquire
<1>2. registry \in Registries /\ Agrees(registry) /\ OldAreFiles(registry) /\ Clean(registry)
  BY SeenAgrees
<1>3. Enters(a) /\ (force => a \in Forcing) /\ alive' = alive /\ ended' = ended
  BY DEF Acquire
<1>4. Stored(registry) \in Kinds
  BY DEF StoredKind, Kinds
<1>5. /\ locks' = Next1(registry)
      /\ locks'[p] = Lease(a, Stored(registry))
      /\ \A q \in Paths \ {p} : locks'[q] = registry[q]
  BY <1>1, <1>2 DEF Commit, Registries
<1>6. /\ granted'[a][p] = Stored(registry)
      /\ \A b \in Actors, q \in Paths : b # a \/ q # p => granted'[b][q] = granted[b][q]
  BY <1>1 DEF IInv, TypeOK
<1>7. ASSUME NEW b \in Actors \ {a}, granted[b][p] \in Firm PROVE FALSE
  <2>1. locks[p] = Lease(b, granted[b][p]) /\ ProcOf[b] \in alive
    BY <1>7 DEF IInv, Backed
  <2>2. registry[p] = Lease(b, granted[b][p])
    BY <1>2, <2>1 DEF Agrees, Lease
  <2>3. p \in Conflicts(registry, a, p, kind)
    <3>1. OwnerOf[b] # OwnerOf[a] /\ OwnerOf[b] # NoOne
      BY ActorsAssumption DEF UniqueOwners
    <3> QED BY <2>2, <3>1 DEF Conflicts, Overlap, Covers, Lease, NoEntry
  <2>4. force /\ registry[p].kind = "file"
    BY <1>1, <2>3 DEF Forceable
  <2>5. granted[b][p] = "file" /\ Forcing # {}
    BY <1>3, <2>2, <2>4 DEF Lease
  <2> QED BY <1>7, <2>5 DEF Firm
<1>8. Backed'
  <2> SUFFICES ASSUME NEW b \in Actors, NEW q \in Paths, granted'[b][q] \in Firm
               PROVE  /\ locks'[q] = Lease(b, granted'[b][q])
                      /\ ProcOf[b] \in alive
                      /\ OwnerOf[b] \notin ended
    BY <1>3 DEF Backed, Lease
  <2>1. CASE b = a /\ q = p
    BY <1>3, <1>5, <1>6, <2>1 DEF Enters
  <2>2. CASE q # p
    <3>1. /\ locks[q] = Lease(b, granted[b][q])
          /\ ProcOf[b] \in alive
          /\ OwnerOf[b] \notin ended
      BY <1>6, <2>2 DEF IInv, Backed
    <3>2. registry[q] = locks[q]
      BY <1>2, <3>1 DEF Agrees, Lease
    <3> QED BY <1>5, <1>6, <2>2, <3>1, <3>2
  <2>3. CASE b # a /\ q = p
    BY <1>6, <1>7, <2>3
  <2> QED BY <2>1, <2>2, <2>3
<1>9. ASSUME Forcing = {} PROVE Recorded'
  <2> SUFFICES ASSUME NEW b \in Actors, NEW q \in Paths,
                      locks'[q].owner = OwnerOf[b], locks'[q].pid \in alive, OwnerOf[b] \notin ended
               PROVE  granted'[b][q] = locks'[q].kind
    BY <1>3 DEF Recorded
  <2>1. CASE q = p
    <3>1. b = a
      BY <1>5, <2>1 DEF UniqueOwners, Lease
    <3> QED BY <1>5, <1>6, <2>1, <3>1 DEF Lease
  <2>2. CASE q # p
    <3>1. locks'[q] = locks[q]
      BY <1>2, <1>5, <2>2 DEF Agrees
    <3> QED BY <1>6, <1>9, <2>2, <3>1 DEF IInv, Recorded
  <2> QED BY <2>1, <2>2
<1>10. ASSUME Forcing = {}, NEW c \in Actors \ {a}, NEW r \in Paths, Has(c, r)
       PROVE  ~Overlap(p, Stored(registry), r, granted[c][r])
  <2>1. granted[c][r] \in Kinds /\ Firm = Kinds
    BY <1>10 DEF Has, IInv, TypeOK, Firm
  <2>2. locks[r] = Lease(c, granted[c][r]) /\ ProcOf[c] \in alive
    BY <2>1 DEF IInv, Backed
  <2>3. registry[r] = Lease(c, granted[c][r])
    BY <1>2, <2>2 DEF Agrees, Lease
  <2>4. OwnerOf[c] # OwnerOf[a] /\ OwnerOf[c] # NoOne
    BY ActorsAssumption DEF UniqueOwners
  <2>5. Conflicts(registry, a, p, kind) = {}
    BY <1>1, <1>3, <1>10
  <2>6. ~Overlap(p, kind, r, granted[c][r])
    BY <2>3, <2>4, <2>5 DEF Conflicts, Lease, NoEntry
  <2>7. CASE Stored(registry) = kind
    BY <2>6, <2>7
  <2>8. CASE registry[p].owner = OwnerOf[a] /\ registry[p].kind = "namespace"
    <3>1. registry[p].pid \in alive
      BY <1>2, <2>8 DEF Clean, OldAreFiles
    <3>2. registry[p] = locks[p]
      BY <1>2, <3>1 DEF Agrees
    <3>3. granted[a][p] = "namespace"
      BY <1>3, <1>10, <2>8, <3>1, <3>2 DEF IInv, Recorded, Enters
    <3>4. Has(a, p)
      BY <3>3 DEF Has
    <3>5. Stored(registry) = "namespace"
      BY <2>8 DEF StoredKind
    <3> QED BY <1>10, <3>3, <3>4, <3>5 DEF IInv, GrantsDisjoint
  <2> QED BY <2>7, <2>8 DEF StoredKind
<1>11. ASSUME Forcing = {} PROVE GrantsDisjoint'
  <2> SUFFICES ASSUME NEW b \in Actors, NEW c \in Actors, NEW q \in Paths, NEW r \in Paths,
                      b # c, granted'[b][q] # "none", granted'[c][r] # "none"
               PROVE  ~Overlap(q, granted'[b][q], r, granted'[c][r])
    BY DEF GrantsDisjoint, Has, Overlap, Covers
  <2>1. CASE b = a /\ q = p
    <3>1. granted'[c][r] = granted[c][r]
      BY <1>6, <2>1
    <3> QED BY <1>6, <1>10, <1>11, <2>1, <3>1 DEF Has
  <2>2. CASE c = a /\ r = p
    <3>1. granted'[b][q] = granted[b][q]
      BY <1>6, <2>2
    <3>2. ~Overlap(p, Stored(registry), q, granted[b][q])
      BY <1>10, <1>11, <2>2, <3>1 DEF Has
    <3> QED BY <1>6, <2>2, <3>1, <3>2 DEF Overlap
  <2>3. CASE ~(b = a /\ q = p) /\ ~(c = a /\ r = p)
    <3>1. granted'[b][q] = granted[b][q] /\ granted'[c][r] = granted[c][r]
      BY <1>6, <2>3
    <3> QED BY <1>11, <3>1 DEF IInv, GrantsDisjoint, Has
  <2> QED BY <2>1, <2>2, <2>3
<1>12. OldAreFiles(Next1(registry))
  <2>1. Next1(registry)[p].pid # NoOne
    BY <1>2, ActorsAssumption DEF Registries, Lease
  <2> QED BY <1>2, <2>1 DEF OldAreFiles, Registries
<1>13. Snapshots' /\ OldAreFiles(locks)'
  BY <1>1, <1>3, <1>12, CommitAlone
<1> QED BY <1>8, <1>9, <1>11, <1>13 DEF IInv

\* Letting leases go disturbs no other actor's: a commit that only drops
\* entries, each of them of an actor that gives up its grant on the path, of a
\* session that is over, or replaceable.
LEMMA DropStep ==
  ASSUME IInv, TypeOK', Serialized, NEW a \in Actors, Enters(a),
         NEW registry \in Registries, Agrees(registry), OldAreFiles(registry),
         NEW dropped \in SUBSET Paths,
         Commit(a, [p \in Paths |-> IF p \in dropped THEN NoEntry ELSE registry[p]]),
         alive' = alive, ended' = ended,
         \A b \in Actors, p \in Paths : granted'[b][p] \in {granted[b][p], "none"},
         \A b \in Actors, p \in dropped :
           registry[p] = Lease(b, granted[b][p]) /\ granted[b][p] \in Firm
             /\ OwnerOf[b] \notin ended
           => granted'[b][p] = "none",
         \A b \in Actors, p \in Paths \ dropped :
           granted'[b][p] = granted[b][p] \/ registry[p].owner # OwnerOf[b]
  PROVE  IInv'
<1> DEFINE New == [p \in Paths |-> IF p \in dropped THEN NoEntry ELSE registry[p]]
<1>1. Agrees(registry) /\ OldAreFiles(registry)
  OBVIOUS
<1>2. /\ \A p \in dropped : locks'[p] = NoEntry
      /\ \A p \in Paths \ dropped : locks'[p] = registry[p]
  BY DEF Commit
<1>3. "none" \notin Firm
  BY DEF Firm, Kinds
<1>4. Backed'
  <2> SUFFICES ASSUME NEW b \in Actors, NEW p \in Paths, granted'[b][p] \in Firm
               PROVE  /\ locks'[p] = Lease(b, granted'[b][p])
                      /\ ProcOf[b] \in alive
                      /\ OwnerOf[b] \notin ended
    BY DEF Backed, Lease
  <2>1. granted'[b][p] = granted[b][p]
    BY <1>3
  <2>2. /\ locks[p] = Lease(b, granted[b][p])
        /\ ProcOf[b] \in alive
        /\ OwnerOf[b] \notin ended
    BY <2>1 DEF IInv, Backed
  <2>3. registry[p] = locks[p]
    BY <1>1, <2>2 DEF Agrees, Lease
  <2>4. p \notin dropped
    BY <1>3, <2>1, <2>2, <2>3
  <2> QED BY <1>2, <2>1, <2>2, <2>3, <2>4
<1>5. ASSUME Forcing = {} PROVE Recorded'
  <2> SUFFICES ASSUME NEW b \in Actors, NEW p \in Paths,
                      locks'[p].owner = OwnerOf[b], locks'[p].pid \in alive, OwnerOf[b] \notin ended
               PROVE  granted'[b][p] = locks'[p].kind
    BY DEF Recorded
  <2>1. p \notin dropped
    BY <1>2, ActorsAssumption DEF NoEntry, IInv, TypeOK
  <2>2. locks'[p] = registry[p] /\ registry[p] = locks[p]
    BY <1>1, <1>2, <2>1 DEF Agrees
  <2>3. granted'[b][p] = granted[b][p]
    BY <2>1, <2>2
  <2> QED BY <1>5, <2>2, <2>3 DEF IInv, Recorded
<1>6. ASSUME Forcing = {} PROVE GrantsDisjoint'
  <2> SUFFICES ASSUME NEW b \in Actors, NEW c \in Actors, NEW q \in Paths, NEW r \in Paths,
                      b # c, granted'[b][q] # "none", granted'[c][r] # "none"
               PROVE  ~Overlap(q, granted'[b][q], r, granted'[c][r])
    BY DEF GrantsDisjoint, Has, Overlap, Covers
  <2>1. granted'[b][q] = granted[b][q] /\ granted'[c][r] = granted[c][r]
    OBVIOUS
  <2> QED BY <1>6, <2>1 DEF IInv, GrantsDisjoint, Has
<1>7. OldAreFiles(New)
  BY <1>1 DEF OldAreFiles, NoEntry
<1>8. Snapshots' /\ OldAreFiles(locks)'
  BY <1>7, CommitAlone
<1> QED BY <1>4, <1>5, <1>6, <1>8 DEF IInv

\* A release drops the actor's own lease, or by force a file lease.
LEMMA ReleaseStep ==
  ASSUME IInv, TypeOK', Serialized,
         NEW a \in Actors, NEW p \in Paths, NEW kind \in Kinds, NEW force \in BOOLEAN,
         Release(a, p, kind, force), UniqueOwners
  PROVE  IInv'
<1>1. PICK registry \in Seen(a, Strict(kind)) :
        /\ registry[p].kind = kind
        /\ registry[p].owner = OwnerOf[a] \/ force
        /\ Commit(a, [registry EXCEPT ![p] = NoEntry])
  BY DEF Release
<1>2. registry \in Registries /\ Agrees(registry) /\ OldAreFiles(registry)
  BY SeenAgrees
<1>3. /\ Enters(a) /\ alive' = alive /\ ended' = ended
      /\ force => a \in Forcing /\ kind = "file"
  BY DEF Release
<1>4. [registry EXCEPT ![p] = NoEntry]
        = [q \in Paths |-> IF q \in {p} THEN NoEntry ELSE registry[q]]
  BY <1>2 DEF Registries
<1>5. /\ granted'[a][p] = "none"
      /\ \A b \in Actors, q \in Paths : b # a \/ q # p => granted'[b][q] = granted[b][q]
  BY DEF Release, IInv, TypeOK
<1>6. ASSUME NEW b \in Actors, registry[p] = Lease(b, granted[b][p]), granted[b][p] \in Firm
      PROVE  b = a
  <2>1. CASE force
    BY <1>1, <1>3, <1>6, <2>1 DEF Firm, Lease
  <2>2. CASE ~force
    BY <1>1, <1>6, <2>2 DEF UniqueOwners, Lease
  <2> QED BY <2>1, <2>2
<1>7. Commit(a, [q \in Paths |-> IF q \in {p} THEN NoEntry ELSE registry[q]])
  BY <1>1, <1>4
<1>8. /\ \A b \in Actors, q \in Paths : granted'[b][q] \in {granted[b][q], "none"}
      /\ \A b \in Actors, q \in {p} :
           registry[q] = Lease(b, granted[b][q]) /\ granted[b][q] \in Firm
             /\ OwnerOf[b] \notin ended
           => granted'[b][q] = "none"
      /\ \A b \in Actors, q \in Paths \ {p} :
           granted'[b][q] = granted[b][q] \/ registry[q].owner # OwnerOf[b]
  BY <1>5, <1>6
<1>9. {p} \in SUBSET Paths
  OBVIOUS
<1> QED BY <1>2, <1>3, <1>7, <1>8, <1>9, DropStep

\* Every step of an actor keeps the invariant.
LEMMA ActorStep ==
  ASSUME IInv, TypeOK', Serialized, UniqueOwners, NEW a \in Actors, ActorNext(a)
  PROVE  IInv'
<1> DEFINE Left(r, dropped) == [p \in Paths |-> IF p \in dropped THEN NoEntry ELSE r[p]]
<1>1. CASE OpenWithoutFlock(a)
  <2>1. PICK registry \in Seen(a, FALSE) :
          txn' = [txn EXCEPT ![a] = [open |-> TRUE, seen |-> registry]]
    BY <1>1 DEF OpenWithoutFlock
  <2>2. Agrees(registry) /\ OldAreFiles(registry)
    BY SeenAgrees
  <2>3. locks' = locks /\ granted' = granted /\ alive' = alive /\ ended' = ended /\ FlockFaults
    BY <1>1 DEF OpenWithoutFlock
  <2>4. Snapshots'
    <3> SUFFICES ASSUME NEW b \in Actors, txn'[b].open
                 PROVE  FlockFaults /\ Agrees(txn[b].seen)' /\ OldAreFiles(txn[b].seen)'
      BY DEF Snapshots, OldAreFiles
    <3>1. CASE b = a
      <4>1. txn'[b].seen = registry
        BY <2>1, <3>1 DEF IInv, TypeOK
      <4> QED BY <2>2, <2>3, <4>1 DEF Agrees
    <3>2. CASE b # a
      <4>1. txn'[b] = txn[b]
        BY <2>1, <3>2 DEF IInv, TypeOK
      <4> QED BY <2>3, <4>1 DEF IInv, Snapshots, Agrees
    <3> QED BY <3>1, <3>2
  <2>5. Backed' /\ OldAreFiles(locks)' /\ (Forcing = {} => Recorded' /\ GrantsDisjoint')
    BY <2>3 DEF IInv, Backed, Recorded, GrantsDisjoint, OldAreFiles, Has, Lease, Overlap, Covers
  <2> QED BY <2>4, <2>5 DEF IInv
<1>2. CASE Refused(a)
  <2>1. locks' = locks /\ granted' = granted /\ alive' = alive /\ ended' = ended
    BY <1>2 DEF Refused
  <2>2. Snapshots'
    <3> SUFFICES ASSUME NEW b \in Actors, txn'[b].open
                 PROVE  FlockFaults /\ Agrees(txn[b].seen)' /\ OldAreFiles(txn[b].seen)'
      BY DEF Snapshots, OldAreFiles
    <3>1. txn'[b] = txn[b]
      BY <1>2 DEF Refused, Closed, IInv, TypeOK
    <3> QED BY <2>1, <3>1 DEF IInv, Snapshots, Agrees
  <2>3. Backed' /\ OldAreFiles(locks)' /\ (Forcing = {} => Recorded' /\ GrantsDisjoint')
    BY <2>1 DEF IInv, Backed, Recorded, GrantsDisjoint, OldAreFiles, Has, Lease, Overlap, Covers
  <2> QED BY <2>2, <2>3 DEF IInv
<1>3. ASSUME NEW p \in Paths, NEW kind \in Kinds, NEW force \in BOOLEAN,
             Acquire(a, p, kind, force) \/ Release(a, p, kind, force)
      PROVE  IInv'
  BY <1>3, AcquireStep, ReleaseStep
<1>4. CASE ReleaseAll(a)
  <2>1. PICK registry \in Seen(a, a \in Terminals) :
          Commit(a, Without(registry, {OwnerOf[a]}))
    BY <1>4 DEF ReleaseAll
  <2> DEFINE dropped == {p \in Paths : registry[p].owner = OwnerOf[a]}
  <2>2. Commit(a, Left(registry, dropped))
    <3>1. Without(registry, {OwnerOf[a]}) = Left(registry, dropped)
      BY DEF Without
    <3> QED BY <2>1, <3>1
  <2>3. /\ Enters(a) /\ alive' = alive /\ ended' = ended
        /\ \A b \in Actors, p \in Paths :
             granted'[b][p] = IF b = a THEN "none" ELSE granted[b][p]
    BY <1>4 DEF ReleaseAll, IInv, TypeOK
  <2>4. ASSUME NEW b \in Actors, NEW p \in dropped, registry[p] = Lease(b, granted[b][p])
        PROVE  b = a
    BY <2>4 DEF UniqueOwners, Lease
  <2>5. \A b \in Actors, p \in Paths \ dropped :
          granted'[b][p] = granted[b][p] \/ registry[p].owner # OwnerOf[b]
    BY <2>3
  <2>6. dropped \in SUBSET Paths
    OBVIOUS
  <2>7. registry \in Registries /\ Agrees(registry) /\ OldAreFiles(registry)
    BY SeenAgrees
  <2> HIDE DEF dropped
  <2> QED BY <2>2, <2>3, <2>4, <2>5, <2>6, <2>7, DropStep
<1>5. CASE ReleaseStale(a)
  <2>1. PICK registry \in Seen(a, FALSE) : Commit(a, Without(registry, ended))
    BY <1>5 DEF ReleaseStale
  <2> DEFINE dropped == {p \in Paths : registry[p].owner \in ended}
  <2>2. Commit(a, Left(registry, dropped))
    <3>1. Without(registry, ended) = Left(registry, dropped)
      BY DEF Without
    <3> QED BY <2>1, <3>1
  <2>3. Enters(a) /\ alive' = alive /\ ended' = ended /\ granted' = granted
    BY <1>5 DEF ReleaseStale
  <2>4. ASSUME NEW b \in Actors, NEW p \in dropped, registry[p] = Lease(b, granted[b][p])
        PROVE  OwnerOf[b] \in ended
    BY <2>4 DEF Lease
  <2>5. dropped \in SUBSET Paths
    OBVIOUS
  <2>6. /\ \A b \in Actors, p \in Paths : granted'[b][p] \in {granted[b][p], "none"}
        /\ \A b \in Actors, p \in Paths \ dropped :
             granted'[b][p] = granted[b][p] \/ registry[p].owner # OwnerOf[b]
    BY <2>3
  <2>7. registry \in Registries /\ Agrees(registry) /\ OldAreFiles(registry)
    BY SeenAgrees
  <2> HIDE DEF dropped
  <2> QED BY <2>2, <2>3, <2>4, <2>5, <2>6, <2>7, DropStep
<1>6. CASE ListLocks(a)
  <2>1. PICK registry \in Seen(a, FALSE) : Commit(a, registry)
    BY <1>6 DEF ListLocks
  <2> DEFINE dropped == {}
  <2>2. registry \in Registries /\ Agrees(registry) /\ OldAreFiles(registry)
    BY SeenAgrees
  <2>3. Commit(a, Left(registry, dropped))
    <3>1. registry = Left(registry, dropped)
      BY <2>2 DEF Registries
    <3> QED BY <2>1, <3>1
  <2>4. Enters(a) /\ alive' = alive /\ ended' = ended /\ granted' = granted
    BY <1>6 DEF ListLocks
  <2>5. /\ \A b \in Actors, p \in Paths : granted'[b][p] \in {granted[b][p], "none"}
        /\ \A b \in Actors, p \in dropped : FALSE
        /\ \A b \in Actors, p \in Paths \ dropped :
             granted'[b][p] = granted[b][p] \/ registry[p].owner # OwnerOf[b]
    BY <2>4
  <2>6. dropped \in SUBSET Paths
    OBVIOUS
  <2> HIDE DEF dropped
  <2> QED BY <2>2, <2>3, <2>4, <2>5, <2>6, DropStep
<1> QED BY <1>1, <1>2, <1>3, <1>4, <1>5, <1>6 DEF ActorNext

\* So does every step.
LEMMA Inductive ==
  ASSUME Serialized, UniqueOwners, IInv, TypeOK', [Next]_vars
  PROVE  IInv'
<1>1. "none" \notin Firm
  BY DEF Firm, Kinds
<1>2. ASSUME NEW gone, Dropped(gone)
      PROVE  /\ \A b \in Actors : ~txn'[b].open \/ txn'[b] = txn[b]
             /\ \A b \in Actors, p \in Paths :
                  granted'[b][p] = IF b \in gone THEN "none" ELSE granted[b][p]
  BY <1>2 DEF Dropped, Closed
<1>3. ASSUME NEW gone, Dropped(gone), locks' = locks, alive' \subseteq alive,
             \A b \in Actors \ gone : ProcOf[b] \in alive => ProcOf[b] \in alive',
             \A b \in Actors \ gone : OwnerOf[b] \notin ended => OwnerOf[b] \notin ended',
             \A b \in gone \cap Actors : ProcOf[b] \notin alive' \/ OwnerOf[b] \in ended',
             ended \subseteq ended'
      PROVE  IInv'
  <2>1. Snapshots'
    <3> SUFFICES ASSUME NEW b \in Actors, txn'[b].open
                 PROVE  FlockFaults /\ Agrees(txn[b].seen)' /\ OldAreFiles(txn[b].seen)'
      BY DEF Snapshots, OldAreFiles
    <3>1. txn'[b] = txn[b]
      BY <1>2, <1>3
    <3> QED BY <1>3, <3>1 DEF IInv, Snapshots, Agrees, OldAreFiles
  <2>2. Backed'
    BY <1>1, <1>2, <1>3 DEF IInv, Backed, Lease
  <2>3. ASSUME Forcing = {} PROVE Recorded'
    <3> SUFFICES ASSUME NEW b \in Actors, NEW p \in Paths,
                        locks[p].owner = OwnerOf[b], locks[p].pid \in alive',
                        OwnerOf[b] \notin ended'
                 PROVE  granted'[b][p] = locks[p].kind
      BY <1>3 DEF Recorded
    <3>1. granted[b][p] = locks[p].kind
      BY <1>3, <2>3 DEF IInv, Recorded
    <3>2. locks[p].kind \in Kinds
      BY DEF IInv, TypeOK, Registries, Entries, NoEntry, Kinds
    <3>3. locks[p] = Lease(b, granted[b][p])
      BY <2>3, <3>1, <3>2 DEF IInv, Backed, Firm
    <3>4. ProcOf[b] \in alive'
      BY <3>3 DEF Lease
    <3>5. b \notin gone
      BY <1>3, <3>4
    <3> QED BY <1>2, <1>3, <3>1, <3>5
  <2>4. ASSUME Forcing = {} PROVE GrantsDisjoint'
    <3> SUFFICES ASSUME NEW b \in Actors, NEW c \in Actors, NEW q \in Paths, NEW r \in Paths,
                        b # c, granted'[b][q] # "none", granted'[c][r] # "none"
                 PROVE  ~Overlap(q, granted'[b][q], r, granted'[c][r])
      BY DEF GrantsDisjoint, Has, Overlap, Covers
    <3>1. granted'[b][q] = granted[b][q] /\ granted'[c][r] = granted[c][r]
      BY <1>2, <1>3
    <3> QED BY <2>4, <3>1 DEF IInv, GrantsDisjoint, Has
  <2>5. OldAreFiles(locks)'
    BY <1>3 DEF IInv, OldAreFiles
  <2> QED BY <2>1, <2>2, <2>3, <2>4, <2>5 DEF IInv
<1>4. ASSUME NEW o \in Owners, EndSession(o) PROVE IInv'
  <2>1. Dropped({b \in Actors : OwnerOf[b] = o})
    BY <1>4 DEF EndSession
  <2>2. locks' = locks /\ alive' = alive /\ ended' = ended \cup {o}
    BY <1>4 DEF EndSession
  <2> QED BY <1>3, <2>1, <2>2
<1>5. ASSUME NEW proc \in Procs, Die(proc) PROVE IInv'
  <2>1. Dropped({b \in Actors : ProcOf[b] = proc})
    BY <1>5 DEF Die
  <2>2. locks' = locks /\ alive' = alive \ {proc} /\ ended' = ended
    BY <1>5 DEF Die
  <2> QED BY <1>3, <2>1, <2>2
<1>6. ASSUME NEW p \in Paths, Lapse(p) PROVE IInv'
  <2>1. /\ locks[p].pid = NoOne
        /\ locks' = [locks EXCEPT ![p].lapsed = TRUE]
        /\ txn' = txn /\ granted' = granted /\ alive' = alive /\ ended' = ended
    BY <1>6 DEF Lapse
  <2>2. NoOne \notin alive
    BY ActorsAssumption DEF IInv, TypeOK
  <2>3. /\ \A q \in Paths \ {p} : locks'[q] = locks[q]
        /\ locks'[p].pid = NoOne
        /\ locks'[p].kind = locks[p].kind
    <3>1. locks[p] \in Entries
      BY <1>6 DEF Lapse, IInv, TypeOK, Registries
    <3>2. locks'[p] = [locks[p] EXCEPT !.lapsed = TRUE]
      BY <2>1 DEF IInv, TypeOK, Registries
    <3> QED BY <2>1, <3>1, <3>2 DEF IInv, TypeOK, Registries, Entries
  <2>4. Snapshots'
    <3> SUFFICES ASSUME NEW b \in Actors, txn[b].open
                 PROVE  FlockFaults /\ Agrees(txn[b].seen)' /\ OldAreFiles(txn[b].seen)'
      BY <2>1 DEF Snapshots, OldAreFiles
    <3>1. Agrees(txn[b].seen)
      BY DEF IInv, Snapshots
    <3>2. txn[b].seen[p].pid \notin alive
      BY <2>1, <2>2, <3>1 DEF Agrees
    <3>3. Agrees(txn[b].seen)'
      BY <2>1, <2>2, <2>3, <3>1, <3>2 DEF Agrees
    <3> QED BY <2>1, <3>3 DEF IInv, Snapshots, OldAreFiles
  <2>5. Backed'
    <3> SUFFICES ASSUME NEW b \in Actors, NEW q \in Paths, granted[b][q] \in Firm
                 PROVE  /\ locks'[q] = Lease(b, granted[b][q])
                        /\ ProcOf[b] \in alive
                        /\ OwnerOf[b] \notin ended
      BY <2>1 DEF Backed, Lease
    <3>1. locks[q] = Lease(b, granted[b][q]) /\ ProcOf[b] \in alive /\ OwnerOf[b] \notin ended
      BY DEF IInv, Backed
    <3>2. q # p
      BY <2>1, <2>2, <3>1 DEF Lease
    <3> QED BY <2>3, <3>1, <3>2
  <2>6. Forcing = {} => Recorded' /\ GrantsDisjoint'
    BY <2>1, <2>2, <2>3 DEF IInv, Recorded, GrantsDisjoint, Has, Overlap, Covers
  <2>7. OldAreFiles(locks)'
    BY <2>1, <2>3 DEF IInv, OldAreFiles
  <2> QED BY <2>4, <2>5, <2>6, <2>7 DEF IInv
<1>7. CASE UNCHANGED vars
  BY <1>7 DEF vars, IInv, Snapshots, Agrees, OldAreFiles, Backed, Recorded,
              GrantsDisjoint, Has, Lease, Overlap, Covers
<1> QED BY <1>4, <1>5, <1>6, <1>7, ActorStep DEF Next

\* The initial registry grants nothing.
LEMMA Initial == Init => IInv
<1> SUFFICES ASSUME Init PROVE IInv
  OBVIOUS
<1>1. LegacyEntries \subseteq Entries
  BY DEF LegacyEntries, Entries, Kinds
<1>2. TypeOK
  <2>1. locks \in Registries
    BY <1>1 DEF Init, Registries
  <2>2. Closed \in [open : BOOLEAN, seen : Registries]
    BY DEF Closed, Empty, Registries
  <2> QED BY <2>1, <2>2 DEF Init, TypeOK
<1>3. ASSUME NEW p \in Paths PROVE locks[p].pid = NoOne /\ locks[p].kind = "file"
  <2>1. locks[p] \in LegacyEntries \/ locks[p] = NoEntry
    BY DEF Init
  <2>2. ASSUME locks[p] \in LegacyEntries
        PROVE  locks[p].pid = NoOne /\ locks[p].kind = "file"
    BY <2>2 DEF LegacyEntries
  <2>3. ASSUME locks[p] = NoEntry
        PROVE  locks[p].pid = NoOne /\ locks[p].kind = "file"
    BY <2>3 DEF NoEntry
  <2> QED BY <2>1, <2>2, <2>3
<1>4. Snapshots /\ OldAreFiles(locks)
  <2>1. \A a \in Actors : ~txn[a].open
    <3>1. ~Closed.open
      BY DEF Closed
    <3> QED BY <3>1 DEF Init
  <2>2. \A p \in Paths : locks[p].kind = "file"
    BY <1>3
  <2> QED BY <2>1, <2>2 DEF Snapshots, OldAreFiles
<1>5. Backed /\ GrantsDisjoint
  BY DEF Init, Backed, GrantsDisjoint, Has, Firm, Kinds
<1>6. Recorded
  <2>1. \A p \in Paths : locks[p].pid = NoOne
    BY <1>3
  <2> QED BY <2>1, ActorsAssumption DEF Init, Recorded
<1> QED BY <1>2, <1>4, <1>5, <1>6 DEF IInv

\* Grants are recorded in the registry and disjoint, in every reachable state.
THEOREM InductiveInvariant == Serialized /\ UniqueOwners => (Spec => []IInv)
<1> SUFFICES ASSUME Serialized, UniqueOwners PROVE Spec => []IInv
  OBVIOUS
<1>1. IInv /\ TypeOK' /\ [Next]_vars => IInv'
  BY Inductive
<1> QED BY <1>1, Initial, TypeCorrect, PTL DEF Spec

\* Two actors are never both told that they may write a file, as long as
\* nobody replaces leases by force.
THEOREM Exclusive ==
  Serialized /\ UniqueOwners /\ Forcing = {} => (Spec => []GrantsDisjoint)
<1> SUFFICES ASSUME Serialized, UniqueOwners, Forcing = {} PROVE Spec => []GrantsDisjoint
  OBVIOUS
<1>1. IInv => GrantsDisjoint
  BY DEF IInv
<1> QED BY <1>1, InductiveInvariant, PTL

\* Nobody evicts terminal authority, not even by force.
THEOREM TerminalKept == Serialized /\ UniqueOwners => (Spec => []TerminalStands)
<1> SUFFICES ASSUME Serialized, UniqueOwners PROVE Spec => []TerminalStands
  OBVIOUS
<1>1. IInv => TerminalStands
  BY DEF IInv, Backed, TerminalStands, Firm, Kinds
<1> QED BY <1>1, InductiveInvariant, PTL

\* A lease changes only by a step of its own actor.
THEOREM LeaseKept ==
  Serialized /\ UniqueOwners /\ Forcing = {} => (Spec => LeaseStands)
<1> SUFFICES ASSUME Serialized, UniqueOwners, Forcing = {} PROVE Spec => LeaseStands
  OBVIOUS
<1>1. TypeOK /\ IInv /\ IInv' =>
        [\A a \in Actors, p \in Paths :
           Has(a, p) /\ granted'[a][p] = granted[a][p] => locks'[p] = locks[p]]_vars
  <2> SUFFICES ASSUME IInv, IInv', NEW a \in Actors, NEW p \in Paths,
                      Has(a, p), granted'[a][p] = granted[a][p]
               PROVE  locks'[p] = locks[p]
    OBVIOUS
  <2>1. granted[a][p] \in Firm
    BY DEF Has, IInv, TypeOK, Firm
  <2>2. locks[p] = Lease(a, granted[a][p])
    BY <2>1 DEF IInv, Backed
  <2>3. locks'[p] = Lease(a, granted[a][p])
    BY <2>1 DEF IInv, Backed, Lease, Firm
  <2> QED BY <2>2, <2>3
<1> QED BY <1>1, InductiveInvariant, TypeCorrect, PTL DEF LeaseStands
=================================================================================
