---------------------- MODULE ProviderCapacity_proofs ----------------------
(* Proofs about ProviderCapacity: a holder keeps its slot and never queues,  *)
(* and the permits of a process are conserved, whatever the sets of          *)
(* contexts, processes and leases, the capacity and the bounds.              *)
EXTENDS ProviderCapacity, FiniteSetTheorems, TLAPS

\* The places in the stacks of the contexts at which lease l is held.
Refs(l) == {r \in Contexts \X Nat :
              r[2] \in DOMAIN held[r[1]] /\ held[r[1]][r[2]] = l}

Uses(c, l) == current[c] = l \/ target[c] = l \/ Holds(c, l)

\* The contexts of p that have a permit and no open lease for it.
Busy(p) == {c \in Of(p) : pc[c] \in {"slots", "unlock", "post"}}

\* TypeOK without the upper bound of the permits, which Conserved gives.
Shape ==
  /\ pc \in [Contexts -> Points]
  /\ current \in [Contexts -> Leases \cup {None}]
  /\ held \in [Contexts -> Seq(Leases)]
  /\ target \in [Contexts -> Leases \cup {None}]
  /\ next \in [Contexts -> Slots]
  /\ refs \in [Leases -> Nat]
  /\ released \in [Leases -> BOOLEAN]
  /\ slotOf \in [Leases -> Slots]
  /\ slot \in [Slots -> Leases \cup {None}]
  /\ permits \in [Processes -> Nat]
  /\ leaves \in 0..MaxLeaves

\* What a context knows at each point of acquire and release: it holds nothing
\* but its current lease, and it never queues or gives back while it holds one.
AtPoint ==
  \A c \in Contexts :
    /\ \A i \in DOMAIN held[c] : held[c][i] = current[c]
    /\ pc[c] \in {"permit", "slots"} => held[c] = <<>> /\ current[c] = None
    /\ pc[c] = "retain" => target[c] \in Leases /\ target[c] = current[c]
    /\ pc[c] \in {"unlock", "post"} =>
         held[c] = <<>> /\ target[c] \in Leases /\ released[target[c]]
    /\ pc[c] \in {"idle", "permit", "slots"} => target[c] = None

\* The counter of a held lease counts its places, and its slot is its own.
Counted ==
  \A c \in Contexts, l \in Leases : Holds(c, l) =>
    /\ ~released[l] /\ slot[slotOf[l]] = l
    /\ IsFiniteSet(Refs(l)) /\ refs[l] = Cardinality(Refs(l))

\* An open lease that can be reached is held.
Reached ==
  \A c \in Contexts, l \in Leases :
    (current[c] = l \/ target[c] = l) /\ ~released[l] => \E d \in Contexts : Holds(d, l)

\* A lease stays in the process that made it.
OneProcess ==
  \A c, d \in Contexts, l \in Leases :
    Uses(c, l) /\ Uses(d, l) => ProcessOf[c] = ProcessOf[d]

\* A slot is unlocked once, by the context that dropped the last reference.
Unlocking ==
  \A c \in Contexts : pc[c] = "unlock" =>
    /\ slot[slotOf[target[c]]] = target[c]
    /\ \A d \in Contexts : pc[d] = "unlock" /\ target[d] = target[c] => d = c

\* PermitsConserved, and the sets it counts are finite.
Conserved ==
  \A p \in Processes :
    /\ IsFiniteSet(Live(p)) /\ IsFiniteSet(Busy(p))
    /\ permits[p] + Cardinality(Live(p)) + Cardinality(Busy(p)) = Capacity

Shared == Shape /\ AtPoint /\ Counted /\ Reached /\ OneProcess /\ Unlocking

IInv == Shared /\ Conserved

-----------------------------------------------------------------------------
\* A stack without places is empty.
LEMMA EmptyStack ==
  ASSUME NEW s \in Seq(Leases), DOMAIN s = {}
  PROVE  s = <<>>
<1>1. Len(s) \in Nat /\ DOMAIN s = 1..Len(s)
  OBVIOUS
<1>2. ~(1 <= Len(s))
  BY <1>1
<1>3. Len(s) = 0
  BY <1>1, <1>2
<1> QED BY <1>3

\* Pushing l on the stack of c adds one place of l and no other.
LEMMA Pushed ==
  ASSUME Shape, NEW c \in Contexts, NEW l \in Leases,
         held' = [held EXCEPT ![c] = Append(@, l)]
  PROVE  \E n \in Nat :
           /\ held' \in [Contexts -> Seq(Leases)]
           /\ held'[c] # <<>>
           /\ \A d \in Contexts : d # c => held'[d] = held[d]
           /\ DOMAIN held'[c] = DOMAIN held[c] \cup {n}
           /\ held'[c][n] = l
           /\ \A i \in DOMAIN held[c] : held'[c][i] = held[c][i]
           /\ \A m \in Leases : Holds(c, m)' <=> (m = l \/ Holds(c, m))
           /\ \A d \in Contexts, m \in Leases : d # c => (Holds(d, m)' <=> Holds(d, m))
           /\ Refs(l)' = Refs(l) \cup {<<c, n>>}
           /\ <<c, n>> \notin Refs(l)
           /\ \A m \in Leases : m # l => Refs(m)' = Refs(m)
<1>1. held \in [Contexts -> Seq(Leases)] /\ held[c] \in Seq(Leases)
  BY DEF Shape
<1>2. held'[c] = Append(held[c], l) /\ \A d \in Contexts : d # c => held'[d] = held[d]
  BY <1>1
<1>3. held' \in [Contexts -> Seq(Leases)] /\ held'[c] # <<>>
  BY <1>1, <1>2
<1>4. PICK n \in Nat : n = Len(held[c]) + 1
  BY <1>1
<1>5. /\ n \notin DOMAIN held[c] /\ DOMAIN held'[c] = DOMAIN held[c] \cup {n}
      /\ held'[c][n] = l
      /\ \A i \in DOMAIN held[c] : held'[c][i] = held[c][i]
  BY <1>1, <1>2, <1>4
<1>6. \A m \in Leases : Holds(c, m)' <=> (m = l \/ Holds(c, m))
  BY <1>5 DEF Holds
<1>7. \A d \in Contexts, m \in Leases : d # c => (Holds(d, m)' <=> Holds(d, m))
  BY <1>2 DEF Holds
<1>8. Refs(l)' = Refs(l) \cup {<<c, n>>} /\ <<c, n>> \notin Refs(l)
  BY <1>2, <1>5 DEF Refs
<1>9. ASSUME NEW m \in Leases, m # l PROVE Refs(m)' = Refs(m)
  BY <1>9, <1>2, <1>5 DEF Refs
<1> QED BY <1>2, <1>3, <1>5, <1>6, <1>7, <1>8, <1>9

\* Taking the innermost lease off the stack of c removes one place of it.
LEMMA Popped ==
  ASSUME Shape, NEW c \in Contexts, held[c] # <<>>,
         held' = [held EXCEPT ![c] = Outer(c)]
  PROVE  \E l \in Leases, n \in Nat \ {0} :
           /\ l = Innermost(c) /\ n = Len(held[c])
           /\ Holds(c, l)
           /\ held' \in [Contexts -> Seq(Leases)]
           /\ held'[c] = Outer(c)
           /\ \A d \in Contexts : d # c => held'[d] = held[d]
           /\ DOMAIN held[c] = 1..n
           /\ DOMAIN held'[c] = DOMAIN held[c] \ {n}
           /\ \A i \in DOMAIN held'[c] : held'[c][i] = held[c][i]
           /\ \A d \in Contexts, m \in Leases : d # c => (Holds(d, m)' <=> Holds(d, m))
           /\ \A m \in Leases : Holds(c, m)' => Holds(c, m)
           /\ Refs(l)' = Refs(l) \ {<<c, n>>}
           /\ <<c, n>> \in Refs(l)
           /\ \A m \in Leases : m # l => Refs(m)' = Refs(m)
<1>1. held \in [Contexts -> Seq(Leases)] /\ held[c] \in Seq(Leases)
  BY DEF Shape
<1>2. PICK n \in Nat \ {0} : n = Len(held[c])
  BY <1>1
<1>3. DOMAIN held[c] = 1..n
  BY <1>1, <1>2
<1>4. PICK l \in Leases : l = held[c][n]
  BY <1>1, <1>2
<1>5. held'[c] = Outer(c) /\ \A d \in Contexts : d # c => held'[d] = held[d]
  BY <1>1
<1>6. /\ Outer(c) \in Seq(Leases)
      /\ DOMAIN Outer(c) = 1..(n - 1)
      /\ \A i \in 1..(n - 1) : Outer(c)[i] = held[c][i]
  BY <1>1, <1>2 DEF Outer
<1>7. held' \in [Contexts -> Seq(Leases)]
  BY <1>1, <1>6
<1>8. /\ n \in Nat /\ n \in DOMAIN held[c]
      /\ DOMAIN held'[c] = DOMAIN held[c] \ {n}
      /\ \A i \in DOMAIN held'[c] : held'[c][i] = held[c][i]
  BY <1>3, <1>5, <1>6
<1>9. \A d \in Contexts, m \in Leases : d # c => (Holds(d, m)' <=> Holds(d, m))
  BY <1>5 DEF Holds
<1>10. \A m \in Leases : Holds(c, m)' => Holds(c, m)
  BY <1>8 DEF Holds
<1>11. <<c, n>> \in Refs(l)
  BY <1>4, <1>8 DEF Refs
<1>12. ASSUME NEW m \in Leases, NEW d \in Contexts, NEW i \in Nat
       PROVE  <<d, i>> \in Refs(m)' <=> <<d, i>> \in Refs(m) /\ <<d, i>> # <<c, n>>
  <2>1. CASE d = c
    BY <2>1, <1>8 DEF Refs
  <2>2. CASE d # c
    BY <2>2, <1>5 DEF Refs
  <2> QED BY <2>1, <2>2
<1>13. \A m \in Leases : Refs(m) \subseteq Contexts \X Nat /\ Refs(m)' \subseteq Contexts \X Nat
  BY DEF Refs
<1>14. Refs(l)' = Refs(l) \ {<<c, n>>}
  BY <1>12, <1>13
<1>15. ASSUME NEW m \in Leases, m # l PROVE Refs(m)' = Refs(m)
  <2>1. <<c, n>> \notin Refs(m)
    BY <1>15, <1>4 DEF Refs
  <2>2. Refs(m)' = Refs(m) \ {<<c, n>>}
    BY <1>12, <1>13
  <2> QED BY <2>1, <2>2
<1>16. Holds(c, l)
  BY <1>4, <1>8 DEF Holds
<1> QED BY <1>2, <1>3, <1>4, <1>5, <1>7, <1>8, <1>9, <1>10, <1>11, <1>14, <1>15, <1>16
      DEF Innermost

\* What nothing but the points and the context variables of c can disturb.
LEMMA SameStacks ==
  ASSUME UNCHANGED held
  PROVE  /\ \A c \in Contexts, l \in Leases : Holds(c, l)' <=> Holds(c, l)
         /\ \A l \in Leases : Refs(l)' = Refs(l)
BY DEF Holds, Refs

\* A context holds only its current lease.
LEMMA HoldsCurrent ==
  ASSUME AtPoint, NEW c \in Contexts, NEW l \in Leases, Holds(c, l)
  PROVE  current[c] = l /\ held[c] # <<>>
BY DEF AtPoint, Holds

-----------------------------------------------------------------------------
(* The part of the invariant about leases, action by action *)

LEMMA EnterKeeps ==
  ASSUME Shared, NEW c \in Contexts, Enter(c)
  PROVE  Shared'
<1> USE DEF Shared
<1>0. held' = held /\ UNCHANGED <<refs, released, slotOf, slot>>
  BY DEF Enter
<1>1. Shape'
  BY DEF Shape, Enter, Points
<1>2. /\ \A d \in Contexts, l \in Leases : Holds(d, l)' <=> Holds(d, l)
      /\ \A l \in Leases : Refs(l)' = Refs(l)
  BY <1>0, SameStacks
<1>3. \A d \in Contexts, l \in Leases : Holds(d, l) => current[d] = l /\ held[d] # <<>>
  BY HoldsCurrent
<1>4. AtPoint'
  <2>1. current[c] = None \/ current[c] \in Leases
    BY DEF Shape
  <2>2. (current[c] # None => released[current[c]]) => held[c] = <<>>
    <3> SUFFICES ASSUME held[c] # <<>>
                 PROVE  current[c] # None /\ ~released[current[c]]
      OBVIOUS
    <3>1. held[c] \in Seq(Leases)
      BY DEF Shape
    <3>2. PICK i \in DOMAIN held[c] : held[c][i] \in Leases
      BY <3>1
    <3> QED BY <3>2, NoneAssumption DEF Counted, Holds, AtPoint
  <2> QED BY <2>1, <2>2 DEF AtPoint, Enter, Shape
<1>5. Counted'
  BY <1>0, <1>2 DEF Counted
<1>6. Reached'
  BY <1>0, <1>2, NoneAssumption DEF Reached, Enter, Shape
<1>7. OneProcess'
  BY <1>2, NoneAssumption DEF OneProcess, Uses, Enter, Shape
<1>8. Unlocking'
  <2>1. ASSUME NEW d \in Contexts, pc'[d] = "unlock"
        PROVE  pc[d] = "unlock" /\ target'[d] = target[d]
    BY <2>1 DEF Enter, Shape
  <2> QED BY <1>0, <2>1 DEF Unlocking
<1> QED BY <1>1, <1>4, <1>5, <1>6, <1>7, <1>8

LEMMA RetainKeeps ==
  ASSUME Shared, NEW c \in Contexts, Retain(c)
  PROVE  Shared'
<1> USE DEF Shared
<1>1. PICK l \in Leases : l = target[c] /\ l = current[c] /\ ~released[l]
  BY DEF Retain, AtPoint
<1>2. PICK e \in Contexts : Holds(e, l)
  BY <1>1 DEF Reached
<1>3. slot[slotOf[l]] = l /\ IsFiniteSet(Refs(l)) /\ refs[l] = Cardinality(Refs(l))
  BY <1>1, <1>2 DEF Counted
<1>4. held' = [held EXCEPT ![c] = Append(@, l)]
  BY <1>1 DEF Retain
<1>5. PICK n \in Nat :
      /\ held' \in [Contexts -> Seq(Leases)]
      /\ held'[c] # <<>>
      /\ \A d \in Contexts : d # c => held'[d] = held[d]
      /\ DOMAIN held'[c] = DOMAIN held[c] \cup {n}
      /\ held'[c][n] = l
      /\ \A i \in DOMAIN held[c] : held'[c][i] = held[c][i]
      /\ \A m \in Leases : Holds(c, m)' <=> (m = l \/ Holds(c, m))
      /\ \A d \in Contexts, m \in Leases : d # c => (Holds(d, m)' <=> Holds(d, m))
      /\ Refs(l)' = Refs(l) \cup {<<c, n>>}
      /\ <<c, n>> \notin Refs(l)
      /\ \A m \in Leases : m # l => Refs(m)' = Refs(m)
  BY <1>1, <1>4, Pushed
<1>6. IsFiniteSet(Refs(l)') /\ refs'[l] = Cardinality(Refs(l)')
  <2>1. /\ IsFiniteSet(Refs(l) \cup {<<c, n>>})
        /\ Cardinality(Refs(l) \cup {<<c, n>>}) = Cardinality(Refs(l)) + 1
    BY <1>3, <1>5, FS_AddElement
  <2> QED BY <2>1, <1>1, <1>3, <1>5 DEF Retain, Shape
<1>7. /\ \A m \in Leases : m # l => refs'[m] = refs[m]
      /\ UNCHANGED <<current, released, slotOf, slot>>
      /\ pc' = [pc EXCEPT ![c] = "idle"] /\ target' = [target EXCEPT ![c] = None]
  BY <1>1 DEF Retain, Shape
<1>8. Shape'
  BY <1>1, <1>5 DEF Shape, Retain, Points
<1>9. AtPoint'
  <2>1. \A i \in DOMAIN held'[c] : held'[c][i] = current'[c]
    BY <1>1, <1>5, <1>7 DEF AtPoint
  <2>2. pc'[c] = "idle" /\ target'[c] = None
    BY <1>7 DEF Shape
  <2>3. \A d \in Contexts : d # c => pc'[d] = pc[d] /\ target'[d] = target[d]
    BY <1>7 DEF Shape
  <2> QED BY <1>5, <1>7, <2>1, <2>2, <2>3 DEF AtPoint
<1>10. Counted'
  <2> SUFFICES ASSUME NEW d \in Contexts, NEW m \in Leases, Holds(d, m)'
               PROVE  /\ ~released'[m] /\ slot'[slotOf'[m]] = m
                      /\ IsFiniteSet(Refs(m)') /\ refs'[m] = Cardinality(Refs(m)')
    BY DEF Counted
  <2>1. CASE m = l
    BY <2>1, <1>1, <1>3, <1>6, <1>7
  <2>2. CASE m # l
    BY <2>2, <1>5, <1>7 DEF Counted
  <2> QED BY <2>1, <2>2
<1>11. Reached'
  BY <1>1, <1>2, <1>5, <1>7, NoneAssumption DEF Reached, Shape
<1>12. OneProcess'
  <2>1. \A d \in Contexts, m \in Leases : Uses(d, m)' => Uses(d, m)
    BY <1>1, <1>5, <1>7, NoneAssumption DEF Uses, Shape
  <2> QED BY <2>1 DEF OneProcess
<1>13. Unlocking'
  BY <1>7 DEF Unlocking, Shape
<1> QED BY <1>8, <1>9, <1>10, <1>11, <1>12, <1>13

\* The steps of acquire that change nothing but a point, a try and a permit.
LEMMA WaitKeeps ==
  ASSUME Shared, NEW c \in Contexts,
         RetainFails(c) \/ TakePermit(c) \/ GiveUp(c) \/ SlotBusy(c) \/ Abandon(c)
  PROVE  Shared'
<1> USE DEF Shared
<1>1. /\ UNCHANGED <<current, held, refs, released, slotOf, slot>>
      /\ \A d \in Contexts : d # c => pc'[d] = pc[d] /\ target'[d] = target[d]
      /\ pc'[c] \in {"idle", "slots"}
      /\ pc'[c] = "slots" => pc[c] \in {"permit", "slots"}
      /\ target'[c] = None
  BY DEF Shape, AtPoint, RetainFails, TakePermit, GiveUp, SlotBusy, Abandon
<1>2. Capacity \in Nat \ {0} /\ ProcessOf[c] \in Processes
  BY CapacityAssumption, ContextAssumption
<1>3. Shape'
  <2>1. CASE RetainFails(c)
    BY <2>1 DEF Shape, Points, RetainFails
  <2>2. CASE TakePermit(c)
    <3>1. permits[ProcessOf[c]] - 1 \in Nat /\ 0 \in Slots
      BY <2>2, <1>2 DEF Shape, TakePermit, Slots
    <3> QED BY <2>2, <3>1 DEF Shape, Points, TakePermit
  <2>3. CASE GiveUp(c)
    BY <2>3, CapacityAssumption DEF Shape, Points, GiveUp, Leaves
  <2>4. CASE SlotBusy(c)
    <3>1. next[c] \in Int
      BY DEF Shape, Slots
    <3>2. (next[c] + 1) % Capacity \in Slots
      BY <3>1, <1>2 DEF Slots
    <3> QED BY <2>4, <3>2 DEF Shape, SlotBusy
  <2>5. CASE Abandon(c)
    BY <2>5, <1>2, CapacityAssumption DEF Shape, Points, Abandon, Leaves
  <2> QED BY <2>1, <2>2, <2>3, <2>4, <2>5
<1>4. /\ \A d \in Contexts, l \in Leases : Holds(d, l)' <=> Holds(d, l)
      /\ \A l \in Leases : Refs(l)' = Refs(l)
  BY <1>1, SameStacks
<1>5. AtPoint'
  <2> SUFFICES ASSUME NEW d \in Contexts
               PROVE  /\ \A i \in DOMAIN held[d] : held[d][i] = current[d]
                      /\ pc'[d] \in {"permit", "slots"} => held[d] = <<>> /\ current[d] = None
                      /\ pc'[d] = "retain" => target'[d] \in Leases /\ target'[d] = current[d]
                      /\ pc'[d] \in {"unlock", "post"} =>
                           held[d] = <<>> /\ target'[d] \in Leases /\ released[target'[d]]
                      /\ pc'[d] \in {"idle", "permit", "slots"} => target'[d] = None
    BY <1>1 DEF AtPoint
  <2>1. CASE d = c
    BY <2>1, <1>1 DEF AtPoint
  <2>2. CASE d # c
    BY <2>2, <1>1 DEF AtPoint
  <2> QED BY <2>1, <2>2
<1>6. Counted'
  BY <1>1, <1>4 DEF Counted
<1>7. Reached'
  BY <1>1, <1>4, NoneAssumption DEF Reached
<1>8. OneProcess'
  BY <1>1, <1>4, NoneAssumption DEF OneProcess, Uses
<1>9. Unlocking'
  <2>1. ASSUME NEW d \in Contexts, pc'[d] = "unlock"
        PROVE  pc[d] = "unlock" /\ target'[d] = target[d]
    BY <2>1, <1>1
  <2> QED BY <1>1, <2>1 DEF Unlocking
<1> QED BY <1>3, <1>5, <1>6, <1>7, <1>8, <1>9

LEMMA TakeSlotKeeps ==
  ASSUME Shared, NEW c \in Contexts, TakeSlot(c)
  PROVE  Shared'
<1> USE DEF Shared
<1>1. PICK l \in Leases :
        /\ ~InUse(l)
        /\ slot' = [slot EXCEPT ![next[c]] = l]
        /\ slotOf' = [slotOf EXCEPT ![l] = next[c]]
        /\ refs' = [refs EXCEPT ![l] = 1]
        /\ released' = [released EXCEPT ![l] = FALSE]
        /\ current' = [current EXCEPT ![c] = l]
        /\ held' = [held EXCEPT ![c] = Append(@, l)]
  <2>1. PICK m \in Leases : m = CHOOSE n \in Leases : ~InUse(n)
    BY DEF TakeSlot
  <2>2. ~InUse(m)
    BY <2>1 DEF TakeSlot
  <2> QED BY <2>1, <2>2 DEF TakeSlot
<1>2. /\ pc[c] = "slots" /\ slot[next[c]] = None /\ next[c] \in Slots
      /\ pc' = [pc EXCEPT ![c] = "idle"] /\ UNCHANGED target
  BY DEF TakeSlot, Shape
<1>3. held[c] = <<>> /\ current[c] = None /\ target[c] = None
  BY <1>2 DEF AtPoint
<1>4. /\ \A k \in Slots : slot[k] # l
      /\ \A d \in Contexts : ~Uses(d, l)
  BY <1>1 DEF InUse, Uses
<1>5. PICK n \in Nat :
      /\ held' \in [Contexts -> Seq(Leases)]
      /\ held'[c] # <<>>
      /\ \A d \in Contexts : d # c => held'[d] = held[d]
      /\ DOMAIN held'[c] = DOMAIN held[c] \cup {n}
      /\ held'[c][n] = l
      /\ \A i \in DOMAIN held[c] : held'[c][i] = held[c][i]
      /\ \A m \in Leases : Holds(c, m)' <=> (m = l \/ Holds(c, m))
      /\ \A d \in Contexts, m \in Leases : d # c => (Holds(d, m)' <=> Holds(d, m))
      /\ Refs(l)' = Refs(l) \cup {<<c, n>>}
      /\ <<c, n>> \notin Refs(l)
      /\ \A m \in Leases : m # l => Refs(m)' = Refs(m)
  BY <1>1, Pushed
<1>6. DOMAIN held[c] = {} /\ \A m \in Leases : ~Holds(c, m)
  BY <1>3 DEF Holds
<1>7. Refs(l)' = {<<c, n>>}
  <2>1. Refs(l) = {}
    BY <1>4 DEF Refs, Uses, Holds
  <2> QED BY <2>1, <1>5
<1>8. IsFiniteSet(Refs(l)') /\ refs'[l] = Cardinality(Refs(l)')
  BY <1>1, <1>7, FS_Singleton DEF Shape
<1>9. /\ \A m \in Leases : m # l =>
           refs'[m] = refs[m] /\ released'[m] = released[m] /\ slotOf'[m] = slotOf[m]
      /\ ~released'[l] /\ slotOf'[l] = next[c] /\ slot'[next[c]] = l
      /\ \A k \in Slots : k # next[c] => slot'[k] = slot[k]
      /\ current'[c] = l /\ \A d \in Contexts : d # c => current'[d] = current[d]
      /\ pc'[c] = "idle" /\ \A d \in Contexts : d # c => pc'[d] = pc[d]
  BY <1>1, <1>2 DEF Shape
<1>10. Shape'
  BY <1>1, <1>2, <1>5 DEF Shape, TakeSlot, Points
<1>11. AtPoint'
  <2> SUFFICES ASSUME NEW d \in Contexts
               PROVE  /\ \A i \in DOMAIN held'[d] : held'[d][i] = current'[d]
                      /\ pc'[d] \in {"permit", "slots"} => held'[d] = <<>> /\ current'[d] = None
                      /\ pc'[d] = "retain" => target[d] \in Leases /\ target[d] = current'[d]
                      /\ pc'[d] \in {"unlock", "post"} =>
                           held'[d] = <<>> /\ target[d] \in Leases /\ released'[target[d]]
                      /\ pc'[d] \in {"idle", "permit", "slots"} => target[d] = None
    BY <1>2 DEF AtPoint
  <2>1. CASE d = c
    BY <2>1, <1>3, <1>5, <1>6, <1>9
  <2>2. CASE d # c
    <3>1. target[d] # l
      BY <1>4 DEF Uses
    <3>2. pc[d] \in {"unlock", "post"} => released'[target[d]]
      BY <3>1, <1>9 DEF AtPoint
    <3> QED BY <2>2, <3>2, <1>5, <1>9 DEF AtPoint
  <2> QED BY <2>1, <2>2
<1>12. Counted'
  <2> SUFFICES ASSUME NEW d \in Contexts, NEW m \in Leases, Holds(d, m)'
               PROVE  /\ ~released'[m] /\ slot'[slotOf'[m]] = m
                      /\ IsFiniteSet(Refs(m)') /\ refs'[m] = Cardinality(Refs(m)')
    BY DEF Counted
  <2>1. CASE m = l
    BY <2>1, <1>8, <1>9
  <2>2. CASE m # l
    <3>1. Holds(d, m)
      BY <2>2, <1>5
    <3>2. slot[slotOf[m]] = m /\ slotOf[m] \in Slots
      BY <3>1 DEF Counted, Shape
    <3>3. slotOf[m] # next[c]
      BY <3>2, <1>2, NoneAssumption
    <3>4. ~released[m] /\ IsFiniteSet(Refs(m)) /\ refs[m] = Cardinality(Refs(m))
      BY <3>1 DEF Counted
    <3> QED BY <2>2, <3>2, <3>3, <3>4, <1>5, <1>9
  <2> QED BY <2>1, <2>2
<1>13. Reached'
  <2> SUFFICES ASSUME NEW d \in Contexts, NEW m \in Leases,
                      current'[d] = m \/ target'[d] = m, ~released'[m]
               PROVE  \E e \in Contexts : Holds(e, m)'
    BY DEF Reached
  <2>1. CASE m = l
    BY <2>1, <1>5
  <2>2. CASE m # l
    BY <2>2, <1>2, <1>5, <1>9 DEF Reached
  <2> QED BY <2>1, <2>2
<1>14. OneProcess'
  <2>1. \A d \in Contexts, m \in Leases : Uses(d, m)' => Uses(d, m) \/ (d = c /\ m = l)
    BY <1>2, <1>5, <1>9 DEF Uses
  <2>2. \A d \in Contexts : ~Uses(d, l)
    BY <1>4
  <2> QED BY <2>1, <2>2 DEF OneProcess
<1>15. Unlocking'
  <2> SUFFICES ASSUME NEW d \in Contexts, pc'[d] = "unlock"
               PROVE  /\ slot'[slotOf'[target[d]]] = target[d]
                      /\ \A e \in Contexts : pc'[e] = "unlock" /\ target[e] = target[d] => e = d
    BY <1>2 DEF Unlocking
  <2>1. d # c /\ pc[d] = "unlock"
    BY <1>9
  <2>2. target[d] \in Leases /\ target[d] # l
    BY <2>1, <1>4 DEF AtPoint, Uses
  <2>3. slot[slotOf[target[d]]] = target[d] /\ slotOf[target[d]] \in Slots
    BY <2>1, <2>2 DEF Unlocking, Shape
  <2>4. slotOf[target[d]] # next[c]
    BY <2>2, <2>3, <1>2, NoneAssumption
  <2>5. \A e \in Contexts : pc'[e] = "unlock" => pc[e] = "unlock"
    BY <1>9
  <2> QED BY <2>1, <2>2, <2>3, <2>4, <2>5, <1>9 DEF Unlocking
<1> QED BY <1>10, <1>11, <1>12, <1>13, <1>14, <1>15

LEMMA DropReferenceKeeps ==
  ASSUME Shared, NEW c \in Contexts, DropReference(c)
  PROVE  Shared'
<1> USE DEF Shared
<1>1. held[c] # <<>> /\ held' = [held EXCEPT ![c] = Outer(c)]
  BY DEF DropReference
<1>2. PICK l \in Leases, n \in Nat \ {0} :
           /\ l = Innermost(c) /\ n = Len(held[c])
           /\ Holds(c, l)
           /\ held' \in [Contexts -> Seq(Leases)]
           /\ held'[c] = Outer(c)
           /\ \A d \in Contexts : d # c => held'[d] = held[d]
           /\ DOMAIN held[c] = 1..n
           /\ DOMAIN held'[c] = DOMAIN held[c] \ {n}
           /\ \A i \in DOMAIN held'[c] : held'[c][i] = held[c][i]
           /\ \A d \in Contexts, m \in Leases : d # c => (Holds(d, m)' <=> Holds(d, m))
           /\ \A m \in Leases : Holds(c, m)' => Holds(c, m)
           /\ Refs(l)' = Refs(l) \ {<<c, n>>}
           /\ <<c, n>> \in Refs(l)
           /\ \A m \in Leases : m # l => Refs(m)' = Refs(m)
  BY <1>1, Popped
<1>3. /\ pc[c] = "idle" /\ refs[l] > 1 /\ refs' = [refs EXCEPT ![l] = @ - 1]
      /\ UNCHANGED <<pc, current, target, next, released, slotOf, slot, permits, leaves>>
  BY <1>2 DEF DropReference
<1>4. ~released[l] /\ IsFiniteSet(Refs(l)) /\ refs[l] = Cardinality(Refs(l))
  BY <1>2 DEF Counted
<1>5. IsFiniteSet(Refs(l)') /\ refs'[l] = Cardinality(Refs(l)') /\ refs'[l] \in Nat \ {0}
  <2>1. /\ IsFiniteSet(Refs(l) \ {<<c, n>>})
        /\ Cardinality(Refs(l) \ {<<c, n>>}) = Cardinality(Refs(l)) - 1
    BY <1>2, <1>4, FS_RemoveElement
  <2>2. refs[l] \in Nat /\ refs'[l] = refs[l] - 1
    BY <1>3 DEF Shape
  <2> QED BY <2>1, <2>2, <1>2, <1>3, <1>4
<1>6. \A m \in Leases : m # l => refs'[m] = refs[m]
  BY <1>3 DEF Shape
<1>7. Shape'
  <2>1. refs' \in [Leases -> Nat]
    BY <1>3, <1>5 DEF Shape
  <2> QED BY <2>1, <1>2, <1>3 DEF Shape
<1>8. AtPoint'
  <2> SUFFICES ASSUME NEW d \in Contexts
               PROVE  /\ \A i \in DOMAIN held'[d] : held'[d][i] = current[d]
                      /\ pc[d] \in {"permit", "slots", "unlock", "post"} => held'[d] = held[d]
    BY <1>3 DEF AtPoint
  <2>1. CASE d = c
    BY <2>1, <1>2, <1>3 DEF AtPoint
  <2>2. CASE d # c
    BY <2>2, <1>2 DEF AtPoint
  <2> QED BY <2>1, <2>2
<1>9. Counted'
  <2> SUFFICES ASSUME NEW d \in Contexts, NEW m \in Leases, Holds(d, m)'
               PROVE  /\ ~released[m] /\ slot[slotOf[m]] = m
                      /\ IsFiniteSet(Refs(m)') /\ refs'[m] = Cardinality(Refs(m)')
    BY <1>3 DEF Counted
  <2>1. Holds(d, m)
    BY <1>2
  <2>2. CASE m = l
    BY <2>1, <2>2, <1>5 DEF Counted
  <2>3. CASE m # l
    BY <2>1, <2>3, <1>2, <1>6 DEF Counted
  <2> QED BY <2>2, <2>3
<1>10. \E e \in Contexts : Holds(e, l)'
  <2>1. Refs(l)' # {}
    BY <1>5, FS_EmptySet
  <2>2. \A r \in Refs(l)' : r[1] \in Contexts /\ Holds(r[1], l)'
    BY DEF Refs, Holds
  <2> QED BY <2>1, <2>2
<1>11. Reached'
  <2> SUFFICES ASSUME NEW d \in Contexts, NEW m \in Leases,
                      current[d] = m \/ target[d] = m, ~released[m]
               PROVE  \E e \in Contexts : Holds(e, m)'
    BY <1>3 DEF Reached
  <2>1. CASE m = l
    BY <2>1, <1>10
  <2>2. CASE m # l
    <3>1. PICK e \in Contexts : Holds(e, m)
      BY DEF Reached
    <3>2. e # c
      BY <3>1, <2>2, <1>2, HoldsCurrent
    <3> QED BY <3>1, <3>2, <1>2
  <2> QED BY <2>1, <2>2
<1>12. OneProcess'
  <2>1. \A d \in Contexts, m \in Leases : Uses(d, m)' => Uses(d, m)
    BY <1>2, <1>3 DEF Uses
  <2> QED BY <2>1 DEF OneProcess
<1>13. Unlocking'
  BY <1>3 DEF Unlocking
<1> QED BY <1>7, <1>8, <1>9, <1>11, <1>12, <1>13

LEMMA DropLastKeeps ==
  ASSUME Shared, NEW c \in Contexts, DropLast(c)
  PROVE  /\ Shared'
         /\ \E l \in Leases :
              /\ l = current[c] /\ ~released[l] /\ Holds(c, l)
              /\ \A d \in Contexts : d # c => ~Holds(d, l)
              /\ \A d \in Contexts, m \in Leases :
                   Holds(d, m)' <=> Holds(d, m) /\ ~(d = c /\ m = l)
              /\ released' = [released EXCEPT ![l] = TRUE]
              /\ target' = [target EXCEPT ![c] = l]
<1> USE DEF Shared
<1>1. held[c] # <<>> /\ held' = [held EXCEPT ![c] = Outer(c)]
  BY DEF DropLast
<1>2. PICK l \in Leases, n \in Nat \ {0} :
           /\ l = Innermost(c) /\ n = Len(held[c])
           /\ Holds(c, l)
           /\ held' \in [Contexts -> Seq(Leases)]
           /\ held'[c] = Outer(c)
           /\ \A d \in Contexts : d # c => held'[d] = held[d]
           /\ DOMAIN held[c] = 1..n
           /\ DOMAIN held'[c] = DOMAIN held[c] \ {n}
           /\ \A i \in DOMAIN held'[c] : held'[c][i] = held[c][i]
           /\ \A d \in Contexts, m \in Leases : d # c => (Holds(d, m)' <=> Holds(d, m))
           /\ \A m \in Leases : Holds(c, m)' => Holds(c, m)
           /\ Refs(l)' = Refs(l) \ {<<c, n>>}
           /\ <<c, n>> \in Refs(l)
           /\ \A m \in Leases : m # l => Refs(m)' = Refs(m)
  BY <1>1, Popped
<1>3. /\ pc[c] = "idle" /\ refs[l] <= 1 /\ refs' = [refs EXCEPT ![l] = 0]
      /\ released' = [released EXCEPT ![l] = TRUE]
      /\ target' = [target EXCEPT ![c] = l]
      /\ pc' = [pc EXCEPT ![c] = "unlock"]
      /\ UNCHANGED <<current, next, slotOf, slot, permits, leaves>>
  BY <1>2 DEF DropLast
<1>4. /\ ~released[l] /\ IsFiniteSet(Refs(l)) /\ refs[l] = Cardinality(Refs(l))
      /\ slot[slotOf[l]] = l
  BY <1>2 DEF Counted
<1>5. Refs(l) = {<<c, n>>}
  <2>1. /\ IsFiniteSet(Refs(l) \ {<<c, n>>})
        /\ Cardinality(Refs(l) \ {<<c, n>>}) = Cardinality(Refs(l)) - 1
    BY <1>2, <1>4, FS_RemoveElement
  <2>2. Cardinality(Refs(l) \ {<<c, n>>}) \in Nat
    BY <2>1, FS_CardinalityType
  <2>3. Cardinality(Refs(l) \ {<<c, n>>}) = 0
    BY <2>1, <2>2, <1>3, <1>4 DEF Shape
  <2>4. Refs(l) \ {<<c, n>>} = {}
    BY <2>1, <2>3, FS_EmptySet
  <2> QED BY <2>4, <1>2
<1>6. /\ current[c] = l
      /\ \A i \in 1..n : <<c, i>> \in Refs(l)
  BY <1>2, HoldsCurrent DEF AtPoint, Refs
<1>7. n = 1
  <2>1. 1 \in 1..n /\ <<c, 1>> \in Refs(l)
    BY <1>6
  <2> QED BY <2>1, <1>5
<1>8. held'[c] = <<>> /\ \A m \in Leases : ~Holds(c, m)'
  <2>1. held'[c] \in Seq(Leases) /\ DOMAIN held'[c] = {}
    BY <1>2, <1>7
  <2>2. held'[c] = <<>>
    BY <2>1, EmptyStack
  <2> QED BY <2>1, <2>2 DEF Holds
<1>9. \A d \in Contexts : d # c => ~Holds(d, l)
  <2> SUFFICES ASSUME NEW d \in Contexts, Holds(d, l) PROVE d = c
    OBVIOUS
  <2>1. held[d] \in Seq(Leases)
    BY DEF Shape
  <2>2. PICK i \in DOMAIN held[d] : held[d][i] = l
    BY DEF Holds
  <2>3. <<d, i>> \in Refs(l)
    BY <2>1, <2>2 DEF Refs
  <2> QED BY <2>3, <1>5
<1>10. \A m \in Leases : Holds(c, m) => m = l
  BY <1>6, HoldsCurrent
<1>11. \A d \in Contexts, m \in Leases : Holds(d, m)' <=> Holds(d, m) /\ ~(d = c /\ m = l)
  BY <1>2, <1>8, <1>10
<1>12. /\ \A m \in Leases : m # l => refs'[m] = refs[m] /\ released'[m] = released[m]
       /\ released'[l]
       /\ pc'[c] = "unlock" /\ target'[c] = l
       /\ \A d \in Contexts : d # c => pc'[d] = pc[d] /\ target'[d] = target[d]
  BY <1>3 DEF Shape
<1>13. Shape'
  BY <1>2, <1>3 DEF Shape, Points
<1>14. AtPoint'
  <2> SUFFICES ASSUME NEW d \in Contexts
               PROVE  /\ \A i \in DOMAIN held'[d] : held'[d][i] = current[d]
                      /\ pc'[d] \in {"permit", "slots"} => held'[d] = <<>> /\ current[d] = None
                      /\ pc'[d] = "retain" => target'[d] \in Leases /\ target'[d] = current[d]
                      /\ pc'[d] \in {"unlock", "post"} =>
                           held'[d] = <<>> /\ target'[d] \in Leases /\ released'[target'[d]]
                      /\ pc'[d] \in {"idle", "permit", "slots"} => target'[d] = None
    BY <1>3 DEF AtPoint
  <2>1. CASE d = c
    <3>1. DOMAIN held'[c] = {} /\ released'[target'[c]] /\ target'[c] \in Leases
      BY <1>2, <1>7, <1>12
    <3> QED BY <2>1, <3>1, <1>8, <1>12
  <2>2. CASE d # c
    <3>1. pc[d] \in {"unlock", "post"} => released'[target[d]]
      BY <1>12 DEF AtPoint
    <3> QED BY <2>2, <3>1, <1>2, <1>12 DEF AtPoint
  <2> QED BY <2>1, <2>2
<1>15. Counted'
  <2> SUFFICES ASSUME NEW d \in Contexts, NEW m \in Leases, Holds(d, m)'
               PROVE  /\ ~released'[m] /\ slot[slotOf[m]] = m
                      /\ IsFiniteSet(Refs(m)') /\ refs'[m] = Cardinality(Refs(m)')
    BY <1>3 DEF Counted
  <2>1. Holds(d, m) /\ m # l
    BY <1>9, <1>11
  <2>2. ~released[m] /\ slot[slotOf[m]] = m /\ IsFiniteSet(Refs(m)) /\ refs[m] = Cardinality(Refs(m))
    BY <2>1 DEF Counted
  <2>3. Refs(m)' = Refs(m)
    BY <2>1, <1>2
  <2>4. ~released'[m] /\ refs'[m] = refs[m]
    BY <2>1, <2>2, <1>12
  <2> QED BY <2>2, <2>3, <2>4
<1>16. Reached'
  <2> SUFFICES ASSUME NEW d \in Contexts, NEW m \in Leases,
                      current[d] = m \/ target'[d] = m, ~released'[m]
               PROVE  \E e \in Contexts : Holds(e, m)'
    BY <1>3 DEF Reached
  <2>1. m # l /\ ~released[m]
    BY <1>12
  <2>2. current[d] = m \/ target[d] = m
    BY <2>1, <1>12
  <2>3. PICK e \in Contexts : Holds(e, m)
    BY <2>1, <2>2 DEF Reached
  <2> QED BY <2>1, <2>3, <1>11
<1>17. OneProcess'
  <2>1. \A d \in Contexts, m \in Leases : Uses(d, m)' => Uses(d, m)
    BY <1>3, <1>6, <1>11, <1>12 DEF Uses
  <2> QED BY <2>1 DEF OneProcess
<1>18. Unlocking'
  <2>1. \A d \in Contexts : pc[d] = "unlock" => d # c /\ target[d] # l
    BY <1>3, <1>4 DEF AtPoint
  <2>2. slot'[slotOf'[target'[c]]] = target'[c]
    BY <1>3, <1>4, <1>12
  <2>3. \A d \in Contexts : pc'[d] = "unlock" /\ d # c => pc[d] = "unlock" /\ target'[d] = target[d]
    BY <1>12
  <2> QED BY <2>1, <2>2, <2>3, <1>3, <1>12 DEF Unlocking
<1> QED BY <1>2, <1>3, <1>4, <1>6, <1>9, <1>11, <1>13, <1>14, <1>15, <1>16, <1>17, <1>18

LEMMA UnlockKeeps ==
  ASSUME Shared, NEW c \in Contexts, Unlock(c)
  PROVE  Shared'
<1> USE DEF Shared
<1>1. PICK l \in Leases : l = target[c] /\ released[l] /\ slot[slotOf[l]] = l
  BY DEF Unlock, AtPoint, Unlocking
<1>2. /\ pc[c] = "unlock" /\ slot' = [slot EXCEPT ![slotOf[l]] = None]
      /\ pc' = [pc EXCEPT ![c] = "post"] /\ slotOf[l] \in Slots
      /\ UNCHANGED <<current, held, target, next, refs, released, slotOf, permits, leaves>>
  BY <1>1 DEF Unlock, Shape
<1>3. /\ \A k \in Slots : k # slotOf[l] => slot'[k] = slot[k]
      /\ pc'[c] = "post" /\ \A d \in Contexts : d # c => pc'[d] = pc[d]
  BY <1>2 DEF Shape
<1>4. /\ \A d \in Contexts, m \in Leases : Holds(d, m)' <=> Holds(d, m)
      /\ \A m \in Leases : Refs(m)' = Refs(m)
  BY <1>2, SameStacks
<1>5. Shape'
  BY <1>2 DEF Shape, Points
<1>6. AtPoint'
  <2>1. held[c] = <<>> /\ target[c] \in Leases /\ released[target[c]]
    BY <1>2 DEF AtPoint
  <2> QED BY <2>1, <1>2, <1>3 DEF AtPoint
<1>7. Counted'
  <2> SUFFICES ASSUME NEW d \in Contexts, NEW m \in Leases, Holds(d, m)
               PROVE  /\ ~released[m] /\ slot'[slotOf[m]] = m
                      /\ IsFiniteSet(Refs(m)) /\ refs[m] = Cardinality(Refs(m))
    BY <1>2, <1>4 DEF Counted
  <2>1. m # l /\ slot[slotOf[m]] = m /\ slotOf[m] \in Slots
    BY <1>1 DEF Counted, Shape
  <2> QED BY <2>1, <1>1, <1>3 DEF Counted
<1>8. Reached' /\ OneProcess'
  BY <1>2, <1>4 DEF Reached, OneProcess, Uses
<1>9. Unlocking'
  <2> SUFFICES ASSUME NEW d \in Contexts, pc'[d] = "unlock"
               PROVE  /\ slot'[slotOf[target[d]]] = target[d]
                      /\ \A e \in Contexts : pc'[e] = "unlock" /\ target[e] = target[d] => e = d
    BY <1>2 DEF Unlocking
  <2>1. d # c /\ pc[d] = "unlock" /\ target[d] \in Leases
    BY <1>3 DEF AtPoint
  <2>2. slot[slotOf[target[d]]] = target[d] /\ target[d] # l /\ slotOf[target[d]] \in Slots
    BY <2>1, <1>1, <1>2 DEF Unlocking, Shape
  <2>3. \A e \in Contexts : pc'[e] = "unlock" => pc[e] = "unlock"
    BY <1>3
  <2> QED BY <2>1, <2>2, <2>3, <1>1, <1>3 DEF Unlocking
<1> QED BY <1>5, <1>6, <1>7, <1>8, <1>9

LEMMA PostKeeps ==
  ASSUME Shared, NEW c \in Contexts, Post(c)
  PROVE  Shared'
<1> USE DEF Shared
<1>1. /\ UNCHANGED <<held, next, refs, released, slotOf, slot, leaves>>
      /\ pc[c] = "post" /\ held[c] = <<>> /\ released[target[c]]
      /\ pc'[c] = "idle" /\ target'[c] = None /\ current'[c] \in {current[c], None}
      /\ \A d \in Contexts : d # c =>
           pc'[d] = pc[d] /\ target'[d] = target[d] /\ current'[d] = current[d]
  BY DEF Post, AtPoint, Shape
<1>2. ProcessOf[c] \in Processes
  BY ContextAssumption
<1>3. Shape'
  <2>1. permits' \in [Processes -> Nat]
    BY <1>2 DEF Post, Shape
  <2> QED BY <2>1, <1>1 DEF Post, Shape, Points
<1>4. /\ \A d \in Contexts, m \in Leases : Holds(d, m)' <=> Holds(d, m)
      /\ \A m \in Leases : Refs(m)' = Refs(m)
  BY <1>1, SameStacks
<1>5. AtPoint'
  <2> SUFFICES ASSUME NEW d \in Contexts
               PROVE  /\ \A i \in DOMAIN held[d] : held[d][i] = current'[d]
                      /\ pc'[d] \in {"permit", "slots"} => held[d] = <<>> /\ current'[d] = None
                      /\ pc'[d] = "retain" => target'[d] \in Leases /\ target'[d] = current'[d]
                      /\ pc'[d] \in {"unlock", "post"} =>
                           held[d] = <<>> /\ target'[d] \in Leases /\ released[target'[d]]
                      /\ pc'[d] \in {"idle", "permit", "slots"} => target'[d] = None
    BY <1>1 DEF AtPoint
  <2>1. CASE d = c
    BY <2>1, <1>1 DEF AtPoint
  <2>2. CASE d # c
    BY <2>2, <1>1 DEF AtPoint
  <2> QED BY <2>1, <2>2
<1>6. Counted'
  BY <1>1, <1>4 DEF Counted
<1>7. Reached'
  BY <1>1, <1>4, NoneAssumption DEF Reached
<1>8. OneProcess'
  <2>1. \A d \in Contexts, m \in Leases : Uses(d, m)' => Uses(d, m)
    BY <1>1, <1>4, NoneAssumption DEF Uses
  <2> QED BY <2>1 DEF OneProcess
<1>9. Unlocking'
  <2>1. \A d \in Contexts : pc'[d] = "unlock" => pc[d] = "unlock" /\ target'[d] = target[d]
    BY <1>1
  <2> QED BY <2>1, <1>1 DEF Unlocking
<1> QED BY <1>3, <1>5, <1>6, <1>7, <1>8, <1>9

LEMMA ForkKeeps ==
  ASSUME Shared, NEW c \in Contexts, NEW d \in Contexts, Fork(c, d) \/ (EndContext(d) /\ c = d)
  PROVE  Shared'
<1> USE DEF Shared
<1>1. /\ UNCHANGED <<pc, held, target, next, refs, released, slotOf, slot, permits, leaves>>
      /\ pc[d] = "idle" /\ held[d] = <<>>
      /\ \A e \in Contexts : e # d => current'[e] = current[e]
      /\ current'[d] \in {current[c], None} /\ ProcessOf[c] = ProcessOf[d]
  BY DEF Fork, EndContext, Shape
<1>2. Shape'
  BY <1>1 DEF Shape, Fork, EndContext
<1>3. /\ \A e \in Contexts, m \in Leases : Holds(e, m)' <=> Holds(e, m)
      /\ \A m \in Leases : Refs(m)' = Refs(m)
  BY <1>1, SameStacks
<1>4. AtPoint'
  <2>1. DOMAIN held[d] = {}
    BY <1>1
  <2> QED BY <2>1, <1>1 DEF AtPoint
<1>5. Counted'
  BY <1>1, <1>3 DEF Counted
<1>6. Reached'
  BY <1>1, <1>3, NoneAssumption DEF Reached
<1>7. OneProcess'
  <2>1. \A e \in Contexts, m \in Leases : Uses(e, m)' => Uses(e, m) \/ (e = d /\ Uses(c, m))
    BY <1>1, <1>3, NoneAssumption DEF Uses
  <2> QED BY <2>1, <1>1 DEF OneProcess
<1>8. Unlocking'
  BY <1>1 DEF Unlocking
<1> QED BY <1>2, <1>4, <1>5, <1>6, <1>7, <1>8

LEMMA CrashKeeps ==
  ASSUME Shared, NEW p \in Processes, Crash(p)
  PROVE  Shared'
<1> USE DEF Shared
<1>1. /\ UNCHANGED <<next, refs, released, slotOf>>
      /\ \A c \in Of(p) : pc'[c] = "idle" /\ current'[c] = None /\ held'[c] = <<>> /\ target'[c] = None
      /\ \A c \in Contexts \ Of(p) :
           pc'[c] = pc[c] /\ current'[c] = current[c] /\ held'[c] = held[c] /\ target'[c] = target[c]
      /\ \A k \in Slots : slot'[k] = IF OwnedBy(p, slot[k]) THEN None ELSE slot[k]
  BY DEF Crash, Of
<1>2. Shape'
  <2>1. <<>> \in Seq(Leases) /\ Capacity \in Nat
    BY CapacityAssumption
  <2>2. permits' \in [Processes -> Nat] /\ leaves' \in 0..MaxLeaves
    BY <2>1, CapacityAssumption DEF Crash, Shape, Leaves
  <2>3. held' \in [Contexts -> Seq(Leases)]
    BY <2>1 DEF Crash, Shape
  <2>4. slot' \in [Slots -> Leases \cup {None}]
    BY DEF Crash, Shape
  <2> QED BY <2>2, <2>3, <2>4 DEF Crash, Shape, Points
<1>3. \A c \in Of(p), m \in Leases : ~Uses(c, m)'
  BY <1>1, NoneAssumption DEF Uses, Holds
<1>4. \A c \in Contexts \ Of(p), m \in Leases :
        (Holds(c, m)' <=> Holds(c, m)) /\ (Uses(c, m)' <=> Uses(c, m))
  BY <1>1 DEF Uses, Holds
<1>5. ASSUME NEW c \in Contexts \ Of(p), NEW m \in Leases, Uses(c, m)
      PROVE  \A d \in Of(p) : ~Uses(d, m)
  BY <1>5 DEF OneProcess, Of
<1>6. ASSUME NEW c \in Contexts \ Of(p), NEW m \in Leases, Uses(c, m),
             slot[slotOf[m]] = m
      PROVE  slot'[slotOf'[m]] = m
  <2>1. ~OwnedBy(p, m)
    BY <1>5, <1>6 DEF OwnedBy, Uses
  <2>2. slotOf[m] \in Slots
    BY DEF Shape
  <2> QED BY <2>1, <2>2, <1>1, <1>6
<1>7. ASSUME NEW c \in Contexts \ Of(p), NEW m \in Leases, Uses(c, m)
      PROVE  Refs(m)' = Refs(m)
  <2>1. \A d \in Of(p) : ~Holds(d, m) /\ ~Holds(d, m)'
    BY <1>3, <1>5, <1>7 DEF Uses
  <2>2. ASSUME NEW r \in Contexts \X Nat
        PROVE  /\ r[1] \in Contexts
               /\ r[2] \in DOMAIN held'[r[1]] /\ held'[r[1]][r[2]] = m <=>
                  r[2] \in DOMAIN held[r[1]] /\ held[r[1]][r[2]] = m
    <3>1. CASE r[1] \in Of(p)
      BY <2>1, <3>1 DEF Holds
    <3>2. CASE r[1] \notin Of(p)
      BY <1>1, <3>2
    <3> QED BY <3>1, <3>2
  <2> QED BY <2>2 DEF Refs
<1>8. AtPoint'
  <2> SUFFICES ASSUME NEW c \in Contexts
               PROVE  /\ \A i \in DOMAIN held'[c] : held'[c][i] = current'[c]
                      /\ pc'[c] \in {"permit", "slots"} => held'[c] = <<>> /\ current'[c] = None
                      /\ pc'[c] = "retain" => target'[c] \in Leases /\ target'[c] = current'[c]
                      /\ pc'[c] \in {"unlock", "post"} =>
                           held'[c] = <<>> /\ target'[c] \in Leases /\ released[target'[c]]
                      /\ pc'[c] \in {"idle", "permit", "slots"} => target'[c] = None
    BY <1>1 DEF AtPoint
  <2>1. CASE c \in Of(p)
    BY <2>1, <1>1
  <2>2. CASE c \notin Of(p)
    BY <2>2, <1>1 DEF AtPoint
  <2> QED BY <2>1, <2>2
<1>9. Counted'
  <2> SUFFICES ASSUME NEW c \in Contexts, NEW m \in Leases, Holds(c, m)'
               PROVE  /\ ~released[m] /\ slot'[slotOf'[m]] = m
                      /\ IsFiniteSet(Refs(m)') /\ refs[m] = Cardinality(Refs(m)')
    BY <1>1 DEF Counted
  <2>1. c \in Contexts \ Of(p) /\ Holds(c, m) /\ Uses(c, m)
    BY <1>3, <1>4 DEF Uses
  <2>2. /\ ~released[m] /\ slot[slotOf[m]] = m
        /\ IsFiniteSet(Refs(m)) /\ refs[m] = Cardinality(Refs(m))
    BY <2>1 DEF Counted
  <2> QED BY <2>1, <2>2, <1>6, <1>7
<1>10. Reached'
  <2> SUFFICES ASSUME NEW c \in Contexts, NEW m \in Leases,
                      current'[c] = m \/ target'[c] = m, ~released[m]
               PROVE  \E e \in Contexts : Holds(e, m)'
    BY <1>1 DEF Reached
  <2>1. c \in Contexts \ Of(p) /\ (current[c] = m \/ target[c] = m)
    BY <1>1, NoneAssumption
  <2>2. PICK e \in Contexts : Holds(e, m)
    BY <2>1 DEF Reached
  <2>3. e \notin Of(p)
    BY <2>1, <2>2, <1>5 DEF Uses
  <2> QED BY <2>2, <2>3, <1>4
<1>11. OneProcess'
  BY <1>3, <1>4 DEF OneProcess
<1>12. Unlocking'
  <2> SUFFICES ASSUME NEW c \in Contexts, pc'[c] = "unlock"
               PROVE  /\ slot'[slotOf'[target'[c]]] = target'[c]
                      /\ \A d \in Contexts : pc'[d] = "unlock" /\ target'[d] = target'[c] => d = c
    BY DEF Unlocking
  <2>1. c \in Contexts \ Of(p) /\ pc[c] = "unlock" /\ target'[c] = target[c]
    BY <1>1
  <2>2. target[c] \in Leases /\ Uses(c, target[c]) /\ slot[slotOf[target[c]]] = target[c]
    BY <2>1 DEF AtPoint, Unlocking, Uses
  <2>3. \A d \in Contexts : pc'[d] = "unlock" => pc[d] = "unlock" /\ target'[d] = target[d]
    BY <1>1
  <2>4. slot'[slotOf'[target[c]]] = target[c]
    BY <2>1, <2>2, <1>6
  <2> QED BY <2>1, <2>3, <2>4 DEF Unlocking
<1> QED BY <1>2, <1>8, <1>9, <1>10, <1>11, <1>12

\* The leases and the points survive every step.
LEMMA SharedStep ==
  ASSUME Shared, [Next]_vars
  PROVE  Shared'
<1>1. ASSUME NEW c \in Contexts, Acquire(c) PROVE Shared'
  BY <1>1, EnterKeeps, RetainKeeps, WaitKeeps, TakeSlotKeeps DEF Acquire
<1>2. ASSUME NEW c \in Contexts, GiveUp(c) \/ Abandon(c) PROVE Shared'
  BY <1>2, WaitKeeps
<1>3. ASSUME NEW c \in Contexts, Release(c) PROVE Shared'
  BY <1>3, DropReferenceKeeps, DropLastKeeps, UnlockKeeps, PostKeeps DEF Release
<1>4. ASSUME NEW c \in Contexts, EndContext(c) PROVE Shared'
  BY <1>4, ForkKeeps
<1>5. ASSUME NEW c \in Contexts, NEW d \in Contexts, Fork(c, d) PROVE Shared'
  BY <1>5, ForkKeeps
<1>6. ASSUME NEW p \in Processes, Crash(p) PROVE Shared'
  BY <1>6, CrashKeeps
<1>7. CASE UNCHANGED vars
  <2>1. /\ UNCHANGED <<pc, current, held, target, next, refs, released>>
        /\ UNCHANGED <<slotOf, slot, permits, leaves>>
    BY <1>7 DEF vars
  <2>2. Shape' /\ AtPoint'
    BY <2>1 DEF Shared, Shape, AtPoint
  <2>3. Counted' /\ Reached'
    BY <2>1, SameStacks DEF Shared, Counted, Reached
  <2>4. OneProcess' /\ Unlocking'
    BY <2>1, SameStacks DEF Shared, OneProcess, Uses, Unlocking
  <2> QED BY <2>2, <2>3, <2>4 DEF Shared
<1> QED BY <1>1, <1>2, <1>3, <1>4, <1>5, <1>6, <1>7 DEF Next

-----------------------------------------------------------------------------
(* The permits, action by action *)

\* The open leases of a process are those its contexts hold,
LEMMA LiveHeld ==
  ASSUME Shared, NEW p \in Processes
  PROVE  Live(p) = {l \in Leases : \E c \in Of(p) : Holds(c, l)}
<1> USE DEF Shared
<1>1. ASSUME NEW l \in Leases, ~released[l], OwnedBy(p, l)
      PROVE  \E c \in Of(p) : Holds(c, l)
  <2>1. PICK d \in Of(p) : Uses(d, l)
    BY <1>1 DEF OwnedBy, Uses
  <2>2. PICK e \in Contexts : Holds(e, l)
    BY <2>1, <1>1 DEF Reached, Uses, Of
  <2>3. e \in Of(p)
    BY <2>1, <2>2 DEF OneProcess, Uses, Of
  <2> QED BY <2>2, <2>3
<1>2. \A l \in Leases : (\E c \in Of(p) : Holds(c, l)) => ~released[l] /\ OwnedBy(p, l)
  BY DEF Counted, OwnedBy, Of
<1> QED BY <1>1, <1>2 DEF Live

\* before and after a step.
LEMMA LiveHeldNext ==
  ASSUME Shared', NEW p \in Processes
  PROVE  Live(p)' = {l \in Leases : \E c \in Of(p) : Holds(c, l)'}
<1> USE DEF Shared
<1>1. ASSUME NEW l \in Leases, ~released'[l], OwnedBy(p, l)'
      PROVE  \E c \in Of(p) : Holds(c, l)'
  <2>1. PICK d \in Of(p) : Uses(d, l)'
    BY <1>1 DEF OwnedBy, Uses, Of
  <2>2. PICK e \in Contexts : Holds(e, l)'
    BY <2>1, <1>1 DEF Reached, Uses, Of
  <2>3. e \in Of(p)
    BY <2>1, <2>2 DEF OneProcess, Uses, Of
  <2> QED BY <2>2, <2>3
<1>2. \A l \in Leases : (\E c \in Of(p) : Holds(c, l)') => ~released'[l] /\ OwnedBy(p, l)'
  BY DEF Counted, OwnedBy, Of
<1> QED BY <1>1, <1>2 DEF Live, Of

\* A context that goes from no permit to a permit, or back.
LEMMA BusyMoves ==
  ASSUME Shape, NEW c \in Contexts, NEW point \in Points,
         pc' = [pc EXCEPT ![c] = point], NEW p \in Processes
  PROVE  Busy(p)' = IF c \notin Of(p) THEN Busy(p)
                    ELSE IF point \in {"slots", "unlock", "post"} THEN Busy(p) \cup {c}
                    ELSE Busy(p) \ {c}
BY DEF Shape, Busy, Of

\* The steps of one context.
LEMMA ConservedByContext ==
  ASSUME Shared, Shared', Conserved, NEW c \in Contexts,
         Acquire(c) \/ GiveUp(c) \/ Abandon(c) \/ Release(c)
  PROVE  Conserved'
<1> SUFFICES ASSUME NEW p \in Processes
             PROVE  /\ IsFiniteSet(Live(p)') /\ IsFiniteSet(Busy(p)')
                    /\ permits'[p] + Cardinality(Live(p)') + Cardinality(Busy(p)') = Capacity
  BY DEF Conserved
<1>1. /\ IsFiniteSet(Live(p)) /\ IsFiniteSet(Busy(p))
      /\ permits[p] + Cardinality(Live(p)) + Cardinality(Busy(p)) = Capacity
      /\ Cardinality(Live(p)) \in Nat /\ Cardinality(Busy(p)) \in Nat
      /\ permits \in [Processes -> Nat] /\ permits[p] \in Nat /\ ProcessOf[c] \in Processes
  BY FS_CardinalityType, ContextAssumption DEF Conserved, Shared, Shape
<1>2. /\ Live(p) = {l \in Leases : \E d \in Of(p) : Holds(d, l)}
      /\ Live(p)' = {l \in Leases : \E d \in Of(p) : Holds(d, l)'}
  BY LiveHeld, LiveHeldNext
<1>3. Shape /\ Points = {"idle", "retain", "permit", "slots", "unlock", "post"}
  BY DEF Shared, Points
<1>4. c \in Of(p) <=> ProcessOf[c] = p
  BY DEF Of
<1>5. UNCHANGED held => Live(p)' = Live(p)
  BY <1>2 DEF Holds
<1>6. CASE Enter(c) \/ RetainFails(c) \/ SlotBusy(c) \/ GiveUp(c) \/ Unlock(c)
  <2>1. UNCHANGED <<held, permits>>
    BY <1>6 DEF Enter, RetainFails, SlotBusy, GiveUp, Unlock
  <2>2. Busy(p)' = Busy(p)
    BY <1>3, <1>6 DEF Busy, Of, Shape, Enter, RetainFails, SlotBusy, GiveUp, Unlock
  <2> QED BY <2>1, <2>2, <1>1, <1>5
<1>7. CASE Retain(c)
  <2>1. PICK l \in Leases : l = target[c] /\ l = current[c] /\ ~released[l]
    BY <1>7 DEF Retain, AtPoint, Shared
  <2>2. held' = [held EXCEPT ![c] = Append(@, l)] /\ UNCHANGED permits
    BY <1>7, <2>1 DEF Retain
  <2>3. /\ \A m \in Leases : Holds(c, m)' <=> (m = l \/ Holds(c, m))
        /\ \A d \in Contexts, m \in Leases : d # c => (Holds(d, m)' <=> Holds(d, m))
    BY <1>3, <2>2, Pushed
  <2>4. PICK e \in Contexts : Holds(e, l)
    BY <2>1 DEF Reached, Shared
  <2>5. ProcessOf[e] = ProcessOf[c]
    BY <2>1, <2>4 DEF OneProcess, Uses, Shared
  <2>6. Live(p)' = Live(p)
    BY <1>2, <2>3, <2>4, <2>5 DEF Of
  <2>7. Busy(p)' = Busy(p)
    BY <1>3, <1>7 DEF Busy, Of, Shape, Retain
  <2> QED BY <2>2, <2>6, <2>7, <1>1
<1>8. CASE TakePermit(c)
  <2>1. Busy(p)' = IF c \in Of(p) THEN Busy(p) \cup {c} ELSE Busy(p)
    BY <1>3, <1>8, BusyMoves DEF TakePermit
  <2>2. c \notin Busy(p)
    BY <1>8 DEF Busy, TakePermit
  <2>3. Live(p)' = Live(p)
    BY <1>5, <1>8 DEF TakePermit
  <2>4. permits'[p] = IF c \in Of(p) THEN permits[p] - 1 ELSE permits[p]
    BY <1>1, <1>4, <1>8 DEF TakePermit
  <2>5. /\ IsFiniteSet(Busy(p) \cup {c})
        /\ Cardinality(Busy(p) \cup {c}) = Cardinality(Busy(p)) + 1
    BY <1>1, <2>2, FS_AddElement
  <2> QED BY <2>1, <2>3, <2>4, <2>5, <1>1
<1>9. CASE Abandon(c) \/ Post(c)
  <2>1. Busy(p)' = IF c \in Of(p) THEN Busy(p) \ {c} ELSE Busy(p)
    BY <1>3, <1>9, BusyMoves DEF Abandon, Post
  <2>2. c \in Of(p) => c \in Busy(p)
    BY <1>9 DEF Busy, Abandon, Post
  <2>3. Live(p)' = Live(p)
    BY <1>5, <1>9 DEF Abandon, Post
  <2>4. permits'[p] = IF c \in Of(p) THEN permits[p] + 1 ELSE permits[p]
    BY <1>1, <1>4, <1>9 DEF Abandon, Post
  <2>5. /\ IsFiniteSet(Busy(p) \ {c})
        /\ c \in Of(p) => Cardinality(Busy(p) \ {c}) = Cardinality(Busy(p)) - 1
    BY <1>1, <2>2, FS_RemoveElement
  <2> QED BY <2>1, <2>3, <2>4, <2>5, <1>1
<1>10. CASE TakeSlot(c)
  <2>1. PICK l \in Leases : ~InUse(l) /\ held' = [held EXCEPT ![c] = Append(@, l)]
    <3>1. PICK m \in Leases : m = CHOOSE n \in Leases : ~InUse(n)
      BY <1>10 DEF TakeSlot
    <3> QED BY <3>1, <1>10 DEF TakeSlot
  <2>2. /\ \A m \in Leases : Holds(c, m)' <=> (m = l \/ Holds(c, m))
        /\ \A d \in Contexts, m \in Leases : d # c => (Holds(d, m)' <=> Holds(d, m))
    BY <1>3, <2>1, Pushed
  <2>3. l \notin Live(p)
    BY <1>2, <2>1 DEF InUse, Of
  <2>4. Live(p)' = IF c \in Of(p) THEN Live(p) \cup {l} ELSE Live(p)
    BY <1>2, <2>2 DEF Of
  <2>5. Busy(p)' = IF c \in Of(p) THEN Busy(p) \ {c} ELSE Busy(p)
    BY <1>3, <1>10, BusyMoves DEF TakeSlot
  <2>6. c \in Of(p) => c \in Busy(p)
    BY <1>10 DEF Busy, TakeSlot
  <2>7. permits'[p] = permits[p]
    BY <1>10 DEF TakeSlot
  <2>8. /\ IsFiniteSet(Live(p) \cup {l})
        /\ Cardinality(Live(p) \cup {l}) = Cardinality(Live(p)) + 1
    BY <1>1, <2>3, FS_AddElement
  <2>9. /\ IsFiniteSet(Busy(p) \ {c})
        /\ c \in Of(p) => Cardinality(Busy(p) \ {c}) = Cardinality(Busy(p)) - 1
    BY <1>1, <2>6, FS_RemoveElement
  <2> QED BY <2>4, <2>5, <2>7, <2>8, <2>9, <1>1
<1>11. CASE DropReference(c)
  <2>1. UNCHANGED <<pc, permits, current, released>>
    BY <1>11 DEF DropReference
  <2>2. Busy(p)' = Busy(p)
    BY <2>1 DEF Busy, Of
  <2>3. held[c] # <<>> /\ held' = [held EXCEPT ![c] = Outer(c)]
    BY <1>11 DEF DropReference
  <2>4. /\ \A d \in Contexts, m \in Leases : d # c => (Holds(d, m)' <=> Holds(d, m))
        /\ \A m \in Leases : Holds(c, m)' => Holds(c, m)
    BY <1>3, <2>3, Popped
  <2>5. ASSUME NEW l \in Leases, Holds(c, l)
        PROVE  \E d \in Contexts : ProcessOf[d] = ProcessOf[c] /\ Holds(d, l)'
    <3>1. current[c] = l /\ ~released[l]
      BY <2>5, HoldsCurrent DEF Counted, Shared
    <3>2. current'[c] = l /\ ~released'[l]
      BY <2>1, <3>1
    <3>3. PICK d \in Contexts : Holds(d, l)'
      BY <3>2 DEF Reached, Shared
    <3> QED BY <3>2, <3>3 DEF OneProcess, Uses, Shared
  <2>6. Live(p)' = Live(p)
    BY <1>2, <2>4, <2>5 DEF Of
  <2> QED BY <2>1, <2>2, <2>6, <1>1
<1>12. CASE DropLast(c)
  <2>1. PICK l \in Leases :
          /\ Holds(c, l)
          /\ \A d \in Contexts : d # c => ~Holds(d, l)
          /\ \A d \in Contexts, m \in Leases : Holds(d, m)' <=> Holds(d, m) /\ ~(d = c /\ m = l)
    BY <1>12, DropLastKeeps
  <2>2. Live(p)' = IF c \in Of(p) THEN Live(p) \ {l} ELSE Live(p)
    BY <1>2, <2>1 DEF Of
  <2>3. c \in Of(p) => l \in Live(p)
    BY <1>2, <2>1
  <2>4. Busy(p)' = IF c \in Of(p) THEN Busy(p) \cup {c} ELSE Busy(p)
    BY <1>3, <1>12, BusyMoves DEF DropLast
  <2>5. c \notin Busy(p)
    BY <1>12 DEF Busy, DropLast
  <2>6. permits'[p] = permits[p]
    BY <1>12 DEF DropLast
  <2>7. /\ IsFiniteSet(Live(p) \ {l})
        /\ c \in Of(p) => Cardinality(Live(p) \ {l}) = Cardinality(Live(p)) - 1
    BY <1>1, <2>3, FS_RemoveElement
  <2>8. /\ IsFiniteSet(Busy(p) \cup {c})
        /\ Cardinality(Busy(p) \cup {c}) = Cardinality(Busy(p)) + 1
    BY <1>1, <2>5, FS_AddElement
  <2> QED BY <2>2, <2>4, <2>6, <2>7, <2>8, <1>1
<1> QED BY <1>6, <1>7, <1>8, <1>9, <1>10, <1>11, <1>12 DEF Acquire, Release

\* The ends of contexts and processes.
LEMMA ConservedByOthers ==
  ASSUME Shared, Shared', Conserved,
         \/ \E c, d \in Contexts : Fork(c, d)
         \/ \E c \in Contexts : EndContext(c)
         \/ \E p \in Processes : Crash(p)
         \/ UNCHANGED vars
  PROVE  Conserved'
<1> SUFFICES ASSUME NEW q \in Processes
             PROVE  /\ IsFiniteSet(Live(q)') /\ IsFiniteSet(Busy(q)')
                    /\ permits'[q] + Cardinality(Live(q)') + Cardinality(Busy(q)') = Capacity
  BY DEF Conserved
<1>1. /\ IsFiniteSet(Live(q)) /\ IsFiniteSet(Busy(q))
      /\ permits[q] + Cardinality(Live(q)) + Cardinality(Busy(q)) = Capacity
  BY DEF Conserved
<1>2. /\ Live(q) = {l \in Leases : \E d \in Of(q) : Holds(d, l)}
      /\ Live(q)' = {l \in Leases : \E d \in Of(q) : Holds(d, l)'}
  BY LiveHeld, LiveHeldNext
<1>3. CASE UNCHANGED <<pc, held, permits>>
  <2>1. Live(q)' = Live(q) /\ Busy(q)' = Busy(q)
    BY <1>2, <1>3 DEF Holds, Busy, Of
  <2> QED BY <2>1, <1>1, <1>3
<1>4. ASSUME NEW p \in Processes, Crash(p), p = q
      PROVE  /\ Live(q)' = {} /\ Busy(q)' = {} /\ permits'[q] = Capacity
  <2>1. \A c \in Of(q) : held'[c] = <<>> /\ pc'[c] = "idle"
    BY <1>4 DEF Crash, Of
  <2>2. Live(q)' = {} /\ Busy(q)' = {}
    BY <1>2, <2>1 DEF Holds, Busy, Of
  <2>3. permits'[q] = Capacity
    BY <1>4 DEF Crash, Shared, Shape
  <2> QED BY <2>2, <2>3
<1>5. ASSUME NEW p \in Processes, Crash(p), p # q
      PROVE  /\ Live(q)' = Live(q) /\ Busy(q)' = Busy(q) /\ permits'[q] = permits[q]
  <2>1. \A c \in Of(q) : held'[c] = held[c] /\ pc'[c] = pc[c]
    BY <1>5 DEF Crash, Of
  <2>2. Live(q)' = Live(q) /\ Busy(q)' = Busy(q)
    BY <1>2, <2>1 DEF Holds, Busy, Of
  <2>3. permits'[q] = permits[q]
    BY <1>5 DEF Crash, Shared, Shape
  <2> QED BY <2>2, <2>3
<1>6. ASSUME NEW p \in Processes, Crash(p)
      PROVE  /\ IsFiniteSet(Live(q)') /\ IsFiniteSet(Busy(q)')
             /\ permits'[q] + Cardinality(Live(q)') + Cardinality(Busy(q)') = Capacity
  <2>1. CASE p = q
    BY <2>1, <1>4, <1>6, FS_EmptySet, CapacityAssumption
  <2>2. CASE p # q
    BY <2>2, <1>1, <1>5, <1>6
  <2> QED BY <2>1, <2>2
<1>7. (\E c, d \in Contexts : Fork(c, d)) \/ (\E c \in Contexts : EndContext(c)) \/ UNCHANGED vars
        => UNCHANGED <<pc, held, permits>>
  BY DEF Fork, EndContext, vars
<1> QED BY <1>3, <1>6, <1>7

-----------------------------------------------------------------------------
(* The theorems *)

LEMMA InitInv == Init => IInv
<1> SUFFICES ASSUME Init PROVE IInv
  OBVIOUS
<1>1. Capacity \in Nat \ {0} /\ 0 \in Slots /\ 0 \in 0..MaxLeaves
  BY CapacityAssumption DEF Slots
<1>2. Shape
  <2>1. [c \in Contexts |-> <<>>] \in [Contexts -> Seq(Leases)]
    OBVIOUS
  <2> QED BY <2>1, <1>1 DEF Init, Shape, Points
<1>3. \A c \in Contexts : held[c] = <<>> /\ current[c] = None /\ target[c] = None /\ pc[c] = "idle"
  BY DEF Init
<1>4. \A c \in Contexts, l \in Leases : ~Uses(c, l) /\ ~Holds(c, l)
  BY <1>3, NoneAssumption DEF Uses, Holds
<1>5. AtPoint
  BY <1>3 DEF AtPoint
<1>6. Counted /\ Reached /\ OneProcess /\ Unlocking
  BY <1>3, <1>4, NoneAssumption DEF Counted, Reached, OneProcess, Unlocking
<1>7. Conserved
  <2> SUFFICES ASSUME NEW p \in Processes
               PROVE  /\ IsFiniteSet(Live(p)) /\ IsFiniteSet(Busy(p))
                      /\ permits[p] + Cardinality(Live(p)) + Cardinality(Busy(p)) = Capacity
    BY DEF Conserved
  <2>1. Live(p) = {} /\ Busy(p) = {}
    BY <1>3, <1>4 DEF Live, Busy, OwnedBy, Uses, Of
  <2> QED BY <2>1, <1>1, FS_EmptySet DEF Init
<1> QED BY <1>2, <1>5, <1>6, <1>7 DEF IInv, Shared

\* The invariant from which the others follow: a context holds only the lease
\* its context variable names, the references of a lease are its places in the
\* stacks, its slot is its own, and permits and takers make up the capacity.
THEOREM InductiveInvariant == Spec => []IInv
<1>1. IInv /\ [Next]_vars => IInv'
  <2> SUFFICES ASSUME IInv, [Next]_vars PROVE IInv'
    OBVIOUS
  <2>1. Shared'
    BY SharedStep DEF IInv
  <2>2. Conserved'
    BY <2>1, ConservedByContext, ConservedByOthers DEF IInv, Next
  <2> QED BY <2>1, <2>2 DEF IInv
<1> QED BY <1>1, InitInv, PTL DEF Spec

\* Every variable of the gate stays in its type; the value of a semaphore
\* never exceeds the capacity it was made with.
THEOREM TypeCorrect == Spec => []TypeOK
<1>1. IInv => TypeOK
  <2> SUFFICES ASSUME IInv PROVE TypeOK
    OBVIOUS
  <2>1. ASSUME NEW p \in Processes PROVE permits[p] \in 0..Capacity
    <3>1. /\ permits[p] \in Nat /\ Capacity \in Nat
          /\ Cardinality(Live(p)) \in Nat /\ Cardinality(Busy(p)) \in Nat
          /\ permits[p] + Cardinality(Live(p)) + Cardinality(Busy(p)) = Capacity
      BY FS_CardinalityType, CapacityAssumption DEF IInv, Shared, Shape, Conserved
    <3> QED BY <3>1
  <2>2. permits \in [Processes -> 0..Capacity]
    BY <2>1 DEF IInv, Shared, Shape
  <2> QED BY <2>2 DEF IInv, Shared, Shape, TypeOK
<1> QED BY <1>1, InductiveInvariant, PTL

\* Whoever holds a lease, nested or not, has it open and its slot locked: no
\* release of another context and no death of another process takes it.
THEOREM HolderKeepsSlot == Spec => []HolderHasSlot
<1>1. IInv => HolderHasSlot
  BY DEF IInv, Shared, Counted, HolderHasSlot
<1> QED BY <1>1, InductiveInvariant, PTL

\* An actor that holds a slot is never queued for a second one.
THEOREM NeverQueues == Spec => []HolderNeverQueues
<1>1. IInv => HolderNeverQueues
  BY DEF IInv, Shared, AtPoint, HolderNeverQueues
<1> QED BY <1>1, InductiveInvariant, PTL

\* No way out of acquire or release loses a permit or returns one twice.
THEOREM PermitsKept == Spec => []PermitsConserved
<1>1. IInv => PermitsConserved
  BY DEF IInv, Conserved, PermitsConserved, Busy
<1> QED BY <1>1, InductiveInvariant, PTL
=============================================================================
