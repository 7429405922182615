-------------------------- MODULE ProviderCapacity --------------------------
(***************************************************************************)
(* The gate of live research actors (core/provider_capacity.py): a bounded *)
(* semaphore for the threads of one process, lock files slot-<k>.lock for  *)
(* all processes of a run, and a lease, found through a context variable,  *)
(* that nested provider calls retain instead of waiting for a second slot. *)
(*                                                                         *)
(* A context is what a thread runs in: copy_context() hands the variable   *)
(* of an actor to the thread of a tool, and clearing it there leaves the   *)
(* others as they were.                                                    *)
(***************************************************************************)
EXTENDS Integers, Sequences, FiniteSets

CONSTANTS Contexts,
          Processes,
          ProcessOf,   \* ProcessOf[c]: the process of context c
          Leases,      \* identities of BackgroundProviderLease objects
          Capacity,    \* background_provider_capacity(): at least one slot
          MaxDepth,    \* bound: how deep one context nests its acquisitions
          MaxLeaves,   \* bound: how often somebody gives up, fails or dies
          None

ASSUME ContextAssumption == ProcessOf \in [Contexts -> Processes]
ASSUME CapacityAssumption == {Capacity, MaxDepth, MaxLeaves} \subseteq Nat \ {0}
ASSUME NoneAssumption == None \notin Leases

VARIABLES pc,        \* pc[c]: where c is in acquire or release
          current,   \* current[c]: _CURRENT_LEASE in the context c
          held,      \* held[c]: the leases c has to release, innermost last
          target,    \* target[c]: the lease c is retaining or releasing
          next,      \* next[c]: the slot c tries next
          refs,      \* refs[l]: _references of lease l
          released,  \* released[l]: _released of lease l
          slotOf,    \* slotOf[l]: the slot lease l was made for
          slot,      \* slot[k]: the lease whose file holds the lock of slot k
          permits,   \* permits[p]: the value of the semaphore of process p
          leaves     \* bound: how often somebody gave up, failed or died

vars == <<pc, current, held, target, next, refs, released, slotOf, slot, permits, leaves>>

Slots == 0..(Capacity - 1)
Points == {"idle", "retain", "permit", "slots", "unlock", "post"}
Of(p) == {c \in Contexts : ProcessOf[c] = p}

TypeOK ==
  /\ pc \in [Contexts -> Points]
  /\ current \in [Contexts -> Leases \cup {None}]
  /\ held \in [Contexts -> Seq(Leases)]
  /\ target \in [Contexts -> Leases \cup {None}]
  /\ next \in [Contexts -> Slots]
  /\ refs \in [Leases -> Nat]
  /\ released \in [Leases -> BOOLEAN]
  /\ slotOf \in [Leases -> Slots]
  /\ slot \in [Slots -> Leases \cup {None}]
  /\ permits \in [Processes -> 0..Capacity]
  /\ leaves \in 0..MaxLeaves

Init ==
  /\ pc = [c \in Contexts |-> "idle"]
  /\ current = [c \in Contexts |-> None]
  /\ held = [c \in Contexts |-> <<>>]
  /\ target = [c \in Contexts |-> None]
  /\ next = [c \in Contexts |-> 0]
  /\ refs = [l \in Leases |-> 0]
  /\ released = [l \in Leases |-> TRUE]
  /\ slotOf = [l \in Leases |-> 0]
  /\ slot = [k \in Slots |-> None]
  /\ permits = [p \in Processes |-> Capacity]
  /\ leaves = 0

Holds(c, l) == \E i \in DOMAIN held[c] : held[c][i] = l

\* Somebody can still reach the object l.
InUse(l) ==
  \/ \E k \in Slots : slot[k] = l
  \/ \E c \in Contexts : current[c] = l \/ target[c] = l \/ Holds(c, l)

Leaves == leaves < MaxLeaves /\ leaves' = leaves + 1

-----------------------------------------------------------------------------
(* acquire_background_provider_lease *)

\* The inherited lease is looked at without its lock.
Enter(c) ==
  /\ pc[c] = "idle"
  /\ Len(held[c]) < MaxDepth
  /\ \/ /\ current[c] # None /\ ~released[current[c]]
        /\ pc' = [pc EXCEPT ![c] = "retain"]
        /\ target' = [target EXCEPT ![c] = current[c]]
        /\ UNCHANGED current
     \/ /\ current[c] # None => released[current[c]]
        /\ pc' = [pc EXCEPT ![c] = "permit"]
        /\ current' = [current EXCEPT ![c] = None]
        /\ UNCHANGED target
  /\ UNCHANGED <<held, next, refs, released, slotOf, slot, permits, leaves>>

\* Mutant: retain does not look whether the lease was released meanwhile.
Retain_Unchecked(c) ==
  /\ pc[c] = "retain"
  /\ refs' = [refs EXCEPT ![target[c]] = @ + 1]
  /\ held' = [held EXCEPT ![c] = Append(@, target[c])]
  /\ pc' = [pc EXCEPT ![c] = "idle"]
  /\ target' = [target EXCEPT ![c] = None]
  /\ UNCHANGED <<current, next, released, slotOf, slot, permits, leaves>>

Retain(c) ==
  /\ pc[c] = "retain"
  /\ ~released[target[c]]
  /\ refs' = [refs EXCEPT ![target[c]] = @ + 1]
  /\ held' = [held EXCEPT ![c] = Append(@, target[c])]
  /\ pc' = [pc EXCEPT ![c] = "idle"]
  /\ target' = [target EXCEPT ![c] = None]
  /\ UNCHANGED <<current, next, released, slotOf, slot, permits, leaves>>

\* "cannot retain a released background provider lease"
RetainFails(c) ==
  /\ pc[c] = "retain"
  /\ released[target[c]]
  /\ pc' = [pc EXCEPT ![c] = "idle"]
  /\ target' = [target EXCEPT ![c] = None]
  /\ UNCHANGED <<current, held, next, refs, released, slotOf, slot, permits, leaves>>

TakePermit(c) ==
  /\ pc[c] = "permit"
  /\ permits[ProcessOf[c]] > 0
  /\ permits' = [permits EXCEPT ![ProcessOf[c]] = @ - 1]
  /\ pc' = [pc EXCEPT ![c] = "slots"]
  /\ next' = [next EXCEPT ![c] = 0]
  /\ UNCHANGED <<current, held, target, refs, released, slotOf, slot, leaves>>

\* Cancelled, or out of time, before it had a permit.
GiveUp(c) ==
  /\ pc[c] = "permit"
  /\ pc' = [pc EXCEPT ![c] = "idle"]
  /\ Leaves
  /\ UNCHANGED <<current, held, target, next, refs, released, slotOf, slot, permits>>

\* The lock of the next slot is free: a lease for it.
TakeSlot(c) ==
  /\ pc[c] = "slots"
  /\ slot[next[c]] = None
  /\ \E l \in Leases : ~InUse(l)
  /\ LET l == CHOOSE m \in Leases : ~InUse(m) IN
       /\ slot' = [slot EXCEPT ![next[c]] = l]
       /\ slotOf' = [slotOf EXCEPT ![l] = next[c]]
       /\ refs' = [refs EXCEPT ![l] = 1]
       /\ released' = [released EXCEPT ![l] = FALSE]
       /\ current' = [current EXCEPT ![c] = l]
       /\ held' = [held EXCEPT ![c] = Append(@, l)]
  /\ pc' = [pc EXCEPT ![c] = "idle"]
  /\ UNCHANGED <<target, next, permits, leaves>>

\* It is not: the following slot, and after the last, a pause and the first.
SlotBusy(c) ==
  /\ pc[c] = "slots"
  /\ slot[next[c]] # None
  /\ next' = [next EXCEPT ![c] = (@ + 1) % Capacity]
  /\ UNCHANGED <<pc, current, held, target, refs, released, slotOf, slot, permits, leaves>>

\* Mutant: leaving between slots forgets the permit.
Abandon_KeepsPermit(c) ==
  /\ pc[c] = "slots"
  /\ pc' = [pc EXCEPT ![c] = "idle"]
  /\ Leaves
  /\ UNCHANGED <<current, held, target, next, refs, released, slotOf, slot, permits>>

\* Cancelled, out of time or failed between slots: the permit goes back.
Abandon(c) ==
  /\ pc[c] = "slots"
  /\ permits' = [permits EXCEPT ![ProcessOf[c]] = @ + 1]
  /\ pc' = [pc EXCEPT ![c] = "idle"]
  /\ Leaves
  /\ UNCHANGED <<current, held, target, next, refs, released, slotOf, slot>>

-----------------------------------------------------------------------------
(* BackgroundProviderLease.release *)

Innermost(c) == held[c][Len(held[c])]
Outer(c) == SubSeq(held[c], 1, Len(held[c]) - 1)

\* Mutant: every release clears the context variable, not only the last one.
DropReference_Clears(c) ==
  /\ pc[c] = "idle"
  /\ held[c] # <<>>
  /\ refs[Innermost(c)] > 1
  /\ refs' = [refs EXCEPT ![Innermost(c)] = @ - 1]
  /\ held' = [held EXCEPT ![c] = Outer(c)]
  /\ current' = [current EXCEPT ![c] = None]
  /\ UNCHANGED <<pc, target, next, released, slotOf, slot, permits, leaves>>

DropReference(c) ==
  /\ pc[c] = "idle"
  /\ held[c] # <<>>
  /\ refs[Innermost(c)] > 1
  /\ refs' = [refs EXCEPT ![Innermost(c)] = @ - 1]
  /\ held' = [held EXCEPT ![c] = Outer(c)]
  /\ UNCHANGED <<pc, current, target, next, released, slotOf, slot, permits, leaves>>

DropLast(c) ==
  /\ pc[c] = "idle"
  /\ held[c] # <<>>
  /\ refs[Innermost(c)] <= 1
  /\ refs' = [refs EXCEPT ![Innermost(c)] = 0]
  /\ released' = [released EXCEPT ![Innermost(c)] = TRUE]
  /\ target' = [target EXCEPT ![c] = Innermost(c)]
  /\ held' = [held EXCEPT ![c] = Outer(c)]
  /\ pc' = [pc EXCEPT ![c] = "unlock"]
  /\ UNCHANGED <<current, next, slotOf, slot, permits, leaves>>

Unlock(c) ==
  /\ pc[c] = "unlock"
  /\ slot' = [slot EXCEPT ![slotOf[target[c]]] = None]
  /\ pc' = [pc EXCEPT ![c] = "post"]
  /\ UNCHANGED <<current, held, target, next, refs, released, slotOf, permits, leaves>>

\* The permit goes back, and this context forgets the lease: no other does.
Post(c) ==
  /\ pc[c] = "post"
  /\ permits' = [permits EXCEPT ![ProcessOf[c]] = @ + 1]
  /\ current' = [current EXCEPT ![c] = IF @ = target[c] THEN None ELSE @]
  /\ target' = [target EXCEPT ![c] = None]
  /\ pc' = [pc EXCEPT ![c] = "idle"]
  /\ UNCHANGED <<held, next, refs, released, slotOf, slot, leaves>>

-----------------------------------------------------------------------------
(* Contexts come and go *)

\* A tool thread d of the actor c starts in a copy of c's context.
Fork(c, d) ==
  /\ c # d /\ ProcessOf[c] = ProcessOf[d]
  /\ pc[d] = "idle" /\ held[d] = <<>>
  /\ current[c] # current[d]
  /\ current' = [current EXCEPT ![d] = current[c]]
  /\ UNCHANGED <<pc, held, target, next, refs, released, slotOf, slot, permits, leaves>>

\* The thread of c ends, and c stands for the next new thread.
EndContext(c) ==
  /\ pc[c] = "idle" /\ held[c] = <<>> /\ current[c] # None
  /\ current' = [current EXCEPT ![c] = None]
  /\ UNCHANGED <<pc, held, target, next, refs, released, slotOf, slot, permits, leaves>>

OwnedBy(p, l) == \E c \in Of(p) : current[c] = l \/ target[c] = l \/ Holds(c, l)

\* The process dies: the system drops its locks, a new one starts afresh.
Crash(p) ==
  /\ pc' = [c \in Contexts |-> IF c \in Of(p) THEN "idle" ELSE pc[c]]
  /\ current' = [c \in Contexts |-> IF c \in Of(p) THEN None ELSE current[c]]
  /\ held' = [c \in Contexts |-> IF c \in Of(p) THEN <<>> ELSE held[c]]
  /\ target' = [c \in Contexts |-> IF c \in Of(p) THEN None ELSE target[c]]
  /\ slot' = [k \in Slots |-> IF OwnedBy(p, slot[k]) THEN None ELSE slot[k]]
  /\ permits' = [permits EXCEPT ![p] = Capacity]
  /\ Leaves
  /\ UNCHANGED <<next, refs, released, slotOf>>

Acquire(c) ==
  \/ Enter(c) \/ Retain(c) \/ RetainFails(c) \/ TakePermit(c)
  \/ TakeSlot(c) \/ SlotBusy(c)
Release(c) == DropReference(c) \/ DropLast(c) \/ Unlock(c) \/ Post(c)

Next ==
  \/ \E c \in Contexts : Acquire(c) \/ GiveUp(c) \/ Abandon(c) \/ Release(c) \/ EndContext(c)
  \/ \E c, d \in Contexts : Fork(c, d)
  \/ \E p \in Processes : Crash(p)

Spec == Init /\ [][Next]_vars

\* A thread of Python that can go on does; giving up, forking and dying are
\* never required.  TakePermit is a wait on a semaphore that others may win.
FairSpec ==
  /\ Spec
  /\ \A c \in Contexts : WF_vars(Acquire(c)) /\ WF_vars(Release(c))

-----------------------------------------------------------------------------
(* What the gate promises *)

\* An actor between its acquisition and its release, nested or not, has its
\* lease open and the lock of its slot: no release of another context that
\* shares the lease, and no death of another process, takes it away.
HolderHasSlot ==
  \A c \in Contexts, l \in Leases :
    Holds(c, l) => ~released[l] /\ slot[slotOf[l]] = l

\* "Nested provider and auxiliary calls retain the actor's lease": an actor
\* that has a slot is never queued for another, where it could wait for itself.
HolderNeverQueues ==
  \A c \in Contexts : held[c] # <<>> => pc[c] \notin {"permit", "slots"}

Live(p) == {l \in Leases : ~released[l] /\ OwnedBy(p, l)}

\* The permits of a process and the actors that took one make its capacity:
\* no way out of acquire or release loses a permit, or returns one twice
\* (a BoundedSemaphore would raise).
PermitsConserved ==
  \A p \in Processes :
    permits[p] + Cardinality(Live(p))
      + Cardinality({c \in Of(p) : pc[c] \in {"slots", "unlock", "post"}}) = Capacity

\* Queued(c): c has no slot and waits for one.
Queued(c) == pc[c] \in {"permit", "slots"}

\* An actor that is queued gets a slot, gives up, or sees that another holds
\* one: permits and slots that were used, abandoned or lost in a crash all
\* come back.
QueueMoves ==
  \A c \in Contexts : Queued(c) ~> (~Queued(c) \/ \E k \in Slots : slot[k] # None)
=============================================================================
