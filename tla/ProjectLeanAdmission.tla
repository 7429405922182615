------------------------ MODULE ProjectLeanAdmission ------------------------
(***************************************************************************)
(* The project-wide slot for Lean-heavy work                               *)
(* (core/project_resource_admission.py): a lock file shared by all         *)
(* processes of a project, a lock of each process for its own threads, and *)
(* marker files by which foreground work keeps background workers from     *)
(* being admitted.                                                         *)
(*                                                                         *)
(* A marker is active while its owner holds it locked (waiter) or, once    *)
(* unlocked, until the deadline written into it passes (grace, lease); an  *)
(* inactive one is unlinked by the next scan and is not represented.  The  *)
(* deadlines one thread left behind count as one, the latest.              *)
(***************************************************************************)
EXTENDS Integers

CONSTANTS Threads,
          Processes,
          ProcessOf,     \* ProcessOf[t]: the process of thread t
          Background,    \* the dispatch worker processes
          DefaultGrace,  \* whether LEANFLOW's default handoff grace is positive
          MarkerFaults,  \* whether the files of the markers may fail
          MaxDepth,      \* bound: how deep one thread nests its admissions
          None

ASSUME ProcessAssumption ==
  /\ ProcessOf \in [Threads -> Processes]
  /\ Background \subseteq Processes
ASSUME SettingsAssumption ==
  /\ {DefaultGrace, MarkerFaults} \subseteq BOOLEAN
  /\ MaxDepth \in Nat \ {0}
ASSUME NoneAssumption == None \notin Threads

VARIABLES pc,       \* pc[t]: where thread t is in project_lean_heavy_admission
          depth,    \* depth[t]: its nested admissions
          gate,     \* gate[p]: the thread that holds the lock of process p
          slot,     \* the thread whose file handle holds lean-heavy.lock
          sticky,   \* sticky[p]: p retains the slot until it exits
          retain,   \* retain[t]: the admission of t is to be retained
          handoff,  \* handoff[t]: t asked for a handoff lease
          waiter,   \* waiter[t]: t holds a locked marker
          armed,    \* armed[t]: the marker t holds carries a deadline
          grace,    \* grace[t]: t left an unlocked marker, not yet expired
          lease,    \* lease[t]: t published a priority lease, not yet expired
          promised  \* history: t was granted a handoff that has not run out

vars == <<pc, depth, gate, slot, sticky, retain, handoff,
          waiter, armed, grace, lease, promised>>

Foreground == {t \in Threads : ProcessOf[t] \notin Background}
BackgroundThreads == Threads \ Foreground

Points == {"idle", "gate", "flock", "scan", "try", "rescan", "held",
           "unlock", "clear", "ungate"}

TypeOK ==
  /\ pc \in [Threads -> Points]
  /\ depth \in [Threads -> 0..MaxDepth]
  /\ gate \in [Processes -> Threads \cup {None}]
  /\ slot \in Threads \cup {None}
  /\ sticky \in [Processes -> BOOLEAN]
  /\ retain \in [Threads -> BOOLEAN]
  /\ handoff \in [Threads -> BOOLEAN]
  /\ waiter \in [Threads -> BOOLEAN]
  /\ armed \in [Threads -> BOOLEAN]
  /\ grace \in [Threads -> BOOLEAN]
  /\ lease \in [Threads -> BOOLEAN]
  /\ promised \in [Threads -> BOOLEAN]

Init ==
  /\ pc = [t \in Threads |-> "idle"]
  /\ depth = [t \in Threads |-> 0]
  /\ gate = [p \in Processes |-> None]
  /\ slot = None
  /\ sticky = [p \in Processes |-> FALSE]
  /\ retain = [t \in Threads |-> FALSE]
  /\ handoff = [t \in Threads |-> FALSE]
  /\ waiter = [t \in Threads |-> FALSE]
  /\ armed = [t \in Threads |-> FALSE]
  /\ grace = [t \in Threads |-> FALSE]
  /\ lease = [t \in Threads |-> FALSE]
  /\ promised = [t \in Threads |-> FALSE]
-----------------------------------------------------------------------------
Goto(t, point) == pc' = [pc EXCEPT ![t] = point]

\* _foreground_waiter_exists: some marker is locked or carries a live deadline.
ForegroundWaiterExists == \E t \in Threads : waiter[t] \/ grace[t] \/ lease[t]

\* A foreground thread publishes its locked marker before it waits for anything.
Request(t) ==
  /\ pc[t] = "idle"
  /\ waiter' = [waiter EXCEPT ![t] = t \in Foreground]
  /\ Goto(t, "gate")
  /\ UNCHANGED <<depth, gate, slot, sticky, retain, handoff, armed, grace, lease, promised>>

AcquireGate(t) ==
  LET p == ProcessOf[t]
  IN  /\ pc[t] = "gate"
      /\ ~sticky[p]
      /\ gate[p] = None
      /\ gate' = [gate EXCEPT ![p] = t]
      /\ Goto(t, IF t \in Foreground THEN "flock" ELSE "scan")
      /\ UNCHANGED <<depth, slot, sticky, retain, handoff, waiter, armed, grace, lease, promised>>

\* Mutant: the sticky gate is looked up only once the lock is obtained.
RefuseRetained_OnceLocked(t) ==
  /\ pc[t] = "gate"
  /\ gate[ProcessOf[t]] = None
  /\ sticky[ProcessOf[t]]
  /\ waiter' = [waiter EXCEPT ![t] = FALSE]
  /\ Goto(t, "idle")
  /\ UNCHANGED <<depth, gate, slot, sticky, retain, handoff, armed, grace, lease, promised>>

\* A retained gate never opens again: its waiters raise instead of hanging.
RefuseRetained(t) ==
  /\ pc[t] = "gate"
  /\ sticky[ProcessOf[t]]
  /\ waiter' = [waiter EXCEPT ![t] = FALSE]
  /\ Goto(t, "idle")
  /\ UNCHANGED <<depth, gate, slot, sticky, retain, handoff, armed, grace, lease, promised>>

\* The foreground blocks on the file lock.
LockFile(t) ==
  /\ pc[t] = "flock"
  /\ slot = None
  /\ slot' = t
  /\ depth' = [depth EXCEPT ![t] = 1]
  /\ Goto(t, "held")
  /\ UNCHANGED <<gate, sticky, retain, handoff, waiter, armed, grace, lease, promised>>

\* The background looks for foreground markers, tries the lock, looks again.
Scan(t) ==
  /\ pc[t] = "scan"
  /\ ~ForegroundWaiterExists
  /\ Goto(t, "try")
  /\ UNCHANGED <<depth, gate, slot, sticky, retain, handoff, waiter, armed, grace, lease, promised>>

TryLockFile(t) ==
  /\ pc[t] = "try"
  /\ IF slot = None
       THEN slot' = t /\ Goto(t, "rescan")
       ELSE Goto(t, "scan") /\ UNCHANGED slot
  /\ UNCHANGED <<depth, gate, sticky, retain, handoff, waiter, armed, grace, lease, promised>>

\* Mutant: the slot once obtained is kept without a second look.
Rescan_Skipped(t) ==
  /\ pc[t] = "rescan"
  /\ depth' = [depth EXCEPT ![t] = 1]
  /\ Goto(t, "held")
  /\ UNCHANGED <<gate, slot, sticky, retain, handoff, waiter, armed, grace, lease, promised>>

Rescan(t) ==
  /\ pc[t] = "rescan"
  /\ IF ForegroundWaiterExists
       THEN slot' = None /\ Goto(t, "scan") /\ UNCHANGED depth
       ELSE Goto(t, "held") /\ depth' = [depth EXCEPT ![t] = 1] /\ UNCHANGED slot
  /\ UNCHANGED <<gate, sticky, retain, handoff, waiter, armed, grace, lease, promised>>

\* The locked marker is always given up, but the exception of a failed cleanup
\* skips what follows it, the release of the process's lock.
CleanupRaises(t) == IF MarkerFaults /\ t \in Foreground THEN BOOLEAN ELSE {FALSE}

\* Mutant: the lock of the process is not given back.
Abandon_KeepsGate(t) ==
  /\ pc[t] \in {"gate", "flock", "scan", "try", "rescan"}
  /\ slot' = IF pc[t] = "rescan" THEN None ELSE slot
  /\ waiter' = [waiter EXCEPT ![t] = FALSE]
  /\ Goto(t, "idle")
  /\ UNCHANGED <<depth, gate, sticky, retain, handoff, armed, grace, lease, promised>>

\* An exception while waiting: what was taken so far is given back.
Abandon(t) ==
  /\ pc[t] \in {"gate", "flock", "scan", "try", "rescan"}
  /\ slot' = IF pc[t] = "rescan" THEN None ELSE slot
  /\ waiter' = [waiter EXCEPT ![t] = FALSE]
  /\ \E raises \in CleanupRaises(t) :
       Goto(t, IF pc[t] = "gate" \/ raises THEN "idle" ELSE "ungate")
  /\ UNCHANGED <<depth, gate, sticky, retain, handoff, armed, grace, lease, promised>>
-----------------------------------------------------------------------------
(* Inside the admission *)

EnterNested(t) ==
  /\ pc[t] = "held"
  /\ depth[t] < MaxDepth
  /\ depth' = [depth EXCEPT ![t] = @ + 1]
  /\ UNCHANGED <<pc, gate, slot, sticky, retain, handoff, waiter, armed, grace, lease, promised>>

\* Mutant: the depth is not looked at.
LeaveNested_Unguarded(t) ==
  /\ pc[t] = "held"
  /\ depth' = [depth EXCEPT ![t] = @ - 1]
  /\ UNCHANGED <<pc, gate, slot, sticky, retain, handoff, waiter, armed, grace, lease, promised>>

\* Mutant: every scope has the file handle and closes it.
LeaveNested_ClosesHandle(t) ==
  /\ pc[t] = "held"
  /\ depth[t] > 1
  /\ depth' = [depth EXCEPT ![t] = @ - 1]
  /\ slot' = None
  /\ UNCHANGED <<pc, gate, sticky, retain, handoff, waiter, armed, grace, lease, promised>>

LeaveNested(t) ==
  /\ pc[t] = "held"
  /\ depth[t] > 1
  /\ depth' = [depth EXCEPT ![t] = @ - 1]
  /\ UNCHANGED <<pc, gate, slot, sticky, retain, handoff, waiter, armed, grace, lease, promised>>

RetainUntilProcessExit(t) ==
  /\ pc[t] = "held"
  /\ ~retain[t]
  /\ retain' = [retain EXCEPT ![t] = TRUE]
  /\ UNCHANGED <<pc, depth, gate, slot, sticky, handoff, waiter, armed, grace, lease, promised>>

ReserveForegroundHandoff(t) ==
  /\ pc[t] = "held"
  /\ ~handoff[t]
  /\ handoff' = [handoff EXCEPT ![t] = TRUE]
  /\ UNCHANGED <<pc, depth, gate, slot, sticky, retain, waiter, armed, grace, lease, promised>>
-----------------------------------------------------------------------------
(* Leaving the outer admission *)

\* Mutant: the file lock is released although the slot is retained.
Leave_DropsRetained(t) ==
  /\ pc[t] = "held"
  /\ depth[t] = 1
  /\ depth' = [depth EXCEPT ![t] = 0]
  /\ sticky' = [sticky EXCEPT ![ProcessOf[t]] = @ \/ retain[t]]
  /\ handoff' = [handoff EXCEPT ![t] = FALSE]
  /\ Goto(t, "unlock")
  /\ UNCHANGED <<gate, slot, retain, waiter, armed, grace, lease, promised>>

\* A retained slot stays locked behind a sticky gate; otherwise a foreground
\* owner writes the deadline into its marker while it still holds the slot.
Leave(t) ==
  /\ pc[t] = "held"
  /\ depth[t] = 1
  /\ depth' = [depth EXCEPT ![t] = 0]
  /\ sticky' = [sticky EXCEPT ![ProcessOf[t]] = @ \/ retain[t]]
  /\ \E written \in IF MarkerFaults THEN BOOLEAN ELSE {TRUE} :
       LET arms == written /\ ~retain[t] /\ t \in Foreground /\ (handoff[t] \/ DefaultGrace)
       IN  /\ armed' = [armed EXCEPT ![t] = arms]
           /\ promised' = [promised EXCEPT ![t] = @ \/ arms]
  /\ handoff' = [handoff EXCEPT ![t] = FALSE]
  /\ Goto(t, IF retain[t] THEN "clear" ELSE "unlock")
  /\ UNCHANGED <<gate, slot, retain, waiter, grace, lease>>

UnlockFile(t) ==
  /\ pc[t] = "unlock"
  /\ slot' = None
  /\ Goto(t, "clear")
  /\ UNCHANGED <<depth, gate, sticky, retain, handoff, waiter, armed, grace, lease, promised>>

\* The marker is unlocked; one with a deadline stays behind.
ClearWaiter(t) ==
  /\ pc[t] = "clear"
  /\ waiter' = [waiter EXCEPT ![t] = FALSE]
  /\ armed' = [armed EXCEPT ![t] = FALSE]
  /\ grace' = [grace EXCEPT ![t] = @ \/ armed[t]]
  /\ retain' = [retain EXCEPT ![t] = FALSE]
  /\ \E raises \in CleanupRaises(t) :
       Goto(t, IF retain[t] \/ raises THEN "idle" ELSE "ungate")
  /\ UNCHANGED <<depth, gate, slot, sticky, handoff, lease, promised>>

ReleaseGate(t) ==
  /\ pc[t] = "ungate"
  /\ gate' = [gate EXCEPT ![ProcessOf[t]] = None]
  /\ Goto(t, "idle")
  /\ UNCHANGED <<depth, slot, sticky, retain, handoff, waiter, armed, grace, lease, promised>>
-----------------------------------------------------------------------------
(* Priority leases, deadlines and process exit *)

\* A marker with a deadline, published before the foreground needs the slot.
ReservePriorityLease(t) ==
  /\ pc[t] = "idle"
  /\ t \in Foreground
  /\ ~lease[t]
  /\ lease' = [lease EXCEPT ![t] = TRUE]
  /\ UNCHANGED <<pc, depth, gate, slot, sticky, retain, handoff, waiter, armed, grace, promised>>

\* release consumes the lease; its deadline may also pass first.
EndPriorityLease(t) ==
  /\ lease[t]
  /\ lease' = [lease EXCEPT ![t] = FALSE]
  /\ UNCHANGED <<pc, depth, gate, slot, sticky, retain, handoff, waiter, armed, grace, promised>>

\* The deadline of a handoff passes.
ExpireGrace(t) ==
  /\ promised[t]
  /\ promised' = [promised EXCEPT ![t] = FALSE]
  /\ armed' = [armed EXCEPT ![t] = FALSE]
  /\ grace' = [grace EXCEPT ![t] = FALSE]
  /\ UNCHANGED <<pc, depth, gate, slot, sticky, retain, handoff, waiter, lease>>

ThreadsOf(p) == {t \in Threads : ProcessOf[t] = p}

\* A finalizing process removes the unlocked markers that carry its pid.
ReclaimWaiters(p) ==
  /\ \E t \in ThreadsOf(p) : grace[t] \/ lease[t]
  /\ grace' = [t \in Threads |-> grace[t] /\ t \notin ThreadsOf(p)]
  /\ lease' = [t \in Threads |-> lease[t] /\ t \notin ThreadsOf(p)]
  /\ promised' = [t \in Threads |-> promised[t] /\ (t \in ThreadsOf(p) => armed[t])]
  /\ UNCHANGED <<pc, depth, gate, slot, sticky, retain, handoff, waiter, armed>>

Reset(f, p, value) == [t \in Threads |-> IF t \in ThreadsOf(p) THEN value ELSE f[t]]

\* Mutant: a marker counts as long as its file exists.
ExitProcess_MarkersStay(p) ==
  /\ gate[p] # None \/ \E t \in ThreadsOf(p) : pc[t] # "idle"
  /\ pc' = Reset(pc, p, "idle")
  /\ depth' = Reset(depth, p, 0)
  /\ gate' = [gate EXCEPT ![p] = None]
  /\ slot' = IF slot \in ThreadsOf(p) THEN None ELSE slot
  /\ sticky' = [sticky EXCEPT ![p] = FALSE]
  /\ retain' = Reset(retain, p, FALSE)
  /\ handoff' = Reset(handoff, p, FALSE)
  /\ armed' = Reset(armed, p, FALSE)
  /\ grace' = [t \in Threads |-> grace[t] \/ (t \in ThreadsOf(p) /\ armed[t])]
  /\ UNCHANGED <<waiter, lease, promised>>

\* The process dies or exits, and is started anew: the system drops all its
\* locks, and of its markers only those with a deadline stay active.
ExitProcess(p) ==
  /\ gate[p] # None \/ \E t \in ThreadsOf(p) : pc[t] # "idle"
  /\ pc' = Reset(pc, p, "idle")
  /\ depth' = Reset(depth, p, 0)
  /\ gate' = [gate EXCEPT ![p] = None]
  /\ slot' = IF slot \in ThreadsOf(p) THEN None ELSE slot
  /\ sticky' = [sticky EXCEPT ![p] = FALSE]
  /\ retain' = Reset(retain, p, FALSE)
  /\ handoff' = Reset(handoff, p, FALSE)
  /\ waiter' = Reset(waiter, p, FALSE)
  /\ armed' = Reset(armed, p, FALSE)
  /\ grace' = [t \in Threads |-> grace[t] \/ (t \in ThreadsOf(p) /\ armed[t])]
  /\ UNCHANGED <<lease, promised>>
-----------------------------------------------------------------------------
ThreadStep(t) ==
  \/ Request(t) \/ AcquireGate(t) \/ RefuseRetained(t) \/ LockFile(t)
  \/ Scan(t) \/ TryLockFile(t) \/ Rescan(t) \/ Abandon(t)
  \/ EnterNested(t) \/ LeaveNested(t)
  \/ RetainUntilProcessExit(t) \/ ReserveForegroundHandoff(t)
  \/ Leave(t) \/ UnlockFile(t) \/ ClearWaiter(t) \/ ReleaseGate(t)
  \/ ReservePriorityLease(t) \/ EndPriorityLease(t) \/ ExpireGrace(t)

Next ==
  \/ \E t \in Threads : ThreadStep(t)
  \/ \E p \in Processes : ReclaimWaiters(p) \/ ExitProcess(p)

Spec == Init /\ [][Next]_vars

\* Locks are granted to those who keep waiting for them, Lean work is bounded
\* by timeouts, pollers keep polling and clocks keep running.  Nothing is
\* assumed of requests, retention, leases, failures and exits.
Fairness ==
  \A t \in Threads :
    /\ SF_vars(AcquireGate(t)) /\ SF_vars(LockFile(t))
    /\ WF_vars(RefuseRetained(t))
    /\ WF_vars(Scan(t)) /\ WF_vars(TryLockFile(t)) /\ WF_vars(Rescan(t))
    /\ WF_vars(LeaveNested(t)) /\ SF_vars(Leave(t))
    /\ WF_vars(UnlockFile(t)) /\ WF_vars(ClearWaiter(t)) /\ WF_vars(ReleaseGate(t))
    /\ WF_vars(ExpireGrace(t)) /\ WF_vars(EndPriorityLease(t))

FairSpec == Spec /\ Fairness
-----------------------------------------------------------------------------
(* Properties *)

\* Lean-heavy work of the project runs in one thread at a time, over all its
\* processes and whatever nests, fails, is retained or crashes.
MutualExclusion ==
  \A t, u \in Threads : pc[t] = "held" /\ pc[u] = "held" => t = u

\* A slot retained because a resident Lean service did not close stays with
\* that process until it exits, and no thread of any process is admitted.
RetainedHoldsSlot ==
  \A p \in Processes : sticky[p] =>
    /\ slot # None /\ ProcessOf[slot] = p
    /\ \A t \in Threads : pc[t] # "held"

Waiting(t) == pc[t] \in {"gate", "flock"}

\* No background worker is admitted while a foreground thread waits, while a
\* handoff granted to the foreground has not run out, or while a priority
\* lease lasts: also not in the instant in which the foreground lets go.
BackgroundYields ==
  [][\A b \in BackgroundThreads, t \in Foreground :
       pc[b] # "held" /\ pc'[b] = "held" => ~Waiting(t) /\ ~promised[t] /\ ~lease[t]]_vars

\* Who waits for the admission is admitted or told so, unless a process
\* retains the slot: no cycle of gates, slot and markers holds everyone up.
ForegroundAdmitted ==
  \A t \in Foreground :
    Waiting(t) ~> pc[t] \notin {"gate", "flock"} \/ \E p \in Processes : sticky[p]

\* A thread that waits in a process that retains the slot is refused promptly,
\* also if the retention came after it began to wait.
RetainedRefuses ==
  \A t \in Threads : (pc[t] = "gate" /\ sticky[ProcessOf[t]]) ~> pc[t] # "gate"

\* When the foreground rests, a background worker is not held up for ever by
\* the markers that finished, failed or crashed foreground work left behind.
BackgroundProceeds ==
  ( /\ <>[](\A t \in Foreground : pc[t] = "idle" /\ ~lease[t])
    /\ <>[](\A p \in Processes : ~sticky[p]) )
  => \A b \in BackgroundThreads : []<>(pc[b] \notin {"gate", "scan", "try", "rescan"})
=============================================================================
