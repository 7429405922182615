---------------------- MODULE ProjectLeanAdmission_proofs ----------------------
(***************************************************************************)
(* Safety of the project slot for any threads, processes and nesting.      *)
(* Who is past the gate owns the lock of its process (GateOwned); who is   *)
(* past the file lock owns the slot (SlotOwned); a retained slot belongs   *)
(* to a thread that has left (RetainedOwned); foreground threads show      *)
(* their markers while they wait (MarkersShown).                           *)
(***************************************************************************)
EXTENDS ProjectLeanAdmission, TLAPS

PastGate == Points \ {"idle", "gate"}

GateOwned == \A t \in Threads : pc[t] \in PastGate => gate[ProcessOf[t]] = t

SlotOwned == \A t \in Threads : pc[t] \in {"rescan", "held", "unlock"} => slot = t

RetainedOwned ==
  \A p \in Processes : sticky[p] =>
    /\ slot \in Threads
    /\ ProcessOf[slot] = p
    /\ gate[p] = slot
    /\ pc[slot] \in {"idle", "gate"} \/ (pc[slot] = "clear" /\ retain[slot])

MarkersShown ==
  \A t \in Threads :
    /\ pc[t] = "flock" => t \in Foreground
    /\ pc[t] \in {"scan", "try", "rescan"} => t \notin Foreground
    /\ t \in Foreground /\ pc[t] \in {"gate", "flock", "held", "unlock", "clear"} => waiter[t]
    /\ armed[t] => pc[t] \in {"unlock", "clear"} /\ t \in Foreground
    /\ promised[t] => armed[t] \/ grace[t]

IInv == TypeOK /\ GateOwned /\ SlotOwned /\ RetainedOwned /\ MarkersShown
-----------------------------------------------------------------------------
\* Type correctness of one step of a thread.
LEMMA ThreadStepTypeOK ==
  ASSUME TypeOK, NEW t \in Threads, ThreadStep(t)
  PROVE  TypeOK'
<1> USE ProcessAssumption, SettingsAssumption, NoneAssumption
<1>1. CASE Request(t)
  BY <1>1 DEF TypeOK, Request, Goto, Points
<1>2. CASE AcquireGate(t)
  BY <1>2 DEF TypeOK, AcquireGate, Goto, Points
<1>3. CASE RefuseRetained(t)
  BY <1>3 DEF TypeOK, RefuseRetained, Goto, Points
<1>4. CASE LockFile(t)
  BY <1>4 DEF TypeOK, LockFile, Goto, Points
<1>5. CASE Scan(t)
  BY <1>5 DEF TypeOK, Scan, Goto, Points
<1>6. CASE TryLockFile(t)
  BY <1>6 DEF TypeOK, TryLockFile, Goto, Points
<1>7. CASE Rescan(t)
  BY <1>7 DEF TypeOK, Rescan, Goto, Points
<1>8. CASE Abandon(t)
  BY <1>8 DEF TypeOK, Abandon, Goto, Points, CleanupRaises
<1>9. CASE EnterNested(t)
  BY <1>9 DEF TypeOK, EnterNested
<1>10. CASE LeaveNested(t)
  BY <1>10 DEF TypeOK, LeaveNested
<1>11. CASE RetainUntilProcessExit(t)
  BY <1>11 DEF TypeOK, RetainUntilProcessExit
<1>12. CASE ReserveForegroundHandoff(t)
  BY <1>12 DEF TypeOK, ReserveForegroundHandoff
<1>13. CASE Leave(t)
  BY <1>13 DEF TypeOK, Leave, Goto, Points
<1>14. CASE UnlockFile(t)
  BY <1>14 DEF TypeOK, UnlockFile, Goto, Points
<1>15. CASE ClearWaiter(t)
  BY <1>15 DEF TypeOK, ClearWaiter, Goto, Points, CleanupRaises
<1>16. CASE ReleaseGate(t)
  BY <1>16 DEF TypeOK, ReleaseGate, Goto, Points
<1>17. CASE ReservePriorityLease(t)
  BY <1>17 DEF TypeOK, ReservePriorityLease
<1>18. CASE EndPriorityLease(t)
  BY <1>18 DEF TypeOK, EndPriorityLease
<1>19. CASE ExpireGrace(t)
  BY <1>19 DEF TypeOK, ExpireGrace
<1> QED
  BY <1>1, <1>2, <1>3, <1>4, <1>5, <1>6, <1>7, <1>8, <1>9, <1>10, <1>11, <1>12,
     <1>13, <1>14, <1>15, <1>16, <1>17, <1>18, <1>19 DEF ThreadStep

\* Resetting the threads of a process keeps the type of a thread variable.
LEMMA ResetType ==
  ASSUME NEW S, NEW f \in [Threads -> S], NEW value \in S, NEW p
  PROVE  /\ Reset(f, p, value) \in [Threads -> S]
         /\ \A t \in Threads :
              Reset(f, p, value)[t] = IF ProcessOf[t] = p THEN value ELSE f[t]
BY DEF Reset, ThreadsOf

\* Type correctness of the exit of a process.
LEMMA ExitProcessTypeOK ==
  ASSUME TypeOK, NEW p \in Processes, ExitProcess(p)
  PROVE  TypeOK'
<1>1. pc' \in [Threads -> Points]
  BY ResetType DEF TypeOK, ExitProcess, Points
<1>2. depth' \in [Threads -> 0..MaxDepth]
  <2>1. 0 \in 0..MaxDepth /\ depth \in [Threads -> 0..MaxDepth]
    BY SettingsAssumption DEF TypeOK
  <2>2. depth' = Reset(depth, p, 0)
    BY DEF ExitProcess
  <2> QED
    BY <2>1, <2>2, ResetType
<1>3. /\ retain' \in [Threads -> BOOLEAN]
      /\ handoff' \in [Threads -> BOOLEAN]
      /\ waiter' \in [Threads -> BOOLEAN]
      /\ armed' \in [Threads -> BOOLEAN]
  BY ResetType DEF TypeOK, ExitProcess
<1>4. grace' \in [Threads -> BOOLEAN]
  BY DEF TypeOK, ExitProcess
<1>5. /\ gate' \in [Processes -> Threads \cup {None}]
      /\ slot' \in Threads \cup {None}
      /\ sticky' \in [Processes -> BOOLEAN]
      /\ lease' \in [Threads -> BOOLEAN]
      /\ promised' \in [Threads -> BOOLEAN]
  BY DEF TypeOK, ExitProcess
<1> QED
  BY <1>1, <1>2, <1>3, <1>4, <1>5 DEF TypeOK

\* Type correctness of every step.
LEMMA NextTypeOK == TypeOK /\ [Next]_vars => TypeOK'
<1> SUFFICES ASSUME TypeOK, [Next]_vars PROVE TypeOK'
  OBVIOUS
<1>1. ASSUME NEW t \in Threads, ThreadStep(t) PROVE TypeOK'
  BY <1>1, ThreadStepTypeOK
<1>2. ASSUME NEW p \in Processes, ReclaimWaiters(p) PROVE TypeOK'
  BY <1>2 DEF TypeOK, ReclaimWaiters
<1>3. ASSUME NEW p \in Processes, ExitProcess(p) PROVE TypeOK'
  BY <1>3, ExitProcessTypeOK
<1>4. CASE UNCHANGED vars
  BY <1>4 DEF TypeOK, vars
<1> QED
  BY <1>1, <1>2, <1>3, <1>4 DEF Next
-----------------------------------------------------------------------------
\* A thread that enters, waits, leaves or gives up keeps the ownership of
\* gates and slot: only the owner releases what it owns.
LEMMA ThreadStepOwnership ==
  ASSUME IInv, TypeOK', NEW t \in Threads, ThreadStep(t)
  PROVE  GateOwned' /\ SlotOwned' /\ RetainedOwned'
<1> USE ProcessAssumption, NoneAssumption
<1> USE DEF IInv, TypeOK, GateOwned, SlotOwned, RetainedOwned, PastGate, Points
<1>1. CASE Request(t)
  BY <1>1 DEF Request, Goto
<1>2. CASE AcquireGate(t)
  BY <1>2 DEF AcquireGate, Goto
<1>3. CASE RefuseRetained(t)
  BY <1>3 DEF RefuseRetained, Goto
<1>4. CASE LockFile(t)
  BY <1>4 DEF LockFile, Goto
<1>5. CASE Scan(t)
  BY <1>5 DEF Scan, Goto
<1>6. CASE TryLockFile(t)
  BY <1>6 DEF TryLockFile, Goto
<1>7. CASE Rescan(t)
  BY <1>7 DEF Rescan, Goto
<1>8. CASE Abandon(t)
  BY <1>8 DEF Abandon, Goto
<1>9. CASE EnterNested(t)
  BY <1>9 DEF EnterNested
<1>10. CASE LeaveNested(t)
  BY <1>10 DEF LeaveNested
<1>11. CASE RetainUntilProcessExit(t)
  BY <1>11 DEF RetainUntilProcessExit
<1>12. CASE ReserveForegroundHandoff(t)
  BY <1>12 DEF ReserveForegroundHandoff
<1>13. CASE Leave(t)
  BY <1>13 DEF Leave, Goto
<1>14. CASE UnlockFile(t)
  BY <1>14 DEF UnlockFile, Goto
<1>15. CASE ClearWaiter(t)
  BY <1>15 DEF ClearWaiter, Goto
<1>16. CASE ReleaseGate(t)
  BY <1>16 DEF ReleaseGate, Goto
<1>17. CASE ReservePriorityLease(t) \/ EndPriorityLease(t) \/ ExpireGrace(t)
  BY <1>17 DEF ReservePriorityLease, EndPriorityLease, ExpireGrace
<1> QED
  BY <1>1, <1>2, <1>3, <1>4, <1>5, <1>6, <1>7, <1>8, <1>9, <1>10, <1>11, <1>12,
     <1>13, <1>14, <1>15, <1>16, <1>17 DEF ThreadStep

\* A thread that waits shows its marker, and a granted handoff keeps a
\* deadline in a file, over every step of a thread.
LEMMA ThreadStepMarkers ==
  ASSUME IInv, TypeOK', NEW t \in Threads, ThreadStep(t)
  PROVE  MarkersShown'
<1> USE DEF IInv, TypeOK, MarkersShown, Points
<1>1. CASE Request(t)
  <2>1. pc'[t] = "gate" /\ (t \in Foreground => waiter'[t])
    BY <1>1 DEF Request, Goto
  <2>2. ~armed[t]
    BY <1>1 DEF Request
  <2>3. \A u \in Threads \ {t} : pc'[u] = pc[u] /\ waiter'[u] = waiter[u]
    BY <1>1 DEF Request, Goto
  <2>4. UNCHANGED <<armed, promised, grace>>
    BY <1>1 DEF Request
  <2> QED
    BY <2>1, <2>2, <2>3, <2>4
<1>2. CASE AcquireGate(t)
  BY <1>2 DEF AcquireGate, Goto
<1>3. CASE RefuseRetained(t)
  BY <1>3 DEF RefuseRetained, Goto
<1>4. CASE LockFile(t)
  BY <1>4 DEF LockFile, Goto
<1>5. CASE Scan(t)
  BY <1>5 DEF Scan, Goto
<1>6. CASE TryLockFile(t)
  BY <1>6 DEF TryLockFile, Goto
<1>7. CASE Rescan(t)
  BY <1>7 DEF Rescan, Goto
<1>8. CASE Abandon(t)
  <2>1. ~armed[t] /\ pc'[t] \in {"idle", "ungate"}
    BY <1>8 DEF Abandon, Goto
  <2>2. \A u \in Threads \ {t} : pc'[u] = pc[u] /\ waiter'[u] = waiter[u]
    BY <1>8 DEF Abandon, Goto
  <2>3. UNCHANGED <<armed, promised, grace>>
    BY <1>8 DEF Abandon
  <2> QED
    BY <2>1, <2>2, <2>3
<1>9. CASE EnterNested(t)
  BY <1>9 DEF EnterNested
<1>10. CASE LeaveNested(t)
  BY <1>10 DEF LeaveNested
<1>11. CASE RetainUntilProcessExit(t)
  BY <1>11 DEF RetainUntilProcessExit
<1>12. CASE ReserveForegroundHandoff(t)
  BY <1>12 DEF ReserveForegroundHandoff
<1>13. CASE Leave(t)
  BY <1>13 DEF Leave, Goto
<1>14. CASE UnlockFile(t)
  BY <1>14 DEF UnlockFile, Goto
<1>15. CASE ClearWaiter(t)
  <2>1. ~armed'[t] /\ (promised[t] => grace'[t]) /\ pc'[t] \in {"idle", "ungate"}
    BY <1>15 DEF ClearWaiter, Goto
  <2>2. \A u \in Threads \ {t} :
          /\ pc'[u] = pc[u] /\ waiter'[u] = waiter[u]
          /\ armed'[u] = armed[u] /\ grace'[u] = grace[u]
    BY <1>15 DEF ClearWaiter, Goto
  <2>3. UNCHANGED promised
    BY <1>15 DEF ClearWaiter
  <2> QED
    BY <2>1, <2>2, <2>3
<1>16. CASE ReleaseGate(t)
  BY <1>16 DEF ReleaseGate, Goto
<1>17. CASE ReservePriorityLease(t)
  BY <1>17 DEF ReservePriorityLease
<1>18. CASE EndPriorityLease(t)
  BY <1>18 DEF EndPriorityLease
<1>19. CASE ExpireGrace(t)
  BY <1>19 DEF ExpireGrace
<1> QED
  BY <1>1, <1>2, <1>3, <1>4, <1>5, <1>6, <1>7, <1>8, <1>9, <1>10, <1>11, <1>12,
     <1>13, <1>14, <1>15, <1>16, <1>17, <1>18, <1>19 DEF ThreadStep

\* The invariant survives the removal of markers by a finalizing process.
LEMMA ReclaimWaitersIInv ==
  ASSUME IInv, TypeOK', NEW p \in Processes, ReclaimWaiters(p)
  PROVE  IInv'
<1>1. GateOwned' /\ SlotOwned' /\ RetainedOwned'
  BY DEF IInv, ReclaimWaiters, GateOwned, SlotOwned, RetainedOwned
<1>2. MarkersShown'
  BY DEF IInv, TypeOK, ReclaimWaiters, MarkersShown
<1> QED
  BY <1>1, <1>2 DEF IInv

\* The invariant survives the exit of a process: its locks and its markers go
\* together.
LEMMA ExitProcessIInv ==
  ASSUME IInv, TypeOK', NEW p \in Processes, ExitProcess(p)
  PROVE  IInv'
<1> USE ProcessAssumption, NoneAssumption
<1>1. \A t \in Threads :
        /\ pc'[t] = IF ProcessOf[t] = p THEN "idle" ELSE pc[t]
        /\ retain'[t] = IF ProcessOf[t] = p THEN FALSE ELSE retain[t]
        /\ waiter'[t] = IF ProcessOf[t] = p THEN FALSE ELSE waiter[t]
        /\ armed'[t] = IF ProcessOf[t] = p THEN FALSE ELSE armed[t]
  BY DEF ExitProcess, Reset, ThreadsOf
<1>2. slot' = IF slot \in Threads /\ ProcessOf[slot] = p THEN None ELSE slot
  BY DEF ExitProcess, ThreadsOf
<1>3. \A q \in Processes :
        /\ gate'[q] = IF q = p THEN None ELSE gate[q]
        /\ sticky'[q] = IF q = p THEN FALSE ELSE sticky[q]
  BY DEF ExitProcess, IInv, TypeOK
<1>4. GateOwned'
  BY <1>1, <1>3 DEF IInv, TypeOK, GateOwned, PastGate, Points
<1>5. SlotOwned'
  BY <1>1, <1>2 DEF IInv, TypeOK, SlotOwned
<1>6. RetainedOwned'
  <2> SUFFICES ASSUME NEW q \in Processes, sticky'[q]
               PROVE  /\ slot' \in Threads
                      /\ ProcessOf[slot'] = q
                      /\ gate'[q] = slot'
                      /\ pc'[slot'] \in {"idle", "gate"} \/ (pc'[slot'] = "clear" /\ retain'[slot'])
    BY DEF RetainedOwned
  <2>1. q # p /\ sticky[q]
    BY <1>3
  <2>2. slot \in Threads /\ ProcessOf[slot] = q /\ gate[q] = slot
    BY <2>1 DEF IInv, RetainedOwned
  <2>3. slot' = slot /\ gate'[q] = gate[q]
    BY <1>2, <1>3, <2>1, <2>2
  <2>4. pc[slot] \in {"idle", "gate"} \/ (pc[slot] = "clear" /\ retain[slot])
    BY <2>1 DEF IInv, RetainedOwned
  <2>5. pc'[slot] = pc[slot] /\ retain'[slot] = retain[slot]
    BY <1>1, <2>1, <2>2
  <2> QED
    BY <2>2, <2>3, <2>4, <2>5
<1>7. MarkersShown'
  <2>1. \A t \in Threads :
          grace'[t] <=> grace[t] \/ (ProcessOf[t] = p /\ armed[t])
    BY DEF ExitProcess, ThreadsOf
  <2>2. UNCHANGED promised
    BY DEF ExitProcess
  <2> QED
    BY <1>1, <2>1, <2>2 DEF IInv, TypeOK, MarkersShown
<1> QED
  BY <1>4, <1>5, <1>6, <1>7 DEF IInv

\* The inductive invariant holds in every reachable state.
THEOREM InductiveInvariant == Spec => []IInv
<1>1. Init => IInv
  BY ProcessAssumption, SettingsAssumption
  DEF Init, IInv, TypeOK, GateOwned, SlotOwned, RetainedOwned, MarkersShown, PastGate, Points
<1>2. IInv /\ [Next]_vars => IInv'
  <2> SUFFICES ASSUME IInv, [Next]_vars PROVE IInv'
    OBVIOUS
  <2>1. TypeOK'
    BY NextTypeOK DEF IInv
  <2>2. ASSUME NEW t \in Threads, ThreadStep(t) PROVE IInv'
    BY <2>1, <2>2, ThreadStepOwnership, ThreadStepMarkers DEF IInv
  <2>3. ASSUME NEW p \in Processes, ReclaimWaiters(p) \/ ExitProcess(p) PROVE IInv'
    BY <2>1, <2>3, ReclaimWaitersIInv, ExitProcessIInv
  <2>4. CASE UNCHANGED vars
    BY <2>1, <2>4 DEF vars, IInv, GateOwned, SlotOwned, RetainedOwned, MarkersShown
  <2> QED
    BY <2>2, <2>3, <2>4 DEF Next
<1> QED
  BY <1>1, <1>2, PTL DEF Spec

\* Every variable keeps its type.
THEOREM TypeCorrect == Spec => []TypeOK
<1>1. IInv => TypeOK
  BY DEF IInv
<1> QED
  BY <1>1, InductiveInvariant, PTL

\* One thread of the whole project is inside the admission at a time: both
\* owners of the slot are the slot's one owner.
THEOREM Exclusion == Spec => []MutualExclusion
<1>1. IInv => MutualExclusion
  BY DEF IInv, SlotOwned, MutualExclusion
<1> QED
  BY <1>1, InductiveInvariant, PTL

\* A retained slot stays with its process and admits nobody.
THEOREM RetentionHolds == Spec => []RetainedHoldsSlot
<1>1. IInv => RetainedHoldsSlot
  <2> SUFFICES ASSUME IInv, NEW p \in Processes, sticky[p]
               PROVE  slot # None /\ ProcessOf[slot] = p /\ \A t \in Threads : pc[t] # "held"
    BY DEF RetainedHoldsSlot
  <2>1. slot \in Threads /\ ProcessOf[slot] = p /\ pc[slot] # "held"
    BY DEF IInv, RetainedOwned
  <2>2. \A t \in Threads : pc[t] = "held" => slot = t
    BY DEF IInv, SlotOwned
  <2> QED
    BY <2>1, <2>2, NoneAssumption
<1> QED
  BY <1>1, InductiveInvariant, PTL

\* A background thread enters by its second look at the markers only, and the
\* markers tell of every foreground thread that waits, was promised the
\* handoff or has a lease.
THEOREM Yielding == Spec => BackgroundYields
<1> DEFINE Yields ==
      \A b \in BackgroundThreads, t \in Foreground :
        pc[b] # "held" /\ pc'[b] = "held" => ~Waiting(t) /\ ~promised[t] /\ ~lease[t]
<1>1. IInv /\ [Next]_vars => Yields
  <2> SUFFICES ASSUME IInv, [Next]_vars,
                      NEW b \in BackgroundThreads, NEW t \in Foreground,
                      pc[b] # "held", pc'[b] = "held"
               PROVE  ~Waiting(t) /\ ~promised[t] /\ ~lease[t]
    OBVIOUS
  <2>1. b \in Threads /\ b \notin Foreground /\ t \in Threads
    BY DEF BackgroundThreads, Foreground
  <2>2. ASSUME NEW p \in Processes, ReclaimWaiters(p) \/ ExitProcess(p) PROVE FALSE
    <3>1. pc'[b] \in {pc[b], "idle"}
      BY <2>1, <2>2 DEF ReclaimWaiters, ExitProcess, Reset
    <3> QED
      BY <3>1
  <2>3. ASSUME NEW u \in Threads, ThreadStep(u) PROVE Rescan(u) /\ pc'[u] = "held"
    BY <2>1, <2>3
    DEF ThreadStep, Request, AcquireGate, RefuseRetained, LockFile, Scan, TryLockFile,
        Rescan, Abandon, EnterNested, LeaveNested, RetainUntilProcessExit,
        ReserveForegroundHandoff, Leave, UnlockFile, ClearWaiter, ReleaseGate,
        ReservePriorityLease, EndPriorityLease, ExpireGrace, Goto,
        IInv, TypeOK, Points, MarkersShown
  <2>4. ~ForegroundWaiterExists
    BY <2>1, <2>2, <2>3 DEF Next, vars, Rescan, Goto, IInv, TypeOK, Points
  <2>5. ~waiter[t] /\ ~grace[t] /\ ~lease[t]
    BY <2>1, <2>4 DEF ForegroundWaiterExists
  <2> QED
    BY <2>1, <2>5 DEF IInv, MarkersShown, Waiting, Points
<1> QED
  BY <1>1, InductiveInvariant, PTL DEF Spec, BackgroundYields
=============================================================================
