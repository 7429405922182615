---------------------------- MODULE AsyncDispatch ----------------------------
(***************************************************************************)
(* Process-isolated dispatch: DispatchService (deploy_async, reconcile,    *)
(* kill, consume, the harvest and recovery paths) run by several callers   *)
(* over one durable ledger, and the worker processes they launch           *)
(* (native/dispatch_worker.py main).                                       *)
(*                                                                         *)
(* Every ledger transaction, every file publication and every signal is    *)
(* one step; a caller may crash between any two of them and restart under  *)
(* a new pid.  A launch nonce is a number drawn fresh for its job, 0 being *)
(* the empty nonce; the worker launched with nonce n of job j and its      *)
(* files, whose paths contain n, are worker[j][n] and files[j][n].         *)
(***************************************************************************)
EXTENDS Integers, FiniteSets

CONSTANTS Jobs,         \* the job ids of the ledger
          Callers,      \* processes that run a DispatchService on the project
          Killers,      \* the callers that may call kill
          Cap,          \* LEANFLOW_DISPATCH_MAX_CONCURRENT
          MaxAttempts,  \* ASYNC_LAUNCH_MAX_ATTEMPTS
          MaxCrashes,   \* bound: how often each caller crashes and restarts
          WriteFaults,  \* whether a launch transaction may raise
          None          \* not a job and not a caller

ASSUME KillersAssumption == Killers \subseteq Callers
ASSUME NumbersAssumption ==
  /\ Cap \in Nat
  /\ MaxAttempts \in Nat \ {0}
  /\ MaxCrashes \in Nat
  /\ WriteFaults \in BOOLEAN
ASSUME NoneAssumption == None \notin Jobs /\ None \notin Callers
ASSUME FiniteAssumption == IsFiniteSet(Jobs) /\ IsFiniteSet(Callers)

VARIABLES ledger,  \* ledger[j]: the persisted entry of job j
          spec,    \* spec[j]: the nonce in the job's spec file, 0 once fenced
          issued,  \* issued[j]: how many nonces were drawn for j
          worker,  \* worker[j][n]: the process launched under nonce n
          files,   \* files[j][n]: the artifacts of nonce n
          call,    \* call[c]: what caller c is in the middle of
          epoch    \* epoch[c]: the incarnation (the pid) of caller c

vars == <<ledger, spec, issued, worker, files, call, epoch>>
-----------------------------------------------------------------------------
(* Types *)

\* Bound: a nonce is lost only by a crash inside a rotation, so this many are
\* always enough; and of the rotations that raise, this many are looked at.
LostNonces == IF WriteFaults THEN 1 ELSE 0
MaxNonce == MaxAttempts + MaxCrashes * Cardinality(Callers) + LostNonces
Nonces == 1..MaxNonce
Epochs == 0..MaxCrashes

L == INSTANCE DispatchLedger WITH
       state <- [j \in Jobs |-> ledger[j].state],
       consumed <- [j \in Jobs |-> ledger[j].consumed]

Pid(c) == [caller |-> c, epoch |-> epoch[c]]
NoPid == [caller |-> None, epoch |-> 0]
OrphanPid == [caller |-> None, epoch |-> 1]   \* init, after the parent died
Pids == [caller : Callers \cup {None}, epoch : Epochs \cup {0, 1}]

Notes == {"none", "pending", "unconfirmed", "died"}
Results == {"none", "full", "partial"}
Artifacts == {"result", "evidence"}
Entries ==
  [state : L!States, nonce : 0..MaxNonce, attempt : 0..MaxAttempts,
   owned : BOOLEAN,           \* an exact process identity is persisted
   note : Notes, result : Results, consumed : BOOLEAN]

Stages == {"none", "started", "loaded", "identified", "backend", "published", "exited"}
WorkerStates == [stage : Stages, signaled : BOOLEAN, parent : Pids]

Outcomes == {"none", "ok", "error", "interrupted"}
FileStates ==
  [receipt : Pids, result : Outcomes, evidence : BOOLEAN,
   late : SUBSET Artifacts]   \* those that count as later than the verdict

LaunchSteps == {"recheck", "write", "spawn", "receipt", "commit", "fail"}
RecoverySteps == {"recover", "retire", "await", "salvage", "harvest", "rotate"}
KillSteps == {"kill", "killTerm", "killAwait", "killFence", "killCommit"}
Steps == {"idle", "died", "expire"} \cup LaunchSteps \cup RecoverySteps \cup KillSteps
Calls ==
  [at : Steps, job : Jobs \cup {None}, nonce : 0..MaxNonce,
   locked : BOOLEAN,          \* holds the job's launch lock
   evidence : BOOLEAN]        \* incremental_evidence, as read by recovery

TypeOK ==
  /\ ledger \in [Jobs -> Entries]
  /\ spec \in [Jobs -> 0..MaxNonce]
  /\ issued \in [Jobs -> 0..MaxNonce]
  /\ worker \in [Jobs -> [Nonces -> WorkerStates]]
  /\ files \in [Jobs -> [Nonces -> FileStates]]
  /\ call \in [Callers -> Calls]
  /\ epoch \in [Callers -> Epochs]
-----------------------------------------------------------------------------
(* The initial state: jobs proposed, nothing launched *)

Idle == [at |-> "idle", job |-> None, nonce |-> 0, locked |-> FALSE, evidence |-> FALSE]
NoWorker == [stage |-> "none", signaled |-> FALSE, parent |-> NoPid]
NoFiles == [receipt |-> NoPid, result |-> "none", evidence |-> FALSE, late |-> {}]
Proposed ==
  [state |-> "proposed", nonce |-> 0, attempt |-> 0, owned |-> FALSE,
   note |-> "none", result |-> "none", consumed |-> FALSE]

Init ==
  /\ ledger = [j \in Jobs |-> Proposed]
  /\ spec = [j \in Jobs |-> 0]
  /\ issued = [j \in Jobs |-> 0]
  /\ worker = [j \in Jobs |-> [n \in Nonces |-> NoWorker]]
  /\ files = [j \in Jobs |-> [n \in Nonces |-> NoFiles]]
  /\ call = [c \in Callers |-> Idle]
  /\ epoch = [c \in Callers |-> 0]
-----------------------------------------------------------------------------
(* Reading the ledger, the artifacts and the process table *)

LaunchLockFree(j) == \A c \in Callers : ~(call[c].locked /\ call[c].job = j)

\* The compare-and-swap every launch transaction makes on the stored entry.
StillReserved(c) ==
  LET e == ledger[call[c].job]
  IN  e.state = "deployed" /\ e.nonce = call[c].nonce

Running(j) == ledger[j].state = "running" /\ ledger[j].owned

\* The artifacts bound to the entry's nonce.
BoundFiles(j) == files[j][ledger[j].nonce]

\* Those of them that a job can be done with.
Deliverables(j) ==
  {a \in Artifacts : \/ a = "result" /\ BoundFiles(j).result = "ok"
                     \/ a = "evidence" /\ BoundFiles(j).evidence}

\* A launched process that has not exited.  Both probes of it err on one
\* side only: a token lookup may miss a live process, and an exited child
\* may stay unreaped for a while, so an action may always find neither.
WorkerAlive(j, n) == worker[j][n].stage \notin {"none", "exited"}
WorkerExited(j, n) == worker[j][n].stage \in {"none", "exited"}

\* finished_at has no fraction of a second, and what is younger by less than a
\* second still counts as older: once a is published after the verdict on its
\* nonce, it is late unless nothing has been yet.
Dated(j, n, a) ==
  LET late == files[j][n].late
  IN  IF ledger[j].nonce = n /\ ledger[j].state \in L!TerminalStates
      THEN {late \cup {a}} \cup (IF late = {} THEN {{}} ELSE {})
      ELSE {late}

ParentAlive(j, n) ==
  LET p == worker[j][n].parent
  IN  p.caller \in Callers /\ epoch[p.caller] = p.epoch
-----------------------------------------------------------------------------
(* Writing an entry *)

\* A transition to a terminal state.
Closed(j, s, result, note) ==
  [ledger[j] EXCEPT !.state = s, !.result = result, !.note = note]

SetEntry(j, e) == ledger' = [ledger EXCEPT ![j] = e]

SetRunning(j) ==
  SetEntry(j, [ledger[j] EXCEPT !.state = "running", !.owned = TRUE, !.note = "none"])

Goto(c, step) == call' = [call EXCEPT ![c].at = step]
Return(c) == call' = [call EXCEPT ![c] = Idle]

Signal(j, n) == worker' = [worker EXCEPT ![j][n].signaled = TRUE]

DropEvidence(j) == files' = [files EXCEPT ![j][ledger[j].nonce].evidence = FALSE]

\* Mutant: an interruption artifact is no verdict.
HarvestFailure_ErrorsOnly(j) ==
  /\ ~BoundFiles(j).evidence
  /\ BoundFiles(j).result = "error"
  /\ SetEntry(j, Closed(j, "failed", "none", "none"))
  /\ UNCHANGED files

\* What a harvest makes of a running job whose worker has exited: a success
\* is done, checked helpers are a partial done, and only if failures are
\* accepted does the worker's own failure or interruption become a verdict.
HarvestSuccess(j) ==
  /\ BoundFiles(j).result = "ok"
  /\ SetEntry(j, Closed(j, "done", "full", "none"))
  /\ DropEvidence(j)

HarvestEvidence(j) ==
  /\ BoundFiles(j).result # "ok"
  /\ BoundFiles(j).evidence
  /\ SetEntry(j, Closed(j, "done", "partial", "none"))
  /\ UNCHANGED files

HarvestFailure(j) ==
  /\ ~BoundFiles(j).evidence
  /\ \/ BoundFiles(j).result = "interrupted" /\ SetEntry(j, Closed(j, "killed", "none", "none"))
     \/ BoundFiles(j).result = "error" /\ SetEntry(j, Closed(j, "failed", "none", "none"))
  /\ UNCHANGED files

\* Mutant: capacity is freed as soon as a result is published.
Harvestable_BeforeExit(j) == Running(j) /\ BoundFiles(j).result # "none"

Harvestable(j) ==
  /\ Running(j)
  /\ BoundFiles(j).result # "none"
  /\ WorkerExited(j, ledger[j].nonce)

\* The verdict on a running job whose worker has exited, when nothing but a
\* success or checked helpers may overrule the verdict s.
CloseExited(j, s, note) ==
  \/ HarvestSuccess(j)
  \/ HarvestEvidence(j)
  \/ /\ BoundFiles(j).result # "ok"
     /\ ~BoundFiles(j).evidence
     /\ SetEntry(j, Closed(j, s, "none", note))
     /\ UNCHANGED files
-----------------------------------------------------------------------------
(* Launching: deploy_async, under the job's launch lock *)

\* A fresh nonce on a proposed job with a free slot, or the recovery of a
\* launch another call left behind.  Without a slot, or on a job past its
\* launch, the call returns or raises and changes nothing.
DeployAsync(c, j) ==
  /\ call[c] = Idle
  /\ LaunchLockFree(j)
  /\ \/ /\ ledger[j].state = "proposed"
        /\ Cardinality(L!InFlight) < Cap
        /\ issued[j] < MaxNonce
        /\ issued' = [issued EXCEPT ![j] = @ + 1]
        /\ SetEntry(j, [ledger[j] EXCEPT !.state = "deployed", !.nonce = issued[j] + 1,
                                         !.attempt = 1])
        /\ call' = [call EXCEPT ![c] = [at |-> "recheck", job |-> j, nonce |-> issued[j] + 1,
                                        locked |-> TRUE, evidence |-> FALSE]]
     \/ /\ ledger[j].state = "deployed"
        /\ call' = [call EXCEPT ![c] = [at |-> "recover", job |-> j, nonce |-> ledger[j].nonce,
                                        locked |-> TRUE, evidence |-> FALSE]]
        /\ UNCHANGED <<ledger, issued>>
  /\ UNCHANGED <<spec, worker, files, epoch>>

\* The entry is read again before the shared spec is touched.
Recheck(c) ==
  /\ call[c].at = "recheck"
  /\ IF StillReserved(c) THEN Goto(c, "write") ELSE Return(c)
  /\ UNCHANGED <<ledger, spec, issued, worker, files, epoch>>

\* This nonce's leftovers are unlinked and its spec becomes the fence.
WriteSpec(c) ==
  LET j == call[c].job  n == call[c].nonce
  IN  /\ call[c].at = "write"
      /\ files' = [files EXCEPT ![j][n] = NoFiles]
      /\ spec' = [spec EXCEPT ![j] = n]
      /\ Goto(c, "spawn")
      /\ UNCHANGED <<ledger, issued, worker, epoch>>

SpawnWorker(c) ==
  LET j == call[c].job  n == call[c].nonce
  IN  /\ call[c].at = "spawn"
      /\ worker' = [worker EXCEPT ![j][n] =
                      [stage |-> "started", signaled |-> FALSE, parent |-> Pid(c)]]
      /\ Goto(c, "receipt")
      /\ UNCHANGED <<ledger, spec, issued, files, epoch>>

\* The launcher's own copy of the identity receipt.
PublishReceipt(c) ==
  /\ call[c].at = "receipt"
  /\ files' = [files EXCEPT ![call[c].job][call[c].nonce].receipt = Pid(c)]
  /\ Goto(c, "commit")
  /\ UNCHANGED <<ledger, spec, issued, worker, epoch>>

\* Writing the spec, Popen or writing the receipt raised.
LaunchRaises(c) ==
  /\ call[c].at \in {"write", "spawn", "receipt"}
  /\ Goto(c, "fail")
  /\ UNCHANGED <<ledger, spec, issued, worker, files, epoch>>

\* Mutant: a failed launch leaves its fence open.
FailLaunch_KeepsFence(c) ==
  /\ call[c].at = "fail"
  /\ IF StillReserved(c)
       THEN SetEntry(call[c].job, Closed(call[c].job, "failed", "none", "none"))
       ELSE UNCHANGED ledger
  /\ Return(c)
  /\ UNCHANGED <<spec, issued, worker, files, epoch>>

FailLaunch(c) ==
  LET j == call[c].job
  IN  /\ call[c].at = "fail"
      /\ IF StillReserved(c)
           THEN /\ spec' = [spec EXCEPT ![j] = 0]
                /\ SetEntry(j, Closed(j, "failed", "none", "none"))
           ELSE UNCHANGED <<ledger, spec>>
      /\ Return(c)
      /\ UNCHANGED <<issued, worker, files, epoch>>

\* Running is published for a reservation that still stands; a launcher that
\* lost it signals the process it just created, if it finds it.
CommitRunning(c) ==
  LET j == call[c].job
  IN  /\ call[c].at = "commit"
      /\ \/ StillReserved(c) /\ SetRunning(j) /\ UNCHANGED worker
         \/ ~StillReserved(c) /\ Signal(j, call[c].nonce) /\ UNCHANGED ledger
         \/ ~StillReserved(c) /\ UNCHANGED <<ledger, worker>>
      /\ Return(c)
      /\ UNCHANGED <<spec, issued, files, epoch>>

\* Two transactions write the spec file before the ledger.  Cut in between,
\* they leave a cancelled fence, or the spec of a nonce that no entry has.
SpecAhead(c) ==
  LET j == call[c].job
  IN  /\ call[c].at \in {"fail", "rotate"}
      /\ StillReserved(c)
      /\ \/ /\ call[c].at = "rotate" => ledger[j].attempt >= MaxAttempts
            /\ spec' = [spec EXCEPT ![j] = 0]
            /\ UNCHANGED issued
         \/ /\ call[c].at = "rotate"
            /\ ledger[j].attempt < MaxAttempts
            /\ issued[j] < MaxNonce
            /\ issued' = [issued EXCEPT ![j] = @ + 1]
            /\ spec' = [spec EXCEPT ![j] = issued[j] + 1]

\* The ledger transaction of a launch step raises: the call is abandoned.
TransactionRaises(c) ==
  /\ WriteFaults
  /\ call[c].at \in {"commit", "fail", "rotate"}
  /\ SpecAhead(c) \/ UNCHANGED <<spec, issued>>
  /\ Return(c)
  /\ UNCHANGED <<ledger, worker, files, epoch>>
-----------------------------------------------------------------------------
(* Recovering a deployed launch, under the same lock *)

\* reconcile and join: the launch lock, then the entry read again.
ReconcileDeployed(c, j) ==
  /\ call[c] = Idle
  /\ LaunchLockFree(j)
  /\ ledger[j].state = "deployed"
  /\ call' = [call EXCEPT ![c] = [at |-> "recover", job |-> j, nonce |-> ledger[j].nonce,
                                  locked |-> TRUE, evidence |-> FALSE]]
  /\ UNCHANGED <<ledger, spec, issued, worker, files, epoch>>

\* Without a receipt the nonce never began job work: once the handshake
\* window has passed it is rotated.
RecoverUnidentified(c) ==
  /\ call[c].at = "recover"
  /\ files[call[c].job][call[c].nonce].receipt = NoPid
  /\ Goto(c, "rotate") \/ Return(c)
  /\ UNCHANGED <<ledger, spec, issued, worker, files, epoch>>

\* A finished result, or a live worker of this very process, is adopted.
RecoverAdopt(c) ==
  LET j == call[c].job  n == call[c].nonce  f == files[j][n]
  IN  /\ call[c].at = "recover"
      /\ f.receipt # NoPid
      /\ f.result # "none" \/ (f.receipt = Pid(c) /\ WorkerAlive(j, n))
      /\ IF StillReserved(c)
           THEN SetRunning(j) /\ Goto(c, "harvest")
           ELSE Return(c) /\ UNCHANGED ledger
      /\ UNCHANGED <<spec, issued, worker, files, epoch>>

\* Neither was found: a worker of another process must be retired, and one
\* of this process must be proved gone.
RecoverRetire(c) ==
  LET f == files[call[c].job][call[c].nonce]
  IN  /\ call[c].at = "recover"
      /\ f.receipt # NoPid
      /\ f.result = "none"
      /\ call' = [call EXCEPT ![c].at = "retire", ![c].evidence = f.evidence]
      /\ UNCHANGED <<ledger, spec, issued, worker, files, epoch>>

\* The old worker is gone: its checked helpers are salvaged, or else the
\* launch is tried again.
AfterRetirement(c) ==
  IF ~call[c].evidence
    THEN Goto(c, "rotate") /\ UNCHANGED ledger
    ELSE IF StillReserved(c)
           THEN SetRunning(call[c].job) /\ Goto(c, "salvage")
           ELSE Return(c) /\ UNCHANGED ledger

\* Mutant: a missed liveness probe is taken for an exit.
Retire_Unproved(c) ==
  /\ call[c].at = "retire"
  /\ AfterRetirement(c)
  /\ UNCHANGED <<spec, issued, worker, files, epoch>>

\* Mutant: the worker of another process is left to its owner.
Retire_OwnOnly(c) ==
  /\ call[c].at = "retire"
  /\ \/ /\ files[call[c].job][call[c].nonce].receipt = Pid(c)
        /\ WorkerExited(call[c].job, call[c].nonce)
        /\ AfterRetirement(c)
     \/ Return(c) /\ UNCHANGED ledger
  /\ UNCHANGED <<spec, issued, worker, files, epoch>>

Retire(c) ==
  LET j == call[c].job  n == call[c].nonce
  IN  /\ call[c].at = "retire"
      /\ \/ WorkerExited(j, n) /\ AfterRetirement(c) /\ UNCHANGED worker
         \/ /\ files[j][n].receipt # Pid(c)
            /\ WorkerAlive(j, n)
            /\ Signal(j, n)
            /\ Goto(c, "await")
            /\ UNCHANGED ledger
         \/ Return(c) /\ UNCHANGED <<ledger, worker>>
      /\ UNCHANGED <<spec, issued, files, epoch>>

AwaitRetirement(c) ==
  /\ call[c].at = "await"
  /\ \/ WorkerExited(call[c].job, call[c].nonce) /\ AfterRetirement(c)
     \/ Return(c) /\ UNCHANGED ledger
  /\ UNCHANGED <<spec, issued, worker, files, epoch>>

Salvage(c) ==
  LET j == call[c].job
  IN  /\ call[c].at = "salvage"
      /\ IF Running(j) /\ BoundFiles(j).evidence
           THEN SetEntry(j, Closed(j, "done", "partial", "none"))
           ELSE UNCHANGED ledger
      /\ Return(c)
      /\ UNCHANGED <<spec, issued, worker, files, epoch>>

\* The harvest that ends an adoption; without an exit it leaves the job running.
HarvestAdopted(c) ==
  /\ call[c].at = "harvest"
  /\ \/ /\ Harvestable(call[c].job)
        /\ \/ HarvestSuccess(call[c].job)
           \/ HarvestEvidence(call[c].job)
           \/ HarvestFailure(call[c].job)
     \/ UNCHANGED <<ledger, files>>
  /\ Return(c)
  /\ UNCHANGED <<spec, issued, worker, epoch>>

\* Mutant: the attempt is not counted.
RotateNonce_Uncounted(c) ==
  LET j == call[c].job  e == ledger[j]
  IN  /\ call[c].at = "rotate"
      /\ StillReserved(c)
      /\ issued[j] < MaxNonce
      /\ issued' = [issued EXCEPT ![j] = @ + 1]
      /\ spec' = [spec EXCEPT ![j] = issued[j] + 1]
      /\ SetEntry(j, [e EXCEPT !.nonce = issued[j] + 1, !.owned = FALSE])
      /\ call' = [call EXCEPT ![c].at = "recheck", ![c].nonce = issued[j] + 1]
      /\ UNCHANGED <<worker, files, epoch>>

\* Mutant: the retry launches under the nonce it already has.
RotateNonce_SameNonce(c) ==
  LET j == call[c].job  e == ledger[j]
  IN  /\ call[c].at = "rotate"
      /\ StillReserved(c)
      /\ e.attempt < MaxAttempts
      /\ SetEntry(j, [e EXCEPT !.attempt = @ + 1, !.owned = FALSE])
      /\ Goto(c, "recheck")
      /\ UNCHANGED <<spec, issued, worker, files, epoch>>

\* The stale nonce is replaced, its fence first, or the attempts are spent.
RotateNonce(c) ==
  LET j == call[c].job  e == ledger[j]
  IN  /\ call[c].at = "rotate"
      /\ \/ /\ ~StillReserved(c)
            /\ Return(c)
            /\ UNCHANGED <<ledger, spec, issued>>
         \/ /\ StillReserved(c)
            /\ e.attempt >= MaxAttempts
            /\ spec' = [spec EXCEPT ![j] = 0]
            /\ SetEntry(j, Closed(j, "failed", "none", "none"))
            /\ Return(c)
            /\ UNCHANGED issued
         \/ /\ StillReserved(c)
            /\ e.attempt < MaxAttempts
            /\ issued[j] < MaxNonce
            /\ issued' = [issued EXCEPT ![j] = @ + 1]
            /\ spec' = [spec EXCEPT ![j] = issued[j] + 1]
            /\ SetEntry(j, [e EXCEPT !.nonce = issued[j] + 1, !.attempt = @ + 1,
                                     !.owned = FALSE])
            /\ call' = [call EXCEPT ![c].at = "recheck", ![c].nonce = issued[j] + 1]
      /\ UNCHANGED <<worker, files, epoch>>
-----------------------------------------------------------------------------
(* Running jobs: harvest, liveness and the wall clock; no launch lock *)

\* join, poll and reconcile promote a bound result once the exit is proved.
HarvestResult(c, j) ==
  /\ call[c] = Idle
  /\ Harvestable(j)
  /\ HarvestSuccess(j) \/ HarvestEvidence(j) \/ HarvestFailure(j)
  /\ UNCHANGED <<spec, issued, worker, call, epoch>>

\* reconcile saw no result and, through the whole publication grace, no live
\* worker; what happens before its verdict it does not see.
FindNothing(c, j) ==
  /\ call[c] = Idle
  /\ Running(j)
  /\ ledger[j].note # "pending"
  /\ BoundFiles(j).result = "none"
  /\ call' = [call EXCEPT ![c] = [at |-> "died", job |-> j, nonce |-> ledger[j].nonce,
                                  locked |-> FALSE, evidence |-> FALSE]]
  /\ UNCHANGED <<ledger, spec, issued, worker, files, epoch>>

DeclareDied(c) ==
  LET j == call[c].job
  IN  /\ call[c].at = "died"
      /\ \/ ~Running(j) /\ UNCHANGED ledger
         \/ /\ Running(j)
            /\ WorkerExited(j, call[c].nonce)
            /\ SetEntry(j, IF BoundFiles(j).evidence
                             THEN Closed(j, "done", "partial", "none")
                             ELSE Closed(j, "failed", "none", "died"))
         \/ Running(j) /\ SetEntry(j, [ledger[j] EXCEPT !.note = "unconfirmed"])
      /\ Return(c)
      /\ UNCHANGED <<spec, issued, worker, files, epoch>>

\* A live worker past its wall clock: the intent is persisted, then signaled.
MarkExpired(c, j) ==
  /\ call[c] = Idle
  /\ Running(j)
  /\ WorkerAlive(j, ledger[j].nonce)
  /\ SetEntry(j, [ledger[j] EXCEPT !.note = "pending"])
  /\ call' = [call EXCEPT ![c] = [at |-> "expire", job |-> j, nonce |-> ledger[j].nonce,
                                  locked |-> FALSE, evidence |-> FALSE]]
  /\ UNCHANGED <<spec, issued, worker, files, epoch>>

\* The wait for the exit may be given up; CloseExpired is its other outcome.
SignalExpired(c) ==
  /\ call[c].at = "expire"
  /\ \/ Signal(call[c].job, call[c].nonce)
     \/ UNCHANGED worker
  /\ Return(c)
  /\ UNCHANGED <<ledger, spec, issued, files, epoch>>

CloseExpired(c, j) ==
  /\ call[c] = Idle
  /\ Running(j)
  /\ ledger[j].note = "pending"
  /\ WorkerExited(j, ledger[j].nonce)
  /\ CloseExited(j, "failed", "none")
  /\ UNCHANGED <<spec, issued, worker, call, epoch>>
-----------------------------------------------------------------------------
(* kill *)

\* The launch lock is taken only if the first read shows a nonce.
BeginKill(c, j) ==
  /\ c \in Killers
  /\ call[c] = Idle
  /\ ledger[j].nonce # 0 => LaunchLockFree(j)
  /\ call' = [call EXCEPT ![c] = [at |-> "kill", job |-> j, nonce |-> 0,
                                  locked |-> ledger[j].nonce # 0, evidence |-> FALSE]]
  /\ UNCHANGED <<ledger, spec, issued, worker, files, epoch>>

\* The second read decides; a success already there wins.
KillRead(c) ==
  LET j == call[c].job
      Proceed(step) == /\ call' = [call EXCEPT ![c].at = step, ![c].nonce = ledger[j].nonce]
                       /\ UNCHANGED <<ledger, files>>
  IN  /\ call[c].at = "kill"
      /\ \/ /\ ledger[j].state \in L!TerminalStates \ {"stuck"}
            /\ Return(c)
            /\ UNCHANGED <<ledger, files>>
         \/ /\ Harvestable(j)
            /\ HarvestSuccess(j) \/ HarvestEvidence(j)
            /\ Return(c)
         \/ Running(j) /\ Proceed("killTerm")
         \/ ledger[j].state = "deployed" /\ Proceed("killFence")
         \/ ledger[j].state = "proposed" /\ Proceed("killCommit")
      /\ UNCHANGED <<spec, issued, worker, epoch>>

\* The worker has exited: a late success or helpers win over the cancellation.
KillClose(c) ==
  IF Running(call[c].job)
    THEN CloseExited(call[c].job, "killed", "none")
    ELSE UNCHANGED <<ledger, files>>

KillTerminate(c) ==
  LET j == call[c].job  n == call[c].nonce
  IN  /\ call[c].at = "killTerm"
      /\ \/ WorkerExited(j, n) /\ KillClose(c) /\ Return(c) /\ UNCHANGED worker
         \/ /\ WorkerAlive(j, n)
            /\ Signal(j, n)
            /\ Goto(c, "killAwait")
            /\ UNCHANGED <<ledger, files>>
         \/ Return(c) /\ UNCHANGED <<ledger, worker, files>>
      /\ UNCHANGED <<spec, issued, epoch>>

\* Mutant: the verdict is written when the wait for the exit is given up.
KillAwait_NoProof(c) ==
  /\ call[c].at = "killAwait"
  /\ KillClose(c)
  /\ Return(c)
  /\ UNCHANGED <<spec, issued, worker, epoch>>

\* Without proof of the exit the job stays open.
KillAwait(c) ==
  /\ call[c].at = "killAwait"
  /\ \/ WorkerExited(call[c].job, call[c].nonce) /\ KillClose(c)
     \/ UNCHANGED <<ledger, files>>
  /\ Return(c)
  /\ UNCHANGED <<spec, issued, worker, epoch>>

KillFence(c) ==
  /\ call[c].at = "killFence"
  /\ spec' = [spec EXCEPT ![call[c].job] = 0]
  /\ Goto(c, "killCommit")
  /\ UNCHANGED <<ledger, issued, worker, files, epoch>>

\* Mutant: killed is written without asking the state machine.
KillCommit_Unchecked(c) ==
  /\ call[c].at = "killCommit"
  /\ SetEntry(call[c].job, Closed(call[c].job, "killed", "none", "none"))
  /\ Return(c)
  /\ UNCHANGED <<spec, issued, worker, files, epoch>>

\* finished_at is drawn before the transaction that stores it: what a worker
\* published meanwhile may be late, the result after the helpers.
KillStamps(j) ==
  IF Running(j)
  THEN {late \cap Deliverables(j) : late \in {{}, {"result"}, Artifacts}}
  ELSE {{}}

\* _transition checks the entry stored by now, not the one that was read.
KillCommit(c) ==
  LET j == call[c].job
  IN  /\ call[c].at = "killCommit"
      /\ IF L!CanTransition(ledger[j].state, "killed")
           THEN /\ SetEntry(j, Closed(j, "killed", "none", "none"))
                /\ \E late \in KillStamps(j) :
                     files' = IF late = {} THEN files
                              ELSE [files EXCEPT ![j][ledger[j].nonce].late = late]
           ELSE UNCHANGED <<ledger, files>>
      /\ Return(c)
      /\ UNCHANGED <<spec, issued, worker, epoch>>
-----------------------------------------------------------------------------
(* After the verdict: consumption and the recovery of early artifacts *)

Consume(c, j) ==
  /\ call[c] = Idle
  /\ ledger[j].state = "done"
  /\ ~ledger[j].consumed
  /\ SetEntry(j, [ledger[j] EXCEPT !.consumed = TRUE])
  /\ UNCHANGED <<spec, issued, worker, files, call, epoch>>

Recoverable(j) ==
  LET e == ledger[j]
  IN  /\ e.owned
      /\ ~e.consumed
      /\ e.result = "none"
      /\ WorkerExited(j, e.nonce)

\* Mutant: the age of the artifact is not compared with the verdict.
RecoverableResult_AnyAge(j) ==
  LET e == ledger[j]
  IN  /\ e.state = "killed" \/ (e.state = "failed" /\ e.note = "died")
      /\ BoundFiles(j).result = "ok"

\* Mutant: only cancellations are corrected.
RecoverableResult_KilledOnly(j) ==
  /\ ledger[j].state = "killed"
  /\ "result" \notin BoundFiles(j).late
  /\ BoundFiles(j).result = "ok"

\* A success not later than a killed or "agent process died" verdict.
RecoverableResult(j) ==
  LET e == ledger[j]
  IN  /\ e.state = "killed" \/ (e.state = "failed" /\ e.note = "died")
      /\ "result" \notin BoundFiles(j).late
      /\ BoundFiles(j).result = "ok"

RecoverableEvidence(j) ==
  /\ ledger[j].state \in {"killed", "failed"}
  /\ "evidence" \notin BoundFiles(j).late
  /\ BoundFiles(j).evidence

Restored(j, result) ==
  [ledger[j] EXCEPT !.state = "done", !.result = result, !.note = "none"]

RecoverArtifact(c, j) ==
  /\ call[c] = Idle
  /\ Recoverable(j)
  /\ \/ /\ RecoverableResult(j)
        /\ SetEntry(j, Restored(j, "full"))
        /\ IF "evidence" \in BoundFiles(j).late THEN UNCHANGED files ELSE DropEvidence(j)
     \/ /\ ~RecoverableResult(j)
        /\ RecoverableEvidence(j)
        /\ SetEntry(j, Restored(j, "partial"))
        /\ UNCHANGED files
  /\ UNCHANGED <<spec, issued, worker, call, epoch>>
-----------------------------------------------------------------------------
(* The worker process: main of native/dispatch_worker.py *)

WorkerGoes(j, n, stage) == worker' = [worker EXCEPT ![j][n].stage = stage]

\* A spec that carries another nonce ends the worker without a result.
LoadSpec(j, n) ==
  /\ worker[j][n].stage = "started"
  /\ ~worker[j][n].signaled
  /\ WorkerGoes(j, n, IF spec[j] = n THEN "loaded" ELSE "exited")
  /\ UNCHANGED <<ledger, spec, issued, files, call, epoch>>

\* The worker's receipt names the parent it has by now.
PublishIdentity(j, n) ==
  /\ worker[j][n].stage = "loaded"
  /\ ~worker[j][n].signaled
  /\ files' = [files EXCEPT ![j][n].receipt =
                 IF ParentAlive(j, n) THEN worker[j][n].parent ELSE OrphanPid]
  /\ WorkerGoes(j, n, "identified")
  /\ UNCHANGED <<ledger, spec, issued, call, epoch>>

\* The last look at the spec and the parent, inside the launch lock.
PassFence(j, n) ==
  /\ worker[j][n].stage = "identified"
  /\ ~worker[j][n].signaled
  /\ LaunchLockFree(j)
  /\ WorkerGoes(j, n, IF spec[j] = n /\ ParentAlive(j, n) THEN "backend" ELSE "exited")
  /\ UNCHANGED <<ledger, spec, issued, files, call, epoch>>

\* The journal of checked helpers is written, again with every new one.
PublishEvidence(j, n) ==
  /\ worker[j][n].stage = "backend"
  /\ \E late \in Dated(j, n, "evidence") :
       files' = [files EXCEPT ![j][n].evidence = TRUE, ![j][n].late = late]
  /\ UNCHANGED <<ledger, spec, issued, worker, call, epoch>>

\* The backend returns or raises; a signal may come too late to matter.
FinishBackend(j, n) ==
  /\ worker[j][n].stage = "backend"
  /\ \E r \in {"ok", "error"}, late \in Dated(j, n, "result") :
       files' = [files EXCEPT ![j][n].result = r, ![j][n].late = late]
  /\ WorkerGoes(j, n, "published")
  /\ UNCHANGED <<ledger, spec, issued, call, epoch>>

\* SIGTERM, the parent's death or the worker's own wall clock: an
\* interruption result, or a forced exit without one.
InterruptWorker(j, n) ==
  /\ \/ WorkerAlive(j, n) /\ worker[j][n].stage # "published" /\ worker[j][n].signaled
     \/ worker[j][n].stage = "identified" /\ ~ParentAlive(j, n)
     \/ worker[j][n].stage = "backend"
  /\ \/ /\ \E late \in Dated(j, n, "result") :
             files' = [files EXCEPT ![j][n].result = "interrupted", ![j][n].late = late]
        /\ WorkerGoes(j, n, "published")
     \/ WorkerGoes(j, n, "exited") /\ UNCHANGED files
  /\ UNCHANGED <<ledger, spec, issued, call, epoch>>

\* The process ends after publishing, or dies at any point before.
ExitWorker(j, n) ==
  /\ WorkerAlive(j, n)
  /\ WorkerGoes(j, n, "exited")
  /\ UNCHANGED <<ledger, spec, issued, files, call, epoch>>
-----------------------------------------------------------------------------
(* Caller crashes *)

\* The process dies: its call is lost, the system drops its launch lock, and
\* its restart has a new pid.
Crash(c) ==
  /\ epoch[c] < MaxCrashes
  /\ epoch' = [epoch EXCEPT ![c] = @ + 1]
  /\ Return(c)
  /\ UNCHANGED <<ledger, spec, issued, worker, files>>

\* The same between the two writes of a transaction.
CrashInTransaction(c) ==
  /\ SpecAhead(c)
  /\ epoch[c] < MaxCrashes
  /\ epoch' = [epoch EXCEPT ![c] = @ + 1]
  /\ Return(c)
  /\ UNCHANGED <<ledger, worker, files>>
-----------------------------------------------------------------------------
LaunchNext(c) ==
  \/ \E j \in Jobs : DeployAsync(c, j)
  \/ Recheck(c) \/ WriteSpec(c) \/ SpawnWorker(c) \/ PublishReceipt(c)
  \/ LaunchRaises(c) \/ FailLaunch(c) \/ CommitRunning(c) \/ TransactionRaises(c)

RecoveryNext(c) ==
  \/ \E j \in Jobs : ReconcileDeployed(c, j)
  \/ RecoverUnidentified(c) \/ RecoverAdopt(c) \/ RecoverRetire(c)
  \/ Retire(c) \/ AwaitRetirement(c) \/ Salvage(c) \/ HarvestAdopted(c)
  \/ RotateNonce(c)

RunningNext(c) ==
  \/ \E j \in Jobs : \/ HarvestResult(c, j) \/ FindNothing(c, j)
                     \/ MarkExpired(c, j) \/ CloseExpired(c, j)
                     \/ Consume(c, j) \/ RecoverArtifact(c, j)
  \/ DeclareDied(c) \/ SignalExpired(c)

KillNext(c) ==
  \/ \E j \in Jobs : BeginKill(c, j)
  \/ KillRead(c) \/ KillTerminate(c) \/ KillAwait(c) \/ KillFence(c) \/ KillCommit(c)

CallerNext(c) ==
  \/ LaunchNext(c) \/ RecoveryNext(c) \/ RunningNext(c) \/ KillNext(c)
  \/ Crash(c) \/ CrashInTransaction(c)

WorkerNext(j, n) ==
  \/ LoadSpec(j, n) \/ PublishIdentity(j, n) \/ PassFence(j, n)
  \/ PublishEvidence(j, n) \/ FinishBackend(j, n) \/ InterruptWorker(j, n)
  \/ ExitWorker(j, n)

Next ==
  \/ \E c \in Callers : CallerNext(c)
  \/ \E j \in Jobs, n \in Nonces : WorkerNext(j, n)

Spec == Init /\ [][Next]_vars
-----------------------------------------------------------------------------
(* Safety *)

\* Cancelling, timing out or superseding a launch never frees a slot under a
\* process that works: a worker past its fence belongs to the current nonce
\* of a job that still counts against the cap.
BackendHoldsSlot ==
  \A j \in Jobs, n \in Nonces :
    worker[j][n].stage = "backend" =>
      ledger[j].state \in L!InFlightStates /\ ledger[j].nonce = n

\* Two workers never execute one job at the same time, whatever was retried,
\* recovered or killed in between.
OneBackendPerJob ==
  \A j \in Jobs : \A m, n \in Nonces :
    worker[j][m].stage = "backend" /\ worker[j][n].stage = "backend" => m = n

\* Cancelling a job first ends its process: no worker of a killed job works.
KilledAfterExit ==
  \A j \in Jobs : ledger[j].state = "killed" =>
    \A n \in Nonces : worker[j][n].stage # "backend"

\* A full result in the ledger is the success its own launch nonce published.
ResultOfItsLaunch ==
  \A j \in Jobs : ledger[j].result = "full" =>
    /\ ledger[j].state = "done"
    /\ BoundFiles(j).result = "ok"
    /\ WorkerExited(j, ledger[j].nonce)

\* "A zombie/dead-process verdict must never overwrite a valid structured
\* deliverable": a job is not done with parts of it beside a whole one.
DeliverableKept ==
  \A j \in Jobs :
    ledger[j].state = "done" /\ BoundFiles(j).result = "ok" => ledger[j].result = "full"

\* The cap counts launches in progress as well as running jobs.
CapRespected == Cardinality(L!InFlight) <= Cap

\* Retries spawn at most MaxAttempts processes for a job.
SpawnsBounded ==
  \A j \in Jobs : Cardinality({n \in Nonces : worker[j][n].stage # "none"}) <= MaxAttempts
-----------------------------------------------------------------------------
(* Action properties *)

\* A killed or failed verdict is overturned only by an artifact of its own
\* nonce that is not later than the second of the verdict, of a process that
\* is gone, before any consumption; and nothing ever overturns done.
VerdictsStand ==
  [][\A j \in Jobs :
       ledger[j].state \in L!TerminalStates /\ ledger'[j].state # ledger[j].state =>
         /\ ledger[j].state \in {"killed", "failed"}
         /\ ledger'[j].state = "done"
         /\ WorkerExited(j, ledger[j].nonce)
         /\ ~ledger[j].consumed
         /\ \/ ledger'[j].result = "full" /\ BoundFiles(j).result = "ok"
                                         /\ "result" \notin BoundFiles(j).late
            \/ ledger'[j].result = "partial" /\ BoundFiles(j).evidence
                                            /\ "evidence" \notin BoundFiles(j).late]_vars

\* The worker is gone when its job gets a verdict, so that no write of a live
\* worker is taken for an earlier one: what may overturn the verdict is there
\* when it is reached.
NoLaterWrite ==
  [][\A j \in Jobs :
       ledger[j].state \in {"killed", "failed"} /\ ledger[j].nonce # 0 =>
         Deliverables(j)' \subseteq Deliverables(j)]_vars

\* A launch nonce names one process: none is started under a nonce twice.
NonceStartsOnce ==
  [][\A j \in Jobs, n \in Nonces :
       worker'[j][n].stage = "started" => worker[j][n].stage \in {"none", "started"}]_vars

\* The service keeps the ledger's promise.
ImplementsLedger == L!Spec
-----------------------------------------------------------------------------
(* Liveness *)

\* Steps of a call in progress: a process that does not crash goes on.
Proceeds(c) ==
  \/ Recheck(c) \/ WriteSpec(c) \/ SpawnWorker(c) \/ PublishReceipt(c)
  \/ FailLaunch(c) \/ CommitRunning(c)
  \/ RecoverUnidentified(c) \/ RecoverRetire(c) \/ Retire(c) \/ AwaitRetirement(c)
  \/ Salvage(c) \/ HarvestAdopted(c) \/ RotateNonce(c)
  \/ DeclareDied(c) \/ SignalExpired(c)
  \/ KillRead(c) \/ KillTerminate(c) \/ KillAwait(c) \/ KillFence(c) \/ KillCommit(c)

\* One pass of reconcile over entry j; it may find nothing out.
Reconciles(c, j) == ReconcileDeployed(c, j) \/ FindNothing(c, j)

\* Probes that keep failing and handshakes that keep being in progress are
\* transient: an outcome that settles something is reached if it keeps being
\* possible.  Each of these happens finitely often.
Settles(c) ==
  \/ (RecoverUnidentified(c) \/ Retire(c) \/ AwaitRetirement(c))
       /\ call'[c].at \in {"rotate", "salvage"}
  \/ RecoverAdopt(c)
  \/ DeclareDied(c) /\ ledger'[call[c].job].state # "running"
  \/ \E j \in Jobs : HarvestResult(c, j) \/ CloseExpired(c, j) \/ RecoverArtifact(c, j)

\* A worker goes on, and its guard ends it at the latest at its wall clock.
WorkerProceeds(j, n) ==
  \/ LoadSpec(j, n) \/ PublishIdentity(j, n) \/ PassFence(j, n) \/ InterruptWorker(j, n)
  \/ worker[j][n].stage = "published" /\ ExitWorker(j, n)

\* Nothing forces anyone to deploy, to kill or to consume, and any process
\* may crash as often as the bound allows.
Fairness ==
  /\ \A c \in Callers : /\ WF_vars(Proceeds(c))
                        /\ SF_vars(Settles(c))
                        /\ \A j \in Jobs : SF_vars(Reconciles(c, j))
  /\ \A j \in Jobs, n \in Nonces : SF_vars(WorkerProceeds(j, n))

FairSpec == Spec /\ Fairness

\* A launch never stays half done: whatever crashed, its entry is adopted,
\* retried a bounded number of times, or closed.
LaunchResolves == \A j \in Jobs : ledger[j].state = "deployed" ~> ledger[j].state # "deployed"

\* A running job reaches a verdict, and with it gives back its slot.
RunningResolves ==
  \A j \in Jobs : ledger[j].state = "running" ~> ledger[j].state \in L!TerminalStates

\* A success published by the worker of a running job becomes its result, even
\* if a died, timeout or kill verdict is reached first.  Only checked helpers
\* of the same launch may have taken its place (DeliverableKept).
SuccessIsHarvested ==
  \A j \in Jobs :
    Running(j) /\ BoundFiles(j).result = "ok"
      ~> \/ ledger[j].result = "full"
         \/ ledger[j].result = "partial" /\ BoundFiles(j).evidence
=============================================================================
