------------------------- MODULE AsyncDispatch_proofs -------------------------
(***************************************************************************)
(* Theorems about AsyncDispatch for any jobs, callers, cap, attempts and   *)
(* crashes.                                                                *)
(***************************************************************************)
EXTENDS AsyncDispatch, FiniteSetTheorems, TLAPS

-----------------------------------------------------------------------------
(* The inductive type invariant: a launch under way always has a nonce, and *)
(* a call in progress a job; nothing becomes stuck without a sync deploy.   *)

GoodEntries ==
  {e \in Entries : /\ e.state # "stuck"
                   /\ e.state \in {"deployed", "running"} => e.nonce \in Nonces}

GoodCalls ==
  {r \in Calls : /\ r.at # "idle" => r.job \in Jobs
                 /\ r.at \in LaunchSteps \cup RecoverySteps => r.nonce \in Nonces}

TypeInv ==
  /\ ledger \in [Jobs -> GoodEntries]
  /\ spec \in [Jobs -> 0..MaxNonce]
  /\ issued \in [Jobs -> 0..MaxNonce]
  /\ worker \in [Jobs -> [Nonces -> WorkerStates]]
  /\ files \in [Jobs -> [Nonces -> FileStates]]
  /\ call \in [Callers -> GoodCalls]
  /\ epoch \in [Callers -> Epochs]

\* There are finitely many nonces.
LEMMA MaxNonceType == MaxNonce \in Nat
BY FiniteAssumption, NumbersAssumption, FS_CardinalityType DEF MaxNonce, LostNonces

\* Updating one cell of a table.
LEMMA CellUpdate ==
  ASSUME NEW A, NEW B, NEW S, NEW f \in [A -> [B -> S]], NEW a \in A, NEW b, NEW v,
         b \in B => v \in S
  PROVE  [f EXCEPT ![a][b] = v] \in [A -> [B -> S]]
OBVIOUS

\* The records of workers and files keep their types.
LEMMA WorkerUpdate ==
  ASSUME NEW w \in WorkerStates
  PROVE  /\ \A s \in Stages : [w EXCEPT !.stage = s] \in WorkerStates
         /\ [w EXCEPT !.signaled = TRUE] \in WorkerStates
BY DEF WorkerStates

\* The artifacts of a nonce keep their types, field by field.
LEMMA FilesUpdate ==
  ASSUME NEW f \in FileStates
  PROVE  /\ \A p \in Pids : [f EXCEPT !.receipt = p] \in FileStates
         /\ \A r \in Outcomes : [f EXCEPT !.result = r] \in FileStates
         /\ \A b \in BOOLEAN : [f EXCEPT !.evidence = b] \in FileStates
         /\ \A a \in SUBSET Artifacts : [f EXCEPT !.late = a] \in FileStates
         /\ f.late \in SUBSET Artifacts
BY DEF FileStates

\* A process identity is one of the pids.
LEMMA PidType ==
  ASSUME TypeInv, NEW c \in Callers
  PROVE  Pid(c) \in Pids
BY DEF Pid, Pids, TypeInv

\* A worker that goes on keeps the types of the workers.
LEMMA WorkerGoesType ==
  ASSUME TypeInv, NEW j \in Jobs, NEW n \in Nonces, NEW s \in Stages, WorkerGoes(j, n, s)
  PROVE  worker' \in [Jobs -> [Nonces -> WorkerStates]]
<1>1. worker[j][n] \in WorkerStates
  BY DEF TypeInv
<1>2. [worker[j][n] EXCEPT !.stage = s] \in WorkerStates
  BY <1>1, WorkerUpdate
<1>3. worker' = [worker EXCEPT ![j][n] = [worker[j][n] EXCEPT !.stage = s]]
  BY DEF WorkerGoes
<1> QED
  BY <1>2, <1>3, CellUpdate DEF TypeInv

\* So does a signal, even under a nonce that names no process.
LEMMA SignalType ==
  ASSUME TypeInv, NEW j \in Jobs, NEW n, Signal(j, n)
  PROVE  worker' \in [Jobs -> [Nonces -> WorkerStates]]
<1>1. n \in Nonces => worker[j][n] \in WorkerStates
  BY DEF TypeInv
<1>2. n \in Nonces => [worker[j][n] EXCEPT !.signaled = TRUE] \in WorkerStates
  BY <1>1, WorkerUpdate
<1>3. worker' = [worker EXCEPT ![j][n] = [worker[j][n] EXCEPT !.signaled = TRUE]]
  BY DEF Signal
<1> QED
  BY <1>2, <1>3, CellUpdate DEF TypeInv

\* Dropping the helper evidence keeps the types of the artifacts.
LEMMA DropEvidenceType ==
  ASSUME TypeInv, NEW j \in Jobs, DropEvidence(j)
  PROVE  files' \in [Jobs -> [Nonces -> FileStates]]
<1> DEFINE n == ledger[j].nonce
           f == [files[j][n] EXCEPT !.evidence = FALSE]
<1>1. n \in Nonces => files[j][n] \in FileStates
  BY DEF TypeInv
<1>2. n \in Nonces => f \in FileStates
  BY <1>1, FilesUpdate
<1>3. files' = [files EXCEPT ![j][n] = f]
  BY DEF DropEvidence
<1>4. files \in [Jobs -> [Nonces -> FileStates]]
  BY DEF TypeInv
<1> HIDE DEF n, f
<1> QED
  BY <1>2, <1>3, <1>4, CellUpdate
-----------------------------------------------------------------------------
(* What each step does to the ledger *)

\* The transition table, row by row.
LEMMA Edges ==
  /\ L!CanTransition("proposed", "deployed") /\ L!CanTransition("proposed", "killed")
  /\ L!CanTransition("deployed", "running") /\ L!CanTransition("deployed", "failed")
  /\ L!CanTransition("deployed", "killed")
  /\ L!CanTransition("running", "done") /\ L!CanTransition("running", "failed")
  /\ L!CanTransition("running", "killed")
BY DEF L!CanTransition, L!Transitions, L!States

\* Only an open job can be killed.
LEMMA KillEdges ==
  ASSUME NEW s \in L!States \ {"stuck"}, L!CanTransition(s, "killed")
  PROVE  s \in {"proposed", "deployed", "running"}
BY DEF L!CanTransition, L!Transitions, L!States

\* An open job moves along an edge of the state machine.
Moves(j) ==
  /\ ledger[j].state \in {"proposed", "deployed", "running"}
  /\ L!CanTransition(ledger[j].state, ledger'[j].state)
  /\ ledger'[j].state = "deployed" => Cardinality(L!InFlight) < Cap
  /\ ledger'[j].consumed = ledger[j].consumed

\* What may overturn a verdict, and what the job is done with then.
Overturns(j, result) ==
  \/ result = "full" /\ BoundFiles(j).result = "ok" /\ "result" \notin BoundFiles(j).late
  \/ result = "partial" /\ BoundFiles(j).evidence /\ "evidence" \notin BoundFiles(j).late

\* A verdict gives way to an artifact, not a later one, of a process that is gone.
IsRestored(j) ==
  /\ ledger[j].state \in {"killed", "failed"}
  /\ ledger'[j].state = "done"
  /\ Overturns(j, ledger'[j].result)
  /\ WorkerExited(j, ledger[j].nonce)
  /\ ~ledger[j].consumed
  /\ ledger'[j].consumed = ledger[j].consumed

IsConsumed(j) ==
  /\ ledger[j].state = "done" /\ ledger'[j].state = "done"
  /\ ~ledger[j].consumed /\ ledger'[j].consumed

IsRewritten(j) ==
  /\ ledger'[j].state = ledger[j].state
  /\ ledger'[j].consumed = ledger[j].consumed

EntryStep(j) ==
  /\ ledger' \in [Jobs -> GoodEntries]
  /\ \A i \in Jobs \ {j} : ledger'[i] = ledger[i]
  /\ Moves(j) \/ IsRestored(j) \/ IsConsumed(j) \/ IsRewritten(j)

LedgerStep == UNCHANGED ledger \/ \E j \in Jobs : EntryStep(j)

\* Closing an open job is a move.
LEMMA ClosedStep ==
  ASSUME TypeInv, NEW j \in Jobs, NEW s \in {"done", "failed", "killed"},
         NEW r \in Results, NEW note \in Notes,
         SetEntry(j, Closed(j, s, r, note)),
         L!CanTransition(ledger[j].state, s)
  PROVE  EntryStep(j)
<1> DEFINE e == Closed(j, s, r, note)
<1>1. ledger[j] \in Entries /\ ledger[j].state # "stuck"
  BY DEF TypeInv, GoodEntries
<1>2. e \in GoodEntries /\ e.state = s /\ e.consumed = ledger[j].consumed
  BY <1>1 DEF Closed, Entries, GoodEntries, L!States
<1>3. ledger' = [ledger EXCEPT ![j] = e]
  BY DEF SetEntry
<1>4. ledger[j].state \in {"proposed", "deployed", "running"}
  BY <1>1 DEF Entries, L!CanTransition, L!Transitions, L!States
<1> HIDE DEF e
<1>5. ledger' \in [Jobs -> GoodEntries] /\ ledger'[j] = e /\ \A i \in Jobs \ {j} : ledger'[i] = ledger[i]
  BY <1>2, <1>3 DEF TypeInv
<1> QED
  BY <1>2, <1>4, <1>5 DEF EntryStep, Moves

\* Adopting or committing a reserved launch is a move to running.
LEMMA RunningStep ==
  ASSUME TypeInv, NEW j \in Jobs, SetRunning(j), ledger[j].state = "deployed"
  PROVE  EntryStep(j)
<1> DEFINE e == [ledger[j] EXCEPT !.state = "running", !.owned = TRUE, !.note = "none"]
<1>1. ledger[j] \in Entries /\ ledger[j].nonce \in Nonces
  BY DEF TypeInv, GoodEntries
<1>2. e \in GoodEntries /\ e.state = "running" /\ e.consumed = ledger[j].consumed
  BY <1>1 DEF Entries, GoodEntries, L!States, Notes
<1>3. ledger' = [ledger EXCEPT ![j] = e]
  BY DEF SetRunning, SetEntry
<1> HIDE DEF e
<1>4. ledger' \in [Jobs -> GoodEntries] /\ ledger'[j] = e /\ \A i \in Jobs \ {j} : ledger'[i] = ledger[i]
  BY <1>2, <1>3 DEF TypeInv
<1> QED
  BY <1>2, <1>4, Edges DEF EntryStep, Moves

\* A harvest of a running job is a move to its verdict.
LEMMA HarvestStep ==
  ASSUME TypeInv, NEW j \in Jobs, ledger[j].state = "running",
         HarvestSuccess(j) \/ HarvestEvidence(j) \/ HarvestFailure(j)
  PROVE  EntryStep(j) /\ files' \in [Jobs -> [Nonces -> FileStates]]
<1>1. CASE HarvestSuccess(j)
  BY <1>1, DropEvidenceType, ClosedStep, Edges DEF HarvestSuccess, Results, Notes
<1>2. CASE HarvestEvidence(j)
  BY <1>2, ClosedStep, Edges DEF HarvestEvidence, Results, Notes, TypeInv
<1>3. CASE HarvestFailure(j)
  BY <1>3, ClosedStep, Edges DEF HarvestFailure, Results, Notes, TypeInv
<1> QED
  BY <1>1, <1>2, <1>3

\* The verdict on an exited worker is a move out of running.
LEMMA CloseExitedStep ==
  ASSUME TypeInv, NEW j \in Jobs, ledger[j].state = "running",
         NEW s \in {"failed", "killed"}, NEW note \in Notes, CloseExited(j, s, note)
  PROVE  EntryStep(j) /\ files' \in [Jobs -> [Nonces -> FileStates]]
<1>1. CASE HarvestSuccess(j) \/ HarvestEvidence(j)
  BY <1>1, HarvestStep
<1>2. CASE SetEntry(j, Closed(j, s, "none", note)) /\ UNCHANGED files
  BY <1>2, ClosedStep, Edges DEF Results, TypeInv
<1> QED
  BY <1>1, <1>2 DEF CloseExited

\* A rewrite within the same state changes nothing the ledger promises.
LEMMA RewriteStep ==
  ASSUME TypeInv, NEW j \in Jobs, NEW e \in GoodEntries, SetEntry(j, e),
         e.state = ledger[j].state, e.consumed = ledger[j].consumed
  PROVE  EntryStep(j)
BY DEF SetEntry, EntryStep, IsRewritten, TypeInv
-----------------------------------------------------------------------------
(* What each step does to its call *)

\* Returning leaves a well-formed idle call.
LEMMA ReturnType ==
  ASSUME TypeInv, NEW c \in Callers, Return(c)
  PROVE  call' \in [Callers -> GoodCalls]
BY MaxNonceType
DEF Return, Idle, TypeInv, GoodCalls, Calls, Steps, LaunchSteps, RecoverySteps

\* A call goes on from launching or recovering to any step, and from any step
\* to one that needs no nonce.
LEMMA GotoType ==
  ASSUME TypeInv, NEW c \in Callers, NEW s \in Steps, Goto(c, s), call[c].at # "idle",
         s \in LaunchSteps \cup RecoverySteps => call[c].at \in LaunchSteps \cup RecoverySteps
  PROVE  call' \in [Callers -> GoodCalls]
<1>1. call[c] \in GoodCalls
  BY DEF TypeInv
<1>2. [call[c] EXCEPT !.at = s] \in GoodCalls
  BY <1>1 DEF GoodCalls, Calls
<1>3. call' = [call EXCEPT ![c] = [call[c] EXCEPT !.at = s]]
  BY DEF Goto
<1> QED
  BY <1>2, <1>3 DEF TypeInv

\* A new call on job j.
LEMMA BeginType ==
  ASSUME TypeInv, NEW c \in Callers, NEW s \in Steps, NEW j \in Jobs,
         NEW n \in 0..MaxNonce, NEW b \in BOOLEAN,
         s \in LaunchSteps \cup RecoverySteps => n \in Nonces,
         call' = [call EXCEPT ![c] = [at |-> s, job |-> j, nonce |-> n,
                                      locked |-> b, evidence |-> FALSE]]
  PROVE  call' \in [Callers -> GoodCalls]
<1>1. [at |-> s, job |-> j, nonce |-> n, locked |-> b, evidence |-> FALSE] \in GoodCalls
  BY DEF GoodCalls, Calls
<1> QED
  BY <1>1 DEF TypeInv

\* A call in progress has a job, and one that launches or recovers a nonce.
LEMMA CallFacts ==
  ASSUME TypeInv, NEW c \in Callers, call[c].at # "idle"
  PROVE  /\ call[c].job \in Jobs
         /\ call[c].at \in LaunchSteps \cup RecoverySteps => call[c].nonce \in Nonces
         /\ call[c].nonce \in 0..MaxNonce
BY DEF TypeInv, GoodCalls, Calls

\* An entry has its type, and a deployed or running job a nonce.
LEMMA JobFacts ==
  ASSUME TypeInv, NEW j \in Jobs
  PROVE  /\ ledger[j] \in GoodEntries
         /\ ledger[j].nonce \in 0..MaxNonce
         /\ ledger[j].state \in {"deployed", "running"} => ledger[j].nonce \in Nonces
BY DEF TypeInv, GoodEntries, Entries

\* The next nonce is one.
LEMMA NextNonce ==
  ASSUME TypeInv, NEW j \in Jobs, issued[j] < MaxNonce
  PROVE  /\ issued[j] + 1 \in Nonces
         /\ issued[j] + 1 \in 0..MaxNonce
<1>1. issued[j] \in 0..MaxNonce
  BY DEF TypeInv
<1> QED
  BY <1>1, MaxNonceType DEF Nonces
-----------------------------------------------------------------------------
(* Every step keeps the types and the ledger's promise *)

StepOK == TypeInv' /\ LedgerStep

\* Steps that only move the call on.
LEMMA CallStepOK ==
  ASSUME TypeInv, NEW c \in Callers, UNCHANGED <<ledger, spec, issued, worker, files, epoch>>,
         call' \in [Callers -> GoodCalls]
  PROVE  StepOK
BY DEF StepOK, TypeInv, LedgerStep

\* A transaction cut short leaves a spec and a nonce count of their types.
LEMMA SpecAheadType ==
  ASSUME TypeInv, NEW c \in Callers, SpecAhead(c)
  PROVE  issued' \in [Jobs -> 0..MaxNonce] /\ spec' \in [Jobs -> 0..MaxNonce]
<1>1. call[c].job \in Jobs
  BY CallFacts DEF SpecAhead
<1>2. CASE UNCHANGED issued /\ spec' = [spec EXCEPT ![call[c].job] = 0]
  BY <1>1, <1>2, MaxNonceType DEF TypeInv
<1>3. CASE /\ issued[call[c].job] < MaxNonce
           /\ issued' = [issued EXCEPT ![call[c].job] = @ + 1]
           /\ spec' = [spec EXCEPT ![call[c].job] = issued[call[c].job] + 1]
  <2>1. issued[call[c].job] + 1 \in 0..MaxNonce
    BY <1>1, <1>3, NextNonce
  <2> QED
    BY <1>1, <1>3, <2>1 DEF TypeInv
<1> QED
  BY <1>2, <1>3 DEF SpecAhead

\* The steps of a launch.
LEMMA LaunchOK ==
  ASSUME TypeInv, NEW c \in Callers, LaunchNext(c)
  PROVE  StepOK
<1> USE DEF LaunchSteps, Steps, StepOK, LedgerStep
<1>1. ASSUME NEW j \in Jobs, DeployAsync(c, j) PROVE StepOK
  <2>1. CASE ledger[j].state = "proposed" /\ UNCHANGED <<spec, worker, files, epoch>>
    <3>1. /\ issued[j] < MaxNonce
          /\ issued' = [issued EXCEPT ![j] = @ + 1]
          /\ Cardinality(L!InFlight) < Cap
      BY <1>1, <2>1 DEF DeployAsync
    <3> DEFINE n == issued[j] + 1
               e == [ledger[j] EXCEPT !.state = "deployed", !.nonce = n, !.attempt = 1]
    <3>2. SetEntry(j, e)
      BY <1>1, <2>1 DEF DeployAsync
    <3>3. call' = [call EXCEPT ![c] = [at |-> "recheck", job |-> j, nonce |-> n,
                                       locked |-> TRUE, evidence |-> FALSE]]
      BY <1>1, <2>1 DEF DeployAsync
    <3>4. n \in Nonces /\ n \in 0..MaxNonce
      BY <3>1, NextNonce
    <3>5. issued' \in [Jobs -> 0..MaxNonce]
      BY <3>1, <3>4 DEF TypeInv
    <3> HIDE DEF n
    <3>6. 1 \in 0..MaxAttempts
      BY NumbersAssumption
    <3>7. e \in GoodEntries /\ e.state = "deployed" /\ e.consumed = ledger[j].consumed
      BY <3>4, <3>6, JobFacts DEF GoodEntries, Entries, L!States
    <3> HIDE DEF e
    <3>8. EntryStep(j)
      BY <2>1, <3>1, <3>2, <3>7, Edges DEF EntryStep, Moves, SetEntry, TypeInv
    <3>9. call' \in [Callers -> GoodCalls]
      BY <3>3, <3>4, BeginType
    <3> QED
      BY <2>1, <3>5, <3>8, <3>9 DEF EntryStep, TypeInv
  <2>2. CASE ledger[j].state = "deployed"
    <3>1. UNCHANGED <<ledger, spec, issued, worker, files, epoch>>
      BY <1>1, <2>2 DEF DeployAsync
    <3>2. call' = [call EXCEPT ![c] = [at |-> "recover", job |-> j, nonce |-> ledger[j].nonce,
                                       locked |-> TRUE, evidence |-> FALSE]]
      BY <1>1, <2>2 DEF DeployAsync
    <3>3. call' \in [Callers -> GoodCalls]
      BY <2>2, <3>2, BeginType, JobFacts DEF RecoverySteps
    <3> QED
      BY <3>1, <3>3, CallStepOK
  <2> QED
    BY <1>1, <2>1, <2>2 DEF DeployAsync
<1>2. CASE Recheck(c) \/ LaunchRaises(c)
  <2>1. call' \in [Callers -> GoodCalls]
    BY <1>2, GotoType, ReturnType DEF Recheck, LaunchRaises
  <2> QED
    BY <1>2, <2>1, CallStepOK DEF Recheck, LaunchRaises
<1>8. CASE TransactionRaises(c)
  <2>1. call' \in [Callers -> GoodCalls]
    BY <1>8, ReturnType DEF TransactionRaises
  <2>2. issued' \in [Jobs -> 0..MaxNonce] /\ spec' \in [Jobs -> 0..MaxNonce]
    BY <1>8, SpecAheadType DEF TransactionRaises, TypeInv
  <2> QED
    BY <1>8, <2>1, <2>2 DEF TransactionRaises, TypeInv
<1>3. CASE WriteSpec(c)
  <2>1. call[c].job \in Jobs /\ call[c].nonce \in Nonces
    BY <1>3, CallFacts DEF WriteSpec
  <2>2. files' \in [Jobs -> [Nonces -> FileStates]]
    BY <1>3, <2>1, CellUpdate DEF WriteSpec, NoFiles, NoPid, FileStates, Pids, Outcomes, Epochs, TypeInv
  <2>3. spec' \in [Jobs -> 0..MaxNonce]
    BY <1>3, <2>1, MaxNonceType DEF WriteSpec, TypeInv, Nonces
  <2>4. call' \in [Callers -> GoodCalls]
    BY <1>3, GotoType DEF WriteSpec
  <2> QED
    BY <1>3, <2>2, <2>3, <2>4 DEF WriteSpec, TypeInv
<1>4. CASE SpawnWorker(c)
  <2>1. call[c].job \in Jobs /\ call[c].nonce \in Nonces
    BY <1>4, CallFacts DEF SpawnWorker
  <2>2. [stage |-> "started", signaled |-> FALSE, parent |-> Pid(c)] \in WorkerStates
    BY PidType DEF WorkerStates, Stages
  <2>3. worker' \in [Jobs -> [Nonces -> WorkerStates]]
    BY <1>4, <2>1, <2>2, CellUpdate DEF SpawnWorker, TypeInv
  <2>4. call' \in [Callers -> GoodCalls]
    BY <1>4, GotoType DEF SpawnWorker
  <2> QED
    BY <1>4, <2>3, <2>4 DEF SpawnWorker, TypeInv
<1>5. CASE PublishReceipt(c)
  <2> DEFINE j == call[c].job
             n == call[c].nonce
             f == [files[j][n] EXCEPT !.receipt = Pid(c)]
  <2>1. j \in Jobs /\ n \in Nonces
    BY <1>5, CallFacts DEF PublishReceipt
  <2>2. f \in FileStates
    BY <2>1, PidType, FilesUpdate DEF TypeInv
  <2>3. files' = [files EXCEPT ![j][n] = f]
    BY <1>5 DEF PublishReceipt
  <2>4. files \in [Jobs -> [Nonces -> FileStates]]
    BY DEF TypeInv
  <2>5. call' \in [Callers -> GoodCalls]
    BY <1>5, GotoType DEF PublishReceipt
  <2> HIDE DEF j, n, f
  <2>6. files' \in [Jobs -> [Nonces -> FileStates]]
    BY <2>1, <2>2, <2>3, <2>4, CellUpdate
  <2> QED
    BY <1>5, <2>5, <2>6 DEF PublishReceipt, TypeInv
<1>6. CASE FailLaunch(c)
  <2>1. call[c].job \in Jobs
    BY <1>6, CallFacts DEF FailLaunch
  <2>2. LedgerStep /\ spec' \in [Jobs -> 0..MaxNonce] /\ ledger' \in [Jobs -> GoodEntries]
    <3>1. CASE StillReserved(c)
      BY <1>6, <2>1, <3>1, ClosedStep, Edges, MaxNonceType
      DEF FailLaunch, StillReserved, TypeInv, Results, Notes, EntryStep
    <3>2. CASE ~StillReserved(c)
      BY <1>6, <3>2 DEF FailLaunch, TypeInv
    <3> QED
      BY <3>1, <3>2
  <2>3. call' \in [Callers -> GoodCalls]
    BY <1>6, ReturnType DEF FailLaunch
  <2> QED
    BY <1>6, <2>2, <2>3 DEF FailLaunch, TypeInv
<1>7. CASE CommitRunning(c)
  <2>1. call[c].job \in Jobs
    BY <1>7, CallFacts DEF CommitRunning
  <2>2. LedgerStep /\ ledger' \in [Jobs -> GoodEntries]
    BY <1>7, <2>1, RunningStep DEF CommitRunning, StillReserved, EntryStep, TypeInv
  <2>3. worker' \in [Jobs -> [Nonces -> WorkerStates]]
    BY <1>7, <2>1, SignalType DEF CommitRunning, TypeInv
  <2>4. call' \in [Callers -> GoodCalls]
    BY <1>7, ReturnType DEF CommitRunning
  <2> QED
    BY <1>7, <2>2, <2>3, <2>4 DEF CommitRunning, TypeInv
<1> QED
  BY <1>1, <1>2, <1>3, <1>4, <1>5, <1>6, <1>7, <1>8 DEF LaunchNext

\* The steps of a recovery.
LEMMA RecoveryOK ==
  ASSUME TypeInv, NEW c \in Callers, RecoveryNext(c)
  PROVE  StepOK
<1> USE DEF RecoverySteps, LaunchSteps, Steps, StepOK, LedgerStep
<1>1. ASSUME NEW j \in Jobs, ReconcileDeployed(c, j) PROVE StepOK
  <2>1. call' \in [Callers -> GoodCalls]
    BY <1>1, BeginType, JobFacts DEF ReconcileDeployed
  <2> QED
    BY <1>1, <2>1, CallStepOK DEF ReconcileDeployed
<1>2. CASE RecoverUnidentified(c)
  <2>1. call' \in [Callers -> GoodCalls]
    BY <1>2, GotoType, ReturnType DEF RecoverUnidentified
  <2> QED
    BY <1>2, <2>1, CallStepOK DEF RecoverUnidentified
<1>3. CASE RecoverAdopt(c)
  <2>1. call[c].job \in Jobs
    BY <1>3, CallFacts DEF RecoverAdopt
  <2>2. LedgerStep /\ ledger' \in [Jobs -> GoodEntries]
    BY <1>3, <2>1, RunningStep DEF RecoverAdopt, StillReserved, EntryStep, TypeInv
  <2>3. call' \in [Callers -> GoodCalls]
    BY <1>3, GotoType, ReturnType DEF RecoverAdopt
  <2> QED
    BY <1>3, <2>2, <2>3 DEF RecoverAdopt, TypeInv
<1>4. CASE RecoverRetire(c)
  <2> DEFINE b == files[call[c].job][call[c].nonce].evidence
             r == [call[c] EXCEPT !.at = "retire", !.evidence = b]
  <2>1. call[c].job \in Jobs /\ call[c].nonce \in Nonces
    BY <1>4, CallFacts DEF RecoverRetire
  <2>2. b \in BOOLEAN
    BY <2>1 DEF TypeInv, FileStates
  <2>3. call' = [call EXCEPT ![c] = r]
    BY <1>4 DEF RecoverRetire
  <2> HIDE DEF b
  <2>4. r \in GoodCalls
    BY <2>1, <2>2 DEF TypeInv, GoodCalls, Calls
  <2> HIDE DEF r
  <2>5. call' \in [Callers -> GoodCalls]
    BY <2>3, <2>4 DEF TypeInv
  <2> QED
    BY <1>4, <2>5, CallStepOK DEF RecoverRetire
<1>5. ASSUME AfterRetirement(c), call[c].at \in {"retire", "await"},
             UNCHANGED <<spec, issued, worker, files, epoch>>
      PROVE  StepOK
  <2>1. call[c].job \in Jobs
    BY <1>5, CallFacts
  <2>2. LedgerStep /\ ledger' \in [Jobs -> GoodEntries]
    BY <1>5, <2>1, RunningStep DEF AfterRetirement, StillReserved, EntryStep, TypeInv
  <2>3. call' \in [Callers -> GoodCalls]
    BY <1>5, GotoType, ReturnType DEF AfterRetirement
  <2> QED
    BY <1>5, <2>2, <2>3 DEF TypeInv
<1>6. CASE Retire(c)
  <2>1. CASE AfterRetirement(c) /\ UNCHANGED worker
    BY <1>5, <1>6, <2>1 DEF Retire
  <2>2. CASE Signal(call[c].job, call[c].nonce) /\ Goto(c, "await") /\ UNCHANGED ledger
    <3>1. worker' \in [Jobs -> [Nonces -> WorkerStates]]
      BY <1>6, <2>2, CallFacts, SignalType DEF Retire
    <3>2. call' \in [Callers -> GoodCalls]
      BY <1>6, <2>2, GotoType DEF Retire
    <3> QED
      BY <1>6, <2>2, <3>1, <3>2 DEF Retire, TypeInv
  <2>3. CASE Return(c) /\ UNCHANGED <<ledger, worker>>
    BY <1>6, <2>3, ReturnType, CallStepOK DEF Retire
  <2> QED
    BY <1>6, <2>1, <2>2, <2>3 DEF Retire
<1>7. CASE AwaitRetirement(c)
  <2>1. CASE AfterRetirement(c)
    BY <1>5, <1>7, <2>1 DEF AwaitRetirement
  <2>2. CASE Return(c) /\ UNCHANGED ledger
    BY <1>7, <2>2, ReturnType, CallStepOK DEF AwaitRetirement
  <2> QED
    BY <1>7, <2>1, <2>2 DEF AwaitRetirement
<1>8. CASE Salvage(c)
  <2>1. call[c].job \in Jobs
    BY <1>8, CallFacts DEF Salvage
  <2>2. LedgerStep /\ ledger' \in [Jobs -> GoodEntries]
    BY <1>8, <2>1, ClosedStep, Edges DEF Salvage, Running, Results, Notes, EntryStep, TypeInv
  <2>3. call' \in [Callers -> GoodCalls]
    BY <1>8, ReturnType DEF Salvage
  <2> QED
    BY <1>8, <2>2, <2>3 DEF Salvage, TypeInv
<1>9. CASE HarvestAdopted(c)
  <2>1. call[c].job \in Jobs
    BY <1>9, CallFacts DEF HarvestAdopted
  <2>2. /\ LedgerStep /\ ledger' \in [Jobs -> GoodEntries]
        /\ files' \in [Jobs -> [Nonces -> FileStates]]
    BY <1>9, <2>1, HarvestStep DEF HarvestAdopted, Harvestable, Running, EntryStep, TypeInv
  <2>3. call' \in [Callers -> GoodCalls]
    BY <1>9, ReturnType DEF HarvestAdopted
  <2> QED
    BY <1>9, <2>2, <2>3 DEF HarvestAdopted, TypeInv
<1>10. CASE RotateNonce(c)
  <2> DEFINE j == call[c].job
  <2>0. j \in Jobs /\ call[c].at \in RecoverySteps
    BY <1>10, CallFacts DEF RotateNonce
  <2>1. CASE ~StillReserved(c)
    BY <1>10, <2>1, ReturnType, CallStepOK DEF RotateNonce
  <2>2. CASE /\ StillReserved(c)
             /\ spec' = [spec EXCEPT ![j] = 0]
             /\ SetEntry(j, Closed(j, "failed", "none", "none"))
             /\ Return(c)
             /\ UNCHANGED issued
    <3>1. EntryStep(j)
      BY <2>0, <2>2, ClosedStep, Edges DEF StillReserved, Results, Notes
    <3>2. call' \in [Callers -> GoodCalls]
      BY <2>2, ReturnType
    <3>3. spec' \in [Jobs -> 0..MaxNonce]
      BY <2>0, <2>2, MaxNonceType DEF TypeInv
    <3> QED
      BY <1>10, <2>0, <2>2, <3>1, <3>2, <3>3 DEF RotateNonce, EntryStep, TypeInv
  <2>3. CASE /\ StillReserved(c)
             /\ ledger[j].attempt < MaxAttempts
             /\ issued[j] < MaxNonce
             /\ issued' = [issued EXCEPT ![j] = @ + 1]
             /\ spec' = [spec EXCEPT ![j] = issued[j] + 1]
             /\ SetEntry(j, [ledger[j] EXCEPT !.nonce = issued[j] + 1, !.attempt = @ + 1,
                                              !.owned = FALSE])
             /\ call' = [call EXCEPT ![c].at = "recheck", ![c].nonce = issued[j] + 1]
    <3> DEFINE n == issued[j] + 1
               a == ledger[j].attempt + 1
               e == [ledger[j] EXCEPT !.nonce = n, !.attempt = a, !.owned = FALSE]
               r == [call[c] EXCEPT !.at = "recheck", !.nonce = n]
    <3>1. n \in Nonces /\ n \in 0..MaxNonce
      BY <2>0, <2>3, NextNonce
    <3>2. issued' \in [Jobs -> 0..MaxNonce] /\ spec' \in [Jobs -> 0..MaxNonce]
      BY <2>0, <2>3, <3>1 DEF TypeInv
    <3>3. a \in 0..MaxAttempts
      BY <2>0, <2>3, NumbersAssumption, JobFacts DEF GoodEntries, Entries
    <3>4. SetEntry(j, e)
      BY <2>3
    <3>5. call' = [call EXCEPT ![c] = r]
      BY <2>3
    <3>6. call[c] \in GoodCalls
      BY DEF TypeInv
    <3> HIDE DEF n, a
    <3>7. e \in GoodEntries /\ e.state = ledger[j].state /\ e.consumed = ledger[j].consumed
      BY <2>0, <3>1, <3>3, JobFacts DEF GoodEntries, Entries
    <3>8. r \in GoodCalls
      BY <2>0, <3>1, <3>6 DEF GoodCalls, Calls
    <3> HIDE DEF e, r
    <3>9. EntryStep(j)
      BY <2>0, <3>4, <3>7, RewriteStep
    <3>10. call' \in [Callers -> GoodCalls]
      BY <3>5, <3>8 DEF TypeInv
    <3> QED
      BY <1>10, <2>0, <3>2, <3>9, <3>10 DEF RotateNonce, EntryStep, TypeInv
  <2> QED
    BY <1>10, <2>1, <2>2, <2>3 DEF RotateNonce
<1> QED
  BY <1>1, <1>2, <1>3, <1>4, <1>6, <1>7, <1>8, <1>9, <1>10 DEF RecoveryNext

\* The steps on running jobs and on verdicts.
LEMMA RunningOK ==
  ASSUME TypeInv, NEW c \in Callers, RunningNext(c)
  PROVE  StepOK
<1> USE DEF LaunchSteps, RecoverySteps, Steps, StepOK, LedgerStep
<1>1. ASSUME NEW j \in Jobs, HarvestResult(c, j) PROVE StepOK
  <2>1. /\ EntryStep(j)
        /\ files' \in [Jobs -> [Nonces -> FileStates]]
    BY <1>1, HarvestStep DEF HarvestResult, Harvestable, Running
  <2> QED
    BY <1>1, <2>1 DEF HarvestResult, EntryStep, TypeInv
<1>2. ASSUME NEW j \in Jobs, FindNothing(c, j) PROVE StepOK
  <2>1. call' \in [Callers -> GoodCalls]
    BY <1>2, BeginType, JobFacts DEF FindNothing
  <2> QED
    BY <1>2, <2>1, CallStepOK DEF FindNothing
<1>3. ASSUME NEW j \in Jobs, MarkExpired(c, j) PROVE StepOK
  <2> DEFINE e == [ledger[j] EXCEPT !.note = "pending"]
  <2>1. e \in GoodEntries /\ e.state = ledger[j].state /\ e.consumed = ledger[j].consumed
    BY JobFacts DEF GoodEntries, Entries, Notes
  <2>2. SetEntry(j, e)
    BY <1>3 DEF MarkExpired
  <2> HIDE DEF e
  <2>3. EntryStep(j)
    BY <2>1, <2>2, RewriteStep
  <2>4. call' \in [Callers -> GoodCalls]
    BY <1>3, BeginType, JobFacts DEF MarkExpired
  <2> QED
    BY <1>3, <2>3, <2>4 DEF MarkExpired, EntryStep, TypeInv
<1>4. ASSUME NEW j \in Jobs, CloseExpired(c, j) PROVE StepOK
  <2>1. /\ EntryStep(j)
        /\ files' \in [Jobs -> [Nonces -> FileStates]]
    BY <1>4, CloseExitedStep DEF CloseExpired, Running, Notes
  <2> QED
    BY <1>4, <2>1 DEF CloseExpired, EntryStep, TypeInv
<1>5. ASSUME NEW j \in Jobs, Consume(c, j) PROVE StepOK
  <2> DEFINE e == [ledger[j] EXCEPT !.consumed = TRUE]
  <2>1. e \in GoodEntries /\ e.state = ledger[j].state /\ e.consumed
    BY JobFacts DEF GoodEntries, Entries
  <2>2. ledger' = [ledger EXCEPT ![j] = e]
    BY <1>5 DEF Consume, SetEntry
  <2> HIDE DEF e
  <2>3. EntryStep(j)
    BY <1>5, <2>1, <2>2 DEF Consume, EntryStep, IsConsumed, TypeInv
  <2> QED
    BY <1>5, <2>3 DEF Consume, EntryStep, TypeInv
<1>6. ASSUME NEW j \in Jobs, RecoverArtifact(c, j) PROVE StepOK
  <2>1. /\ ledger[j].state \in {"killed", "failed"}
        /\ WorkerExited(j, ledger[j].nonce)
        /\ ~ledger[j].consumed
    BY <1>6 DEF RecoverArtifact, Recoverable, RecoverableResult, RecoverableEvidence
  <2>2. PICK r \in {"full", "partial"} : SetEntry(j, Restored(j, r)) /\ Overturns(j, r)
    BY <1>6 DEF RecoverArtifact, RecoverableResult, RecoverableEvidence, Overturns
  <2> DEFINE e == Restored(j, r)
  <2>3. e \in GoodEntries /\ e.state = "done" /\ e.consumed = ledger[j].consumed /\ e.result = r
    BY JobFacts DEF Restored, GoodEntries, Entries, Results, Notes, L!States
  <2>4. ledger' = [ledger EXCEPT ![j] = e]
    BY <2>2 DEF SetEntry
  <2> HIDE DEF e
  <2>5. EntryStep(j)
    BY <2>1, <2>2, <2>3, <2>4 DEF EntryStep, IsRestored, TypeInv
  <2>6. files' \in [Jobs -> [Nonces -> FileStates]]
    BY <1>6, DropEvidenceType DEF RecoverArtifact, TypeInv
  <2> QED
    BY <1>6, <2>5, <2>6 DEF RecoverArtifact, EntryStep, TypeInv
<1>7. CASE DeclareDied(c)
  <2> DEFINE j == call[c].job
  <2>1. j \in Jobs
    BY <1>7, CallFacts DEF DeclareDied
  <2>2. call' \in [Callers -> GoodCalls]
    BY <1>7, ReturnType DEF DeclareDied
  <2>3. CASE UNCHANGED ledger
    BY <1>7, <2>2, <2>3, CallStepOK DEF DeclareDied
  <2>4. CASE Running(j) /\ \/ SetEntry(j, Closed(j, "done", "partial", "none"))
                           \/ SetEntry(j, Closed(j, "failed", "none", "died"))
    <3>1. EntryStep(j)
      BY <2>1, <2>4, ClosedStep, Edges DEF Running, Results, Notes
    <3> QED
      BY <1>7, <2>1, <2>2, <3>1 DEF DeclareDied, EntryStep, TypeInv
  <2>5. CASE SetEntry(j, [ledger[j] EXCEPT !.note = "unconfirmed"])
    <3> DEFINE e == [ledger[j] EXCEPT !.note = "unconfirmed"]
    <3>1. e \in GoodEntries /\ e.state = ledger[j].state /\ e.consumed = ledger[j].consumed
      BY <2>1, JobFacts DEF GoodEntries, Entries, Notes
    <3>2. SetEntry(j, e)
      BY <2>5
    <3> HIDE DEF e
    <3>3. EntryStep(j)
      BY <2>1, <3>1, <3>2, RewriteStep
    <3> QED
      BY <1>7, <2>1, <2>2, <3>3 DEF DeclareDied, EntryStep, TypeInv
  <2> QED
    BY <1>7, <2>3, <2>4, <2>5 DEF DeclareDied
<1>8. CASE SignalExpired(c)
  <2>1. call[c].job \in Jobs
    BY <1>8, CallFacts DEF SignalExpired
  <2>2. worker' \in [Jobs -> [Nonces -> WorkerStates]]
    BY <1>8, <2>1, SignalType DEF SignalExpired, TypeInv
  <2>3. call' \in [Callers -> GoodCalls]
    BY <1>8, ReturnType DEF SignalExpired
  <2> QED
    BY <1>8, <2>2, <2>3 DEF SignalExpired, TypeInv
<1> QED
  BY <1>1, <1>2, <1>3, <1>4, <1>5, <1>6, <1>7, <1>8 DEF RunningNext

\* The steps of a kill.
LEMMA KillOK ==
  ASSUME TypeInv, NEW c \in Callers, KillNext(c)
  PROVE  StepOK
<1> USE DEF LaunchSteps, RecoverySteps, KillSteps, Steps, StepOK, LedgerStep
<1>1. ASSUME NEW j \in Jobs, BeginKill(c, j) PROVE StepOK
  <2>1. 0 \in 0..MaxNonce
    BY MaxNonceType
  <2>2. call' \in [Callers -> GoodCalls]
    BY <1>1, <2>1, BeginType DEF BeginKill
  <2> QED
    BY <1>1, <2>2, CallStepOK DEF BeginKill
<1>2. CASE KillRead(c)
  <2> DEFINE j == call[c].job
  <2>1. j \in Jobs
    BY <1>2, CallFacts DEF KillRead
  <2>2. CASE Return(c) /\ UNCHANGED <<ledger, files>>
    BY <1>2, <2>2, ReturnType, CallStepOK DEF KillRead
  <2>3. CASE Harvestable(j) /\ (HarvestSuccess(j) \/ HarvestEvidence(j)) /\ Return(c)
    <3>1. EntryStep(j) /\ files' \in [Jobs -> [Nonces -> FileStates]]
      BY <2>1, <2>3, HarvestStep DEF Harvestable, Running
    <3>2. call' \in [Callers -> GoodCalls]
      BY <2>3, ReturnType
    <3> QED
      BY <1>2, <2>1, <3>1, <3>2 DEF KillRead, EntryStep, TypeInv
  <2>4. ASSUME NEW s \in KillSteps, UNCHANGED <<ledger, files>>,
               call' = [call EXCEPT ![c].at = s, ![c].nonce = ledger[j].nonce]
        PROVE  StepOK
    <3> DEFINE n == ledger[j].nonce
               r == [call[c] EXCEPT !.at = s, !.nonce = n]
    <3>1. n \in 0..MaxNonce
      BY <2>1, JobFacts
    <3>2. call' = [call EXCEPT ![c] = r]
      BY <2>4
    <3> HIDE DEF n
    <3>3. s \in Steps /\ s \notin LaunchSteps \cup RecoverySteps
      BY DEF KillSteps
    <3>4. call[c] \in Calls /\ call[c].job \in Jobs
      BY <2>1 DEF TypeInv, GoodCalls
    <3>5. r \in Calls /\ r.at = s /\ r.job = call[c].job
      BY <3>1, <3>3, <3>4 DEF Calls
    <3>6. r \in GoodCalls
      BY <3>3, <3>4, <3>5 DEF GoodCalls
    <3> HIDE DEF r
    <3>7. call' \in [Callers -> GoodCalls]
      BY <3>2, <3>6 DEF TypeInv
    <3> QED
      BY <1>2, <2>4, <3>7, CallStepOK DEF KillRead
  <2> QED
    BY <1>2, <2>2, <2>3, <2>4 DEF KillRead
<1>3. ASSUME KillClose(c), call[c].job \in Jobs
      PROVE  /\ LedgerStep /\ ledger' \in [Jobs -> GoodEntries]
             /\ files' \in [Jobs -> [Nonces -> FileStates]]
  BY <1>3, CloseExitedStep DEF KillClose, Running, Notes, EntryStep, TypeInv
<1>4. CASE KillTerminate(c)
  <2>1. call[c].job \in Jobs
    BY <1>4, CallFacts DEF KillTerminate
  <2>2. /\ LedgerStep /\ ledger' \in [Jobs -> GoodEntries]
        /\ files' \in [Jobs -> [Nonces -> FileStates]]
    BY <1>3, <1>4, <2>1 DEF KillTerminate, TypeInv
  <2>3. worker' \in [Jobs -> [Nonces -> WorkerStates]]
    BY <1>4, <2>1, SignalType DEF KillTerminate, TypeInv
  <2>4. call' \in [Callers -> GoodCalls]
    BY <1>4, GotoType, ReturnType DEF KillTerminate
  <2> QED
    BY <1>4, <2>2, <2>3, <2>4 DEF KillTerminate, TypeInv
<1>5. CASE KillAwait(c)
  <2>1. call[c].job \in Jobs
    BY <1>5, CallFacts DEF KillAwait
  <2>2. /\ LedgerStep /\ ledger' \in [Jobs -> GoodEntries]
        /\ files' \in [Jobs -> [Nonces -> FileStates]]
    BY <1>3, <1>5, <2>1 DEF KillAwait, TypeInv
  <2>3. call' \in [Callers -> GoodCalls]
    BY <1>5, ReturnType DEF KillAwait
  <2> QED
    BY <1>5, <2>2, <2>3 DEF KillAwait, TypeInv
<1>6. CASE KillFence(c)
  <2>1. spec' \in [Jobs -> 0..MaxNonce]
    BY <1>6, CallFacts, MaxNonceType DEF KillFence, TypeInv
  <2>2. call' \in [Callers -> GoodCalls]
    BY <1>6, GotoType DEF KillFence
  <2> QED
    BY <1>6, <2>1, <2>2 DEF KillFence, TypeInv
<1>7. CASE KillCommit(c)
  <2> DEFINE j == call[c].job
             n == ledger[j].nonce
  <2>1. call[c].job \in Jobs
    BY <1>7, CallFacts DEF KillCommit
  <2>2. LedgerStep /\ ledger' \in [Jobs -> GoodEntries]
    BY <1>7, <2>1, ClosedStep DEF KillCommit, Results, Notes, EntryStep, TypeInv
  <2>3. call' \in [Callers -> GoodCalls]
    BY <1>7, ReturnType DEF KillCommit
  <2>4. ASSUME NEW late \in KillStamps(j), files' = [files EXCEPT ![j][n].late = late]
        PROVE  files' \in [Jobs -> [Nonces -> FileStates]]
    <3>1. late \in SUBSET Artifacts
      BY <2>4 DEF KillStamps, Deliverables
    <3>2. n \in Nonces => files[j][n] \in FileStates
      BY <2>1 DEF TypeInv
    <3>3. n \in Nonces => [files[j][n] EXCEPT !.late = late] \in FileStates
      BY <3>1, <3>2, FilesUpdate
    <3>4. files' = [files EXCEPT ![j][n] = [files[j][n] EXCEPT !.late = late]]
      BY <2>4
    <3>5. files \in [Jobs -> [Nonces -> FileStates]]
      BY DEF TypeInv
    <3> HIDE DEF n
    <3> QED
      BY <2>1, <3>3, <3>4, <3>5, CellUpdate
  <2>5. files' \in [Jobs -> [Nonces -> FileStates]]
    BY <1>7, <2>4 DEF KillCommit, TypeInv
  <2> QED
    BY <1>7, <2>2, <2>3, <2>5 DEF KillCommit, TypeInv
<1> QED
  BY <1>1, <1>2, <1>4, <1>5, <1>6, <1>7 DEF KillNext

\* Crashes.
LEMMA CrashOK ==
  ASSUME TypeInv, NEW c \in Callers, Crash(c) \/ CrashInTransaction(c)
  PROVE  StepOK
<1>1. epoch' \in [Callers -> Epochs]
  BY NumbersAssumption DEF Crash, CrashInTransaction, TypeInv, Epochs
<1>2. call' \in [Callers -> GoodCalls]
  BY ReturnType DEF Crash, CrashInTransaction
<1>3. CASE Crash(c)
  BY <1>1, <1>2, <1>3 DEF Crash, StepOK, LedgerStep, TypeInv
<1>4. CASE CrashInTransaction(c)
  <2>1. issued' \in [Jobs -> 0..MaxNonce] /\ spec' \in [Jobs -> 0..MaxNonce]
    BY <1>4, SpecAheadType DEF CrashInTransaction
  <2> QED
    BY <1>1, <1>2, <1>4, <2>1 DEF CrashInTransaction, StepOK, LedgerStep, TypeInv
<1> QED
  BY <1>3, <1>4

\* The steps of a worker do not touch the ledger.
LEMMA WorkerOK ==
  ASSUME TypeInv, NEW j \in Jobs, NEW n \in Nonces, WorkerNext(j, n)
  PROVE  StepOK
<1>1. UNCHANGED <<ledger, spec, issued, call, epoch>>
  BY DEF WorkerNext, LoadSpec, PublishIdentity, PassFence, PublishEvidence,
         FinishBackend, InterruptWorker, ExitWorker
<1>2. worker' \in [Jobs -> [Nonces -> WorkerStates]]
  BY WorkerGoesType DEF WorkerNext, LoadSpec, PublishIdentity, PassFence, PublishEvidence,
         FinishBackend, InterruptWorker, ExitWorker, Stages, TypeInv
<1>3. files' \in [Jobs -> [Nonces -> FileStates]]
  <2>1. files[j][n] \in FileStates /\ worker[j][n] \in WorkerStates
    BY DEF TypeInv
  <2>2. ASSUME NEW f \in FileStates, files' = [files EXCEPT ![j][n] = f]
        PROVE  files' \in [Jobs -> [Nonces -> FileStates]]
    BY <2>2, CellUpdate DEF TypeInv
  <2>3. CASE PublishIdentity(j, n)
    <3> DEFINE p == IF ParentAlive(j, n) THEN worker[j][n].parent ELSE OrphanPid
    <3>1. p \in Pids
      BY <2>1 DEF WorkerStates, OrphanPid, Pids
    <3>2. files' = [files EXCEPT ![j][n] = [files[j][n] EXCEPT !.receipt = p]]
      BY <2>3 DEF PublishIdentity
    <3> HIDE DEF p
    <3> QED
      BY <2>1, <2>2, <3>1, <3>2, FilesUpdate
  <2>8. ASSUME NEW a \in Artifacts, NEW late \in Dated(j, n, a)
        PROVE  late \in SUBSET Artifacts
    BY <2>1, <2>8, FilesUpdate DEF Dated
  <2>4. CASE PublishEvidence(j, n)
    <3>1. PICK late \in Dated(j, n, "evidence") :
            files' = [files EXCEPT ![j][n].evidence = TRUE, ![j][n].late = late]
      BY <2>4 DEF PublishEvidence
    <3> DEFINE f == [files[j][n] EXCEPT !.evidence = TRUE]
    <3>2. files' = [files EXCEPT ![j][n] = [f EXCEPT !.late = late]]
      BY <3>1 DEF TypeInv
    <3>3. f \in FileStates
      BY <2>1, FilesUpdate
    <3>4. late \in SUBSET Artifacts
      BY <2>8 DEF Artifacts
    <3> HIDE DEF f
    <3> QED
      BY <2>2, <3>2, <3>3, <3>4, FilesUpdate
  <2>5. ASSUME NEW r \in Outcomes, NEW late \in Dated(j, n, "result"),
               files' = [files EXCEPT ![j][n].result = r, ![j][n].late = late]
        PROVE  files' \in [Jobs -> [Nonces -> FileStates]]
    <3> DEFINE f == [files[j][n] EXCEPT !.result = r]
    <3>1. files' = [files EXCEPT ![j][n] = [f EXCEPT !.late = late]]
      BY <2>5 DEF TypeInv
    <3>2. f \in FileStates
      BY <2>1, FilesUpdate
    <3>3. late \in SUBSET Artifacts
      BY <2>8 DEF Artifacts
    <3> HIDE DEF f
    <3> QED
      BY <2>2, <3>1, <3>2, <3>3, FilesUpdate
  <2>6. CASE FinishBackend(j, n) \/ InterruptWorker(j, n)
    BY <2>5, <2>6 DEF FinishBackend, InterruptWorker, Outcomes, TypeInv
  <2>7. CASE LoadSpec(j, n) \/ PassFence(j, n) \/ ExitWorker(j, n)
    BY <2>7 DEF LoadSpec, PassFence, ExitWorker, TypeInv
  <2> QED
    BY <2>3, <2>4, <2>6, <2>7 DEF WorkerNext
<1> QED
  BY <1>1, <1>2, <1>3 DEF StepOK, LedgerStep, TypeInv

\* Every step.
LEMMA NextOK == TypeInv /\ [Next]_vars => StepOK
<1> SUFFICES ASSUME TypeInv, [Next]_vars PROVE StepOK
  OBVIOUS
<1>1. ASSUME NEW c \in Callers, CallerNext(c) PROVE StepOK
  BY <1>1, LaunchOK, RecoveryOK, RunningOK, KillOK, CrashOK DEF CallerNext
<1>2. ASSUME NEW j \in Jobs, NEW n \in Nonces, WorkerNext(j, n) PROVE StepOK
  BY <1>2, WorkerOK
<1>3. CASE UNCHANGED vars
  BY <1>3 DEF vars, StepOK, LedgerStep, TypeInv
<1> QED
  BY <1>1, <1>2, <1>3 DEF Next

\* The type invariant holds at the start.
LEMMA InitTypeInv == Init => TypeInv
<1> SUFFICES ASSUME Init PROVE TypeInv
  OBVIOUS
<1>1. Proposed \in GoodEntries
  BY MaxNonceType, NumbersAssumption
  DEF Proposed, GoodEntries, Entries, L!States, Notes, Results, Artifacts
<1>2. Idle \in GoodCalls
  BY MaxNonceType DEF Idle, GoodCalls, Calls, Steps, LaunchSteps, RecoverySteps
<1>3. NoWorker \in WorkerStates /\ NoFiles \in FileStates
  BY DEF NoWorker, NoFiles, NoPid, WorkerStates, FileStates, Stages, Outcomes, Pids
<1> QED
  BY <1>1, <1>2, <1>3, MaxNonceType, NumbersAssumption DEF Init, TypeInv, Epochs

\* The type invariant, in every reachable state.
THEOREM TypeInvariant == Spec => []TypeInv
<1>1. TypeInv /\ [Next]_vars => TypeInv'
  BY NextOK DEF StepOK
<1> QED
  BY <1>1, InitTypeInv, PTL DEF Spec

\* Every variable keeps its type.
THEOREM TypeCorrect == Spec => []TypeOK
<1>1. TypeInv => TypeOK
  BY DEF TypeInv, TypeOK, GoodEntries, GoodCalls
<1> QED
  BY <1>1, TypeInvariant, PTL
-----------------------------------------------------------------------------
(* The ledger's promise *)

\* A verdict changes only by a restoration: every other change of state is
\* an edge out of an open state.
THEOREM VerdictsFinal == Spec => VerdictsStand
<1> DEFINE Stands(j) ==
      ledger[j].state \in L!TerminalStates /\ ledger'[j].state # ledger[j].state =>
        /\ ledger[j].state \in {"killed", "failed"}
        /\ ledger'[j].state = "done"
        /\ WorkerExited(j, ledger[j].nonce)
        /\ ~ledger[j].consumed
        /\ \/ ledger'[j].result = "full" /\ BoundFiles(j).result = "ok"
                                        /\ "result" \notin BoundFiles(j).late
           \/ ledger'[j].result = "partial" /\ BoundFiles(j).evidence
                                           /\ "evidence" \notin BoundFiles(j).late
<1>1. TypeInv /\ [Next]_vars => \A j \in Jobs : Stands(j)
  <2> SUFFICES ASSUME TypeInv, [Next]_vars, NEW j \in Jobs PROVE Stands(j)
    OBVIOUS
  <2>1. LedgerStep
    BY NextOK DEF StepOK
  <2>2. CASE UNCHANGED ledger
    BY <2>2
  <2>3. ASSUME NEW i \in Jobs, EntryStep(i), i # j PROVE Stands(j)
    BY <2>3 DEF EntryStep
  <2>4. CASE EntryStep(j)
    BY <2>4 DEF EntryStep, Moves, IsRestored, Overturns, IsConsumed, IsRewritten, L!TerminalStates
  <2> QED
    BY <2>1, <2>2, <2>3, <2>4 DEF LedgerStep
<1> QED
  BY <1>1, TypeInvariant, PTL DEF Spec, VerdictsStand

\* The jobs in flight are finitely many.
LEMMA InFlightFinite ==
  /\ IsFiniteSet(L!InFlight)
  /\ Cardinality(L!InFlight) \in Nat
<1>1. L!InFlight \subseteq Jobs
  BY DEF L!InFlight
<1> QED
  BY <1>1, FiniteAssumption, FS_Subset, FS_CardinalityType

\* Only a deployment adds a job to those in flight, and it needs a free slot.
LEMMA CapStep == TypeInv /\ CapRespected /\ LedgerStep => CapRespected'
<1> SUFFICES ASSUME TypeInv, CapRespected, LedgerStep PROVE CapRespected'
  OBVIOUS
<1>1. ASSUME L!InFlight' \subseteq L!InFlight PROVE CapRespected'
  <2>1. Cardinality(L!InFlight') <= Cardinality(L!InFlight) /\ Cardinality(L!InFlight') \in Nat
    BY <1>1, InFlightFinite, FS_Subset, FS_CardinalityType
  <2> QED
    BY <2>1, InFlightFinite, NumbersAssumption DEF CapRespected
<1>2. CASE UNCHANGED ledger
  BY <1>1, <1>2 DEF L!InFlight
<1>3. ASSUME NEW j \in Jobs, EntryStep(j) PROVE CapRespected'
  <2>1. \A i \in Jobs \ {j} : i \in L!InFlight' <=> i \in L!InFlight
    BY <1>3 DEF EntryStep, L!InFlight
  <2>2. L!InFlight' \subseteq Jobs /\ L!InFlight \subseteq Jobs
    BY DEF L!InFlight
  <2>3. CASE j \in L!InFlight \/ j \notin L!InFlight'
    BY <1>1, <2>1, <2>2, <2>3
  <2>4. CASE j \notin L!InFlight /\ j \in L!InFlight'
    <3>1. ledger[j].state \notin L!InFlightStates /\ ledger'[j].state \in L!InFlightStates
      BY <2>4 DEF L!InFlight
    <3>2. Moves(j)
      BY <1>3, <3>1 DEF EntryStep, IsRestored, IsConsumed, IsRewritten, L!InFlightStates
    <3>3. ledger'[j].state = "deployed"
      BY <3>1, <3>2 DEF Moves, L!InFlightStates, L!CanTransition, L!Transitions, L!States
    <3>4. Cardinality(L!InFlight) < Cap
      BY <3>2, <3>3 DEF Moves
    <3>5. L!InFlight' = L!InFlight \cup {j}
      BY <2>1, <2>2, <2>4
    <3>6. Cardinality(L!InFlight \cup {j}) = Cardinality(L!InFlight) + 1
      BY <2>4, InFlightFinite, FS_AddElement
    <3> QED
      BY <3>4, <3>5, <3>6, InFlightFinite, NumbersAssumption DEF CapRespected
  <2> QED
    BY <2>3, <2>4
<1> QED
  BY <1>2, <1>3 DEF LedgerStep

\* At most Cap jobs are deployed or running, whoever deploys, recovers and
\* cancels them.
THEOREM CapHolds == Spec => []CapRespected
<1>1. Init => CapRespected
  <2> SUFFICES ASSUME Init PROVE CapRespected
    OBVIOUS
  <2>1. L!InFlight = {}
    BY DEF Init, Proposed, L!InFlight, L!InFlightStates
  <2> QED
    BY <2>1, FS_EmptySet, NumbersAssumption DEF CapRespected
<1>2. TypeInv /\ CapRespected /\ [Next]_vars => CapRespected'
  BY NextOK, CapStep DEF StepOK
<1> QED
  BY <1>1, <1>2, TypeInvariant, PTL DEF Spec

\* A step of the ledger is a step of the abstract ledger or changes neither
\* states nor hand-offs.
LEMMA LedgerRefinement == TypeInv /\ LedgerStep => [L!Next]_(L!vars)
<1> SUFFICES ASSUME TypeInv, LedgerStep PROVE L!Next \/ UNCHANGED L!vars
  BY DEF L!vars
<1> DEFINE State == [j \in Jobs |-> ledger[j].state]
           Handed == [j \in Jobs |-> ledger[j].consumed]
<1>1. CASE UNCHANGED ledger
  BY <1>1 DEF L!vars
<1>2. ASSUME NEW j \in Jobs, EntryStep(j) PROVE L!Next \/ UNCHANGED L!vars
  <2>1. /\ State' = [State EXCEPT ![j] = ledger'[j].state]
        /\ Handed' = [Handed EXCEPT ![j] = ledger'[j].consumed]
    BY <1>2 DEF EntryStep
  <2>2. State[j] = ledger[j].state /\ Handed[j] = ledger[j].consumed
    OBVIOUS
  <2>3. ledger[j].consumed \in BOOLEAN /\ ledger'[j].consumed \in BOOLEAN /\ ledger'[j].state \in L!States
    BY <1>2 DEF EntryStep, TypeInv, GoodEntries, Entries
  <2>4. CASE IsRewritten(j)
    <3>1. State' = State /\ Handed' = Handed
      BY <2>1, <2>4 DEF IsRewritten
    <3> QED
      BY <3>1 DEF L!vars
  <2>5. CASE Moves(j)
    <3>1. Handed' = Handed
      BY <2>1, <2>5 DEF Moves
    <3>2. PICK s \in L!States : s = ledger'[j].state
      BY <2>3
    <3>3. L!CanTransition(State[j], s)
      BY <2>2, <2>5, <3>2 DEF Moves
    <3>4. s = "deployed" => Cardinality(L!InFlight) < Cap
      BY <2>5, <3>2 DEF Moves
    <3>5. State' = [State EXCEPT ![j] = s]
      BY <2>1, <3>2
    <3>6. s = "deployed" => L!Cardinality(L!InFlight) < Cap
      BY <3>4 DEF L!Cardinality, Cardinality
    <3>7. L!Move(j, s)
      BY <3>1, <3>3, <3>5, <3>6 DEF L!Move
    <3> QED
      BY <3>7 DEF L!Next
  <2>6. CASE IsRestored(j)
    <3>1. Handed' = Handed
      BY <2>1, <2>6 DEF IsRestored
    <3>2. L!Restore(j)
      BY <2>1, <2>2, <2>6, <3>1 DEF IsRestored, L!Restore
    <3> QED
      BY <3>2 DEF L!Next
  <2>7. CASE IsConsumed(j)
    <3>1. State' = State
      BY <2>1, <2>7 DEF IsConsumed
    <3>2. ledger'[j].consumed = TRUE
      BY <2>3, <2>7 DEF IsConsumed
    <3>3. L!Consume(j)
      BY <2>1, <2>2, <2>7, <3>1, <3>2 DEF IsConsumed, L!Consume
    <3> QED
      BY <3>3 DEF L!Next
  <2> QED
    BY <1>2, <2>4, <2>5, <2>6, <2>7 DEF EntryStep
<1> QED
  BY <1>1, <1>2 DEF LedgerStep

\* The service, with all its processes, files, retries and crashes, implements
\* the ledger it promises.
THEOREM Refinement == Spec => ImplementsLedger
<1>1. Init => L!Init
  BY DEF Init, L!Init, Proposed
<1>2. TypeInv /\ [Next]_vars => [L!Next]_(L!vars)
  BY NextOK, LedgerRefinement DEF StepOK
<1> QED
  BY <1>1, <1>2, TypeInvariant, PTL DEF Spec, ImplementsLedger, L!Spec
-----------------------------------------------------------------------------
(* One process per nonce *)

Starting == {"recheck", "write", "spawn"}

\* Launching and recovering happen under the launch lock of the job, which one
\* call at a time holds.
LockHeld ==
  /\ \A c \in Callers : call[c].at \in LaunchSteps \cup RecoverySteps => call[c].locked
  /\ \A c, d \in Callers :
       call[c].locked /\ call[d].locked /\ call[c].job = call[d].job => c = d

\* The nonce of a launch under way, and every nonce not yet drawn, is unused.
NonceUnused ==
  /\ \A c \in Callers : call[c].at \in Starting =>
       /\ worker[call[c].job][call[c].nonce].stage = "none"
       /\ call[c].nonce <= issued[call[c].job]
  /\ \A j \in Jobs, n \in Nonces : n > issued[j] => worker[j][n].stage = "none"

StartInv == TypeInv /\ LockHeld /\ NonceUnused

OthersWait(c) == \A d \in Callers \ {c} : call'[d] = call[d]

\* Nothing is started: a process only goes on.
NoneStarts ==
  \A j \in Jobs, n \in Nonces :
    /\ worker'[j][n].stage = "none" <=> worker[j][n].stage = "none"
    /\ worker'[j][n].stage = "started" => worker[j][n].stage = "started"

IssuedKept == \A j \in Jobs : issued'[j] = issued[j]

\* Call c goes on with its job and nonce, or returns.
GoesOn(c) ==
  /\ OthersWait(c) /\ NoneStarts /\ IssuedKept
  /\ \/ call'[c] = Idle
     \/ /\ call'[c].job = call[c].job /\ call'[c].locked = call[c].locked
        /\ call'[c].at \in LaunchSteps \cup RecoverySteps => call[c].at \in LaunchSteps \cup RecoverySteps
        /\ call'[c].at \in Starting => call[c].at \in Starting /\ call'[c].nonce = call[c].nonce

\* Call c begins, with the launch lock if it launches or recovers.
Begins(c) ==
  /\ OthersWait(c) /\ NoneStarts
  /\ call'[c].job \in Jobs
  /\ call'[c].at \in LaunchSteps \cup RecoverySteps => call'[c].locked
  /\ call'[c].locked => LaunchLockFree(call'[c].job)
  /\ \/ /\ call'[c].at \in Starting
        /\ call'[c].nonce = issued[call'[c].job] + 1
        /\ issued' = [issued EXCEPT ![call'[c].job] = @ + 1]
     \/ call'[c].at \notin Starting /\ IssuedKept

\* Call c replaces its nonce by a new one.
Renews(c) ==
  /\ OthersWait(c) /\ NoneStarts
  /\ call[c].at \in RecoverySteps
  /\ issued[call[c].job] < MaxNonce
  /\ issued' = [issued EXCEPT ![call[c].job] = @ + 1]
  /\ \/ call'[c] = Idle
     \/ /\ call'[c].at = "recheck"
        /\ call'[c].job = call[c].job /\ call'[c].locked = call[c].locked
        /\ call'[c].nonce = issued[call[c].job] + 1

\* Call c starts the process of its nonce.
Starts(c) ==
  /\ OthersWait(c) /\ IssuedKept
  /\ call[c].at = "spawn" /\ call'[c].at = "receipt"
  /\ call'[c].job = call[c].job /\ call'[c].locked = call[c].locked
  /\ \A j \in Jobs, n \in Nonces :
       (j # call[c].job \/ n # call[c].nonce) => worker'[j][n] = worker[j][n]
  /\ worker'[call[c].job][call[c].nonce].stage = "started"

\* A call that goes on keeps the lock discipline and the unused nonces.
LEMMA GoesOnKeeps ==
  ASSUME StartInv, TypeInv', NEW c \in Callers, GoesOn(c)
  PROVE  StartInv'
<1> USE DEF StartInv, GoesOn, OthersWait, NoneStarts, IssuedKept
<1>1. LockHeld'
  BY DEF LockHeld, Idle, LaunchSteps, RecoverySteps
<1>2. NonceUnused'
  <2>1. ASSUME NEW d \in Callers, call'[d].at \in Starting
        PROVE  /\ worker'[call'[d].job][call'[d].nonce].stage = "none"
               /\ call'[d].nonce <= issued'[call'[d].job]
    <3>1. /\ call[d].at \in Starting
          /\ call'[d].job = call[d].job /\ call'[d].nonce = call[d].nonce
      BY <2>1 DEF Idle, Starting
    <3>2. call[d].job \in Jobs /\ call[d].nonce \in Nonces
      BY <3>1, CallFacts DEF Starting, LaunchSteps
    <3> QED
      BY <3>1, <3>2 DEF NonceUnused
  <2> QED
    BY <2>1 DEF NonceUnused
<1> QED
  BY <1>1, <1>2

\* A call that begins finds its lock free and draws a nonce never used.
LEMMA BeginsKeeps ==
  ASSUME StartInv, TypeInv', NEW c \in Callers, Begins(c)
  PROVE  StartInv'
<1> USE DEF StartInv, Begins, OthersWait, NoneStarts, IssuedKept
<1>1. LockHeld'
  BY DEF LockHeld, LaunchLockFree
<1>2. \A j \in Jobs : issued[j] \in Nat /\ issued'[j] \in Nat /\ issued[j] <= issued'[j]
  BY MaxNonceType DEF TypeInv
<1>3. NonceUnused'
  <2>1. ASSUME NEW d \in Callers, call'[d].at \in Starting
        PROVE  /\ worker'[call'[d].job][call'[d].nonce].stage = "none"
               /\ call'[d].nonce <= issued'[call'[d].job]
    <3>0. call'[d].job \in Jobs /\ call'[d].nonce \in Nonces
      BY <2>1 DEF TypeInv, GoodCalls, Starting, LaunchSteps
    <3>1. CASE d = c
      <4>1. call'[c].nonce = issued[call'[c].job] + 1 /\ issued'[call'[c].job] = issued[call'[c].job] + 1
        BY <2>1, <3>1 DEF TypeInv
      <4>2. call'[c].nonce > issued[call'[c].job]
        BY <1>2, <3>0, <3>1, <4>1
      <4> QED
        BY <1>2, <3>0, <3>1, <4>1, <4>2 DEF NonceUnused
    <3>2. CASE d # c
      <4>1. call'[d] = call[d] /\ call[d].nonce <= issued[call[d].job]
        BY <2>1, <3>2 DEF NonceUnused
      <4> QED
        BY <1>2, <2>1, <3>0, <4>1 DEF NonceUnused, Nonces
    <3> QED
      BY <3>1, <3>2
  <2>2. ASSUME NEW j \in Jobs, NEW n \in Nonces, n > issued'[j]
        PROVE  worker'[j][n].stage = "none"
    BY <1>2, <2>2 DEF NonceUnused, Nonces
  <2> QED
    BY <2>1, <2>2 DEF NonceUnused
<1> QED
  BY <1>1, <1>3

\* A rotation draws, under the lock, a nonce never used.
LEMMA RenewsKeeps ==
  ASSUME StartInv, TypeInv', NEW c \in Callers, Renews(c)
  PROVE  StartInv'
<1> USE DEF StartInv, Renews, OthersWait, NoneStarts
<1>0. call[c].job \in Jobs
  BY CallFacts DEF RecoverySteps
<1>1. LockHeld'
  BY DEF LockHeld, Idle, LaunchSteps, RecoverySteps
<1>2. \A j \in Jobs : issued[j] \in Nat /\ issued'[j] \in Nat /\ issued[j] <= issued'[j]
  BY MaxNonceType DEF TypeInv
<1>3. NonceUnused'
  <2>1. ASSUME NEW d \in Callers, call'[d].at \in Starting
        PROVE  /\ worker'[call'[d].job][call'[d].nonce].stage = "none"
               /\ call'[d].nonce <= issued'[call'[d].job]
    <3>0. call'[d].job \in Jobs /\ call'[d].nonce \in Nonces
      BY <2>1 DEF TypeInv, GoodCalls, Starting, LaunchSteps
    <3>1. CASE d = c
      <4>1. /\ call'[c].job = call[c].job
            /\ call'[c].nonce = issued[call[c].job] + 1
            /\ issued'[call[c].job] = issued[call[c].job] + 1
        BY <1>0, <2>1, <3>1 DEF TypeInv, Idle, Starting
      <4>2. call'[c].nonce > issued[call[c].job]
        BY <1>0, <1>2, <4>1
      <4> QED
        BY <1>0, <1>2, <3>0, <3>1, <4>1, <4>2 DEF NonceUnused
    <3>2. CASE d # c
      <4>1. call'[d] = call[d] /\ call[d].nonce <= issued[call[d].job]
        BY <2>1, <3>2 DEF NonceUnused
      <4> QED
        BY <1>2, <2>1, <3>0, <4>1 DEF NonceUnused, Nonces
    <3> QED
      BY <3>1, <3>2
  <2>2. ASSUME NEW j \in Jobs, NEW n \in Nonces, n > issued'[j]
        PROVE  worker'[j][n].stage = "none"
    BY <1>2, <2>2 DEF NonceUnused, Nonces
  <2> QED
    BY <2>1, <2>2 DEF NonceUnused
<1> QED
  BY <1>1, <1>3

\* A spawn uses up the nonce of its own call and of no other.
LEMMA StartsKeeps ==
  ASSUME StartInv, TypeInv', NEW c \in Callers, Starts(c)
  PROVE  StartInv'
<1> USE DEF StartInv, Starts, OthersWait, IssuedKept
<1>1. LockHeld'
  BY DEF LockHeld, LaunchSteps, RecoverySteps
<1>2. call[c].job \in Jobs /\ call[c].nonce \in Nonces /\ call[c].locked
  BY CallFacts DEF LaunchSteps, LockHeld
<1>3. NonceUnused'
  <2>1. ASSUME NEW d \in Callers, call'[d].at \in Starting
        PROVE  /\ worker'[call'[d].job][call'[d].nonce].stage = "none"
               /\ call'[d].nonce <= issued'[call'[d].job]
    <3>1. d # c /\ call'[d] = call[d]
      BY <2>1 DEF Starting
    <3>2. call[d].job \in Jobs /\ call[d].nonce \in Nonces /\ call[d].locked
      BY <2>1, <3>1, CallFacts DEF Starting, LaunchSteps, LockHeld
    <3>3. call[d].job # call[c].job
      BY <1>2, <3>1, <3>2 DEF LockHeld
    <3> QED
      BY <2>1, <3>1, <3>2, <3>3 DEF NonceUnused
  <2>2. ASSUME NEW j \in Jobs, NEW n \in Nonces, n > issued'[j]
        PROVE  worker'[j][n].stage = "none"
    <3>1. issued[j] \in Nat /\ n \in Nat /\ n > issued[j]
      BY <2>2, MaxNonceType DEF TypeInv, Nonces
    <3>2. j # call[c].job \/ n # call[c].nonce
      BY <3>1 DEF NonceUnused, Starting
    <3> QED
      BY <3>1, <3>2 DEF NonceUnused
  <2> QED
    BY <2>1, <2>2 DEF NonceUnused
<1> QED
  BY <1>1, <1>3

\* No call moves and nothing is started.
Rests == UNCHANGED call /\ NoneStarts /\ IssuedKept

\* A step of no call keeps the invariant.
LEMMA RestsKeeps ==
  ASSUME StartInv, TypeInv', Rests
  PROVE  StartInv'
<1> USE DEF StartInv, Rests, NoneStarts, IssuedKept
<1>1. LockHeld'
  BY DEF LockHeld
<1>2. \A c \in Callers : call[c].at \in Starting => call[c].job \in Jobs /\ call[c].nonce \in Nonces
  BY CallFacts DEF Starting, LaunchSteps
<1>3. NonceUnused'
  BY <1>2 DEF NonceUnused
<1> QED
  BY <1>1, <1>3

\* Returning ends the call and leaves the others alone.
LEMMA ReturnFacts ==
  ASSUME TypeInv, NEW c \in Callers, Return(c)
  PROVE  OthersWait(c) /\ call'[c] = Idle
BY DEF TypeInv, Return, OthersWait

\* Going on keeps the call's job, nonce and lock.
LEMMA GotoFacts ==
  ASSUME TypeInv, NEW c \in Callers, NEW s, Goto(c, s)
  PROVE  /\ OthersWait(c)
         /\ call'[c].at = s /\ call'[c].job = call[c].job
         /\ call'[c].nonce = call[c].nonce /\ call'[c].locked = call[c].locked
<1>1. call' = [call EXCEPT ![c] = [call[c] EXCEPT !.at = s]]
  BY DEF Goto
<1>2. call'[c] = [call[c] EXCEPT !.at = s]
  BY <1>1 DEF TypeInv
<1> QED
  BY <1>1, <1>2 DEF TypeInv, OthersWait, GoodCalls, Calls

\* A step that leaves the processes alone starts none.
LEMMA WorkersKept ==
  ASSUME UNCHANGED <<worker, issued>>
  PROVE  NoneStarts /\ IssuedKept
BY DEF NoneStarts, IssuedKept

\* A signal starts no process.
LEMMA SignalStarts ==
  ASSUME TypeInv, NEW j \in Jobs, NEW n \in Nonces, Signal(j, n)
  PROVE  NoneStarts
<1>1. worker' = [worker EXCEPT ![j][n] = [worker[j][n] EXCEPT !.signaled = TRUE]]
  BY DEF Signal
<1>2. worker[j][n] \in WorkerStates
  BY DEF TypeInv
<1> DEFINE w == [worker[j][n] EXCEPT !.signaled = TRUE]
<1>3. w.stage = worker[j][n].stage
  BY <1>2 DEF WorkerStates
<1> HIDE DEF w
<1>4. \A i \in Jobs, m \in Nonces : worker'[i][m] = IF i = j /\ m = n THEN w ELSE worker[i][m]
  BY <1>1 DEF TypeInv, w
<1> QED
  BY <1>3, <1>4 DEF NoneStarts

\* Nor does one under a nonce that names no process.
LEMMA SignalAnywhere ==
  ASSUME TypeInv, NEW j \in Jobs, NEW n, Signal(j, n)
  PROVE  NoneStarts
<1>1. CASE n \in Nonces
  BY <1>1, SignalStarts
<1>2. CASE n \notin Nonces
  BY <1>2 DEF Signal, TypeInv, NoneStarts
<1> QED
  BY <1>1, <1>2

\* A living process that goes on, to any stage but the first, starts none.
LEMMA WorkerGoesStarts ==
  ASSUME TypeInv, NEW j \in Jobs, NEW n \in Nonces, NEW s \in Stages \ {"none", "started"},
         WorkerGoes(j, n, s), worker[j][n].stage # "none"
  PROVE  NoneStarts
<1> DEFINE w == [worker[j][n] EXCEPT !.stage = s]
<1>1. worker' = [worker EXCEPT ![j][n] = w]
  BY DEF WorkerGoes
<1>2. w.stage = s
  BY DEF TypeInv, WorkerStates
<1> HIDE DEF w
<1>3. \A i \in Jobs, m \in Nonces : worker'[i][m] = IF i = j /\ m = n THEN w ELSE worker[i][m]
  BY <1>1 DEF TypeInv
<1> QED
  BY <1>2, <1>3 DEF NoneStarts

\* The kinds of step a caller takes.
StartStep(c) == GoesOn(c) \/ Begins(c) \/ Renews(c) \/ Starts(c) \/ Rests

\* A call that ends, whatever it signals on the way, is of the first kind.
LEMMA EndsIsStep ==
  ASSUME TypeInv, NEW c \in Callers, Return(c), UNCHANGED issued,
         \/ UNCHANGED worker
         \/ call[c].job \in Jobs /\ call[c].nonce \in Nonces /\ Signal(call[c].job, call[c].nonce)
  PROVE  StartStep(c)
BY ReturnFacts, SignalStarts DEF StartStep, GoesOn, IssuedKept, NoneStarts

\* So is one that goes on, except to begin a launch.
LEMMA GotoIsStep ==
  ASSUME TypeInv, NEW c \in Callers, NEW s, Goto(c, s), UNCHANGED issued,
         \/ UNCHANGED worker
         \/ call[c].job \in Jobs /\ call[c].nonce \in Nonces /\ Signal(call[c].job, call[c].nonce),
         s \in LaunchSteps \cup RecoverySteps => call[c].at \in LaunchSteps \cup RecoverySteps,
         s \in Starting => call[c].at \in Starting
  PROVE  StartStep(c)
BY GotoFacts, SignalStarts DEF StartStep, GoesOn, IssuedKept, NoneStarts

\* A transaction cut short may lose the nonce it drew.
LEMMA SpecAheadIsStep ==
  ASSUME TypeInv, NEW c \in Callers, SpecAhead(c), Return(c), UNCHANGED worker
  PROVE  StartStep(c)
<1>1. CASE UNCHANGED issued
  BY <1>1, EndsIsStep
<1>2. CASE /\ call[c].at = "rotate"
           /\ issued[call[c].job] < MaxNonce
           /\ issued' = [issued EXCEPT ![call[c].job] = @ + 1]
  BY <1>2, ReturnFacts DEF StartStep, Renews, NoneStarts, RecoverySteps
<1> QED
  BY <1>1, <1>2 DEF SpecAhead

\* A launch starts a process only with the nonce it drew.
LEMMA LaunchIsStep ==
  ASSUME TypeInv, NEW c \in Callers, LaunchNext(c)
  PROVE  StartStep(c)
<1> USE DEF LaunchSteps, RecoverySteps, Starting
<1>1. ASSUME NEW j \in Jobs, DeployAsync(c, j) PROVE StartStep(c)
  <2>1. UNCHANGED worker /\ LaunchLockFree(j)
    BY <1>1 DEF DeployAsync
  <2>2. NoneStarts
    BY <2>1 DEF NoneStarts
  <2>3. ASSUME NEW s, NEW n, call' = [call EXCEPT ![c] = [at |-> s, job |-> j, nonce |-> n,
                                                   locked |-> TRUE, evidence |-> FALSE]]
        PROVE  /\ OthersWait(c)
               /\ call'[c].at = s /\ call'[c].job = j /\ call'[c].nonce = n /\ call'[c].locked
    BY <2>3 DEF TypeInv, OthersWait
  <2>4. CASE issued' = [issued EXCEPT ![j] = @ + 1]
             /\ call' = [call EXCEPT ![c] = [at |-> "recheck", job |-> j, nonce |-> issued[j] + 1,
                                             locked |-> TRUE, evidence |-> FALSE]]
    <3>1. /\ OthersWait(c)
          /\ call'[c].at = "recheck" /\ call'[c].job = j
          /\ call'[c].nonce = issued[j] + 1 /\ call'[c].locked
      BY <2>3, <2>4
    <3>2. issued' = [issued EXCEPT ![call'[c].job] = @ + 1]
      BY <2>4, <3>1
    <3>3. call'[c].job \in Jobs /\ LaunchLockFree(call'[c].job)
      BY <2>1, <3>1 DEF LaunchLockFree
    <3>4. Begins(c)
      BY <2>2, <3>1, <3>2, <3>3 DEF Begins
    <3> QED
      BY <3>4 DEF StartStep
  <2>5. CASE UNCHANGED issued
             /\ call' = [call EXCEPT ![c] = [at |-> "recover", job |-> j, nonce |-> ledger[j].nonce,
                                             locked |-> TRUE, evidence |-> FALSE]]
    BY <2>1, <2>2, <2>3, <2>5 DEF StartStep, Begins, IssuedKept
  <2> QED
    BY <1>1, <2>4, <2>5 DEF DeployAsync
<1>2. CASE Recheck(c)
  BY <1>2, EndsIsStep, GotoIsStep DEF Recheck
<1>3. CASE WriteSpec(c)
  BY <1>3, GotoIsStep DEF WriteSpec
<1>4. CASE SpawnWorker(c)
  <2> DEFINE j == call[c].job
             n == call[c].nonce
             w == [stage |-> "started", signaled |-> FALSE, parent |-> Pid(c)]
  <2>1. j \in Jobs /\ n \in Nonces
    BY <1>4, CallFacts DEF SpawnWorker
  <2>2. worker' = [worker EXCEPT ![j][n] = w]
    BY <1>4 DEF SpawnWorker
  <2>3. w.stage = "started"
    OBVIOUS
  <2>4. Goto(c, "receipt") /\ UNCHANGED issued /\ call[c].at = "spawn"
    BY <1>4 DEF SpawnWorker
  <2> HIDE DEF w, j, n
  <2>5. \A i \in Jobs, m \in Nonces : worker'[i][m] = IF i = j /\ m = n THEN w ELSE worker[i][m]
    BY <2>1, <2>2 DEF TypeInv
  <2>6. Starts(c)
    BY <2>1, <2>3, <2>4, <2>5, GotoFacts DEF Starts, IssuedKept, j, n
  <2> QED
    BY <2>6 DEF StartStep
<1>5. CASE PublishReceipt(c)
  BY <1>5, GotoIsStep DEF PublishReceipt
<1>6. CASE LaunchRaises(c)
  BY <1>6, GotoIsStep DEF LaunchRaises
<1>7. CASE FailLaunch(c)
  BY <1>7, EndsIsStep DEF FailLaunch
<1>8. CASE CommitRunning(c)
  BY <1>8, CallFacts, EndsIsStep DEF CommitRunning
<1>9. CASE TransactionRaises(c)
  BY <1>9, EndsIsStep, SpecAheadIsStep DEF TransactionRaises
<1> QED
  BY <1>1, <1>2, <1>3, <1>4, <1>5, <1>6, <1>7, <1>8, <1>9 DEF LaunchNext

\* A call that begins without a lock, or with one that was free, starts nothing
\* and draws no nonce.
LEMMA BeginIsStep ==
  ASSUME TypeInv, NEW c \in Callers, NEW r,
         call' = [call EXCEPT ![c] = r],
         UNCHANGED <<worker, issued>>,
         r.job \in Jobs,
         r.at \notin Starting,
         r.at \in LaunchSteps \cup RecoverySteps => r.locked,
         r.locked => LaunchLockFree(r.job)
  PROVE  StartStep(c)
<1>1. OthersWait(c) /\ call'[c] = r
  BY DEF TypeInv, OthersWait
<1>2. call'[c].locked => LaunchLockFree(call'[c].job)
  BY <1>1 DEF LaunchLockFree
<1>3. Begins(c)
  BY <1>1, <1>2, WorkersKept DEF Begins
<1> QED
  BY <1>3 DEF StartStep

\* A recovery begins under the lock and draws a nonce only in a rotation.
LEMMA RecoveryIsStep ==
  ASSUME TypeInv, NEW c \in Callers, RecoveryNext(c)
  PROVE  StartStep(c)
<1> USE DEF LaunchSteps, RecoverySteps, Starting
<1>1. ASSUME NEW j \in Jobs, ReconcileDeployed(c, j) PROVE StartStep(c)
  <2> DEFINE r == [at |-> "recover", job |-> j, nonce |-> ledger[j].nonce,
                   locked |-> TRUE, evidence |-> FALSE]
  <2>1. /\ call' = [call EXCEPT ![c] = r]
        /\ UNCHANGED <<worker, issued>>
        /\ LaunchLockFree(j)
    BY <1>1 DEF ReconcileDeployed
  <2>2. r.job = j /\ r.at = "recover" /\ r.locked
    OBVIOUS
  <2> HIDE DEF r
  <2>3. LaunchLockFree(r.job)
    BY <2>1, <2>2
  <2> QED
    BY <2>1, <2>2, <2>3, BeginIsStep
<1>2. CASE RecoverUnidentified(c)
  BY <1>2, EndsIsStep, GotoIsStep DEF RecoverUnidentified
<1>3. CASE RecoverAdopt(c)
  BY <1>3, EndsIsStep, GotoIsStep DEF RecoverAdopt
<1>4. CASE RecoverRetire(c)
  <2>1. /\ OthersWait(c)
        /\ call'[c].at = "retire" /\ call'[c].job = call[c].job /\ call'[c].locked = call[c].locked
    BY <1>4 DEF RecoverRetire, OthersWait, TypeInv, GoodCalls, Calls
  <2> QED
    BY <1>4, <2>1, WorkersKept DEF RecoverRetire, StartStep, GoesOn
<1>5. ASSUME AfterRetirement(c), call[c].at \in {"retire", "await"}, UNCHANGED <<worker, issued>>
      PROVE  StartStep(c)
  BY <1>5, EndsIsStep, GotoIsStep DEF AfterRetirement
<1>6. CASE Retire(c)
  BY <1>5, <1>6, CallFacts, EndsIsStep, GotoIsStep DEF Retire
<1>7. CASE AwaitRetirement(c)
  BY <1>5, <1>7, EndsIsStep DEF AwaitRetirement
<1>8. CASE Salvage(c)
  BY <1>8, EndsIsStep DEF Salvage
<1>9. CASE HarvestAdopted(c)
  BY <1>9, EndsIsStep DEF HarvestAdopted
<1>10. CASE RotateNonce(c)
  <2>1. CASE Return(c) /\ UNCHANGED issued
    BY <1>10, <2>1, EndsIsStep DEF RotateNonce
  <2>2. CASE /\ issued[call[c].job] < MaxNonce
             /\ issued' = [issued EXCEPT ![call[c].job] = @ + 1]
             /\ call' = [call EXCEPT ![c].at = "recheck", ![c].nonce = issued[call[c].job] + 1]
    <3>1. /\ OthersWait(c)
          /\ call'[c].at = "recheck" /\ call'[c].nonce = issued[call[c].job] + 1
          /\ call'[c].job = call[c].job /\ call'[c].locked = call[c].locked
      BY <2>2 DEF OthersWait, TypeInv, GoodCalls, Calls
    <3>2. NoneStarts
      BY <1>10 DEF RotateNonce, NoneStarts
    <3> QED
      BY <1>10, <2>2, <3>1, <3>2 DEF RotateNonce, StartStep, Renews
  <2> QED
    BY <1>10, <2>1, <2>2 DEF RotateNonce
<1> QED
  BY <1>1, <1>2, <1>3, <1>4, <1>6, <1>7, <1>8, <1>9, <1>10 DEF RecoveryNext

\* Harvests, probes and verdicts on running jobs start nothing.
LEMMA RunningIsStep ==
  ASSUME TypeInv, NEW c \in Callers, RunningNext(c)
  PROVE  StartStep(c)
<1> USE DEF LaunchSteps, RecoverySteps, Starting
<1>1. ASSUME NEW j \in Jobs,
             HarvestResult(c, j) \/ CloseExpired(c, j) \/ Consume(c, j) \/ RecoverArtifact(c, j)
      PROVE  StartStep(c)
  BY <1>1, WorkersKept DEF HarvestResult, CloseExpired, Consume, RecoverArtifact, StartStep, Rests
<1>2. ASSUME NEW j \in Jobs, FindNothing(c, j) \/ MarkExpired(c, j) PROVE StartStep(c)
  <2>1. ASSUME NEW s \in {"died", "expire"},
               call' = [call EXCEPT ![c] = [at |-> s, job |-> j, nonce |-> ledger[j].nonce,
                                            locked |-> FALSE, evidence |-> FALSE]]
        PROVE  StartStep(c)
    <3> DEFINE r == [at |-> s, job |-> j, nonce |-> ledger[j].nonce,
                     locked |-> FALSE, evidence |-> FALSE]
    <3>1. call' = [call EXCEPT ![c] = r] /\ UNCHANGED <<worker, issued>>
      BY <1>2, <2>1 DEF FindNothing, MarkExpired
    <3>2. r.job = j /\ r.at = s /\ ~r.locked
      OBVIOUS
    <3> HIDE DEF r
    <3> QED
      BY <2>1, <3>1, <3>2, BeginIsStep
  <2> QED
    BY <1>2, <2>1 DEF FindNothing, MarkExpired
<1>3. CASE DeclareDied(c)
  BY <1>3, EndsIsStep DEF DeclareDied
<1>4. CASE SignalExpired(c)
  <2>1. call[c].job \in Jobs
    BY <1>4, CallFacts DEF SignalExpired
  <2>2. Return(c) /\ UNCHANGED issued /\ NoneStarts
    BY <1>4, <2>1, SignalAnywhere DEF SignalExpired, NoneStarts
  <2> QED
    BY <2>2, ReturnFacts DEF StartStep, GoesOn, IssuedKept
<1> QED
  BY <1>1, <1>2, <1>3, <1>4 DEF RunningNext

\* Neither does a kill.
LEMMA KillIsStep ==
  ASSUME TypeInv, NEW c \in Callers, KillNext(c)
  PROVE  StartStep(c)
<1> USE DEF LaunchSteps, RecoverySteps, Starting
<1>1. ASSUME NEW j \in Jobs, BeginKill(c, j) PROVE StartStep(c)
  <2> DEFINE b == ledger[j].nonce # 0
             r == [at |-> "kill", job |-> j, nonce |-> 0, locked |-> b, evidence |-> FALSE]
  <2>1. /\ call' = [call EXCEPT ![c] = r]
        /\ UNCHANGED <<worker, issued>>
        /\ b => LaunchLockFree(j)
    BY <1>1 DEF BeginKill
  <2> HIDE DEF b
  <2>2. r.job = j /\ r.at = "kill" /\ r.locked = b
    OBVIOUS
  <2> HIDE DEF r
  <2>3. r.locked => LaunchLockFree(r.job)
    BY <2>1, <2>2
  <2> QED
    BY <2>1, <2>2, <2>3, BeginIsStep
<1>2. CASE KillRead(c)
  <2>1. UNCHANGED <<worker, issued>> /\ call[c].at = "kill"
    BY <1>2 DEF KillRead
  <2>2. CASE Return(c)
    BY <2>1, <2>2, EndsIsStep
  <2>3. ASSUME NEW s \in {"killTerm", "killFence", "killCommit"},
               call' = [call EXCEPT ![c].at = s, ![c].nonce = ledger[call[c].job].nonce]
        PROVE  StartStep(c)
    <3>1. /\ OthersWait(c)
          /\ call'[c].at = s /\ call'[c].job = call[c].job /\ call'[c].locked = call[c].locked
      BY <2>3 DEF OthersWait, TypeInv, GoodCalls, Calls
    <3> QED
      BY <2>1, <3>1, WorkersKept DEF StartStep, GoesOn
  <2> QED
    BY <1>2, <2>2, <2>3 DEF KillRead
<1>3. CASE KillTerminate(c)
  <2>1. call[c].job \in Jobs /\ UNCHANGED issued /\ call[c].at = "killTerm"
    BY <1>3, CallFacts DEF KillTerminate
  <2>2. NoneStarts
    BY <1>3, <2>1, SignalAnywhere DEF KillTerminate, NoneStarts
  <2>3. Return(c) \/ Goto(c, "killAwait")
    BY <1>3 DEF KillTerminate
  <2> QED
    BY <2>1, <2>2, <2>3, ReturnFacts, GotoFacts DEF StartStep, GoesOn, IssuedKept
<1>4. CASE KillAwait(c) \/ KillCommit(c)
  BY <1>4, EndsIsStep DEF KillAwait, KillCommit
<1>5. CASE KillFence(c)
  BY <1>5, GotoIsStep DEF KillFence
<1> QED
  BY <1>1, <1>2, <1>3, <1>4, <1>5 DEF KillNext

\* Nor a crash.
LEMMA CrashIsStep ==
  ASSUME TypeInv, NEW c \in Callers, Crash(c) \/ CrashInTransaction(c)
  PROVE  StartStep(c)
BY EndsIsStep, SpecAheadIsStep DEF Crash, CrashInTransaction

\* A worker never goes back to its start.
LEMMA WorkerRests ==
  ASSUME TypeInv, NEW j \in Jobs, NEW n \in Nonces, WorkerNext(j, n)
  PROVE  Rests
<1>1. UNCHANGED <<call, issued>>
  BY DEF WorkerNext, LoadSpec, PublishIdentity, PassFence, PublishEvidence,
         FinishBackend, InterruptWorker, ExitWorker
<1>2. NoneStarts
  <2>1. CASE PublishEvidence(j, n)
    BY <2>1 DEF PublishEvidence, NoneStarts
  <2>2. CASE ~PublishEvidence(j, n)
    <3>1. \E s \in Stages \ {"none", "started"} : WorkerGoes(j, n, s)
      BY <2>2 DEF WorkerNext, LoadSpec, PublishIdentity, PassFence,
                  FinishBackend, InterruptWorker, ExitWorker, Stages
    <3>2. worker[j][n].stage # "none"
      BY <2>2 DEF WorkerNext, LoadSpec, PublishIdentity, PassFence,
                  FinishBackend, InterruptWorker, ExitWorker, WorkerAlive
    <3> QED
      BY <3>1, <3>2, WorkerGoesStarts
  <2> QED
    BY <2>1, <2>2
<1> QED
  BY <1>1, <1>2 DEF Rests, IssuedKept

\* Every step keeps the lock discipline and the unused nonces.
LEMMA StartInvStep == StartInv /\ [Next]_vars => StartInv'
<1> SUFFICES ASSUME StartInv, [Next]_vars PROVE StartInv'
  OBVIOUS
<1>1. TypeInv /\ TypeInv'
  BY NextOK DEF StartInv, StepOK
<1>2. ASSUME NEW c \in Callers, StartStep(c) PROVE StartInv'
  BY <1>1, <1>2, GoesOnKeeps, BeginsKeeps, RenewsKeeps, StartsKeeps, RestsKeeps DEF StartStep
<1>3. ASSUME NEW c \in Callers, CallerNext(c) PROVE StartInv'
  BY <1>1, <1>2, <1>3, LaunchIsStep, RecoveryIsStep, RunningIsStep, KillIsStep, CrashIsStep
  DEF CallerNext
<1>4. ASSUME NEW j \in Jobs, NEW n \in Nonces, WorkerNext(j, n) PROVE StartInv'
  BY <1>1, <1>4, WorkerRests, RestsKeeps
<1>5. CASE UNCHANGED vars
  BY <1>1, <1>5, RestsKeeps DEF vars, Rests, NoneStarts, IssuedKept
<1> QED
  BY <1>3, <1>4, <1>5 DEF Next

\* A launch is alone with its job, and its nonce is unused until it spawns.
THEOREM StartInvariant == Spec => []StartInv
<1>1. Init => StartInv
  <2> SUFFICES ASSUME Init PROVE StartInv
    OBVIOUS
  <2>1. \A c \in Callers : call[c].at = "idle" /\ ~call[c].locked
    BY DEF Init, Idle
  <2>2. LockHeld
    BY <2>1 DEF LockHeld, LaunchSteps, RecoverySteps
  <2>3. NonceUnused
    BY <2>1 DEF Init, NoWorker, NonceUnused, Starting
  <2> QED
    BY <2>2, <2>3, InitTypeInv DEF StartInv
<1> QED
  BY <1>1, StartInvStep, PTL DEF Spec

\* However often launches are retried, rotated and recovered after crashes, a
\* nonce names one process.
THEOREM OneStartPerNonce == Spec => NonceStartsOnce
<1> DEFINE Once == \A j \in Jobs, n \in Nonces :
      worker'[j][n].stage = "started" => worker[j][n].stage \in {"none", "started"}
<1>1. ASSUME NoneStarts PROVE Once
  BY <1>1 DEF NoneStarts
<1>2. ASSUME StartInv, NEW c \in Callers, StartStep(c) PROVE Once
  <2>1. CASE GoesOn(c) \/ Begins(c) \/ Renews(c) \/ Rests
    BY <1>1, <2>1 DEF GoesOn, Begins, Renews, Rests
  <2>2. CASE Starts(c)
    BY <1>2, <2>2 DEF Starts, StartInv, NonceUnused, Starting
  <2> QED
    BY <1>2, <2>1, <2>2 DEF StartStep
<1>3. StartInv /\ [Next]_vars => Once
  <2> SUFFICES ASSUME StartInv, [Next]_vars PROVE Once
    OBVIOUS
  <2>1. TypeInv
    BY DEF StartInv
  <2>2. ASSUME NEW c \in Callers, CallerNext(c) PROVE Once
    BY <1>2, <2>1, <2>2, LaunchIsStep, RecoveryIsStep, RunningIsStep, KillIsStep, CrashIsStep
    DEF CallerNext
  <2>3. ASSUME NEW j \in Jobs, NEW n \in Nonces, WorkerNext(j, n) PROVE Once
    BY <1>1, <2>1, <2>3, WorkerRests DEF Rests
  <2>4. CASE UNCHANGED vars
    BY <2>4 DEF vars
  <2> QED
    BY <2>2, <2>3, <2>4 DEF Next
<1> QED
  BY <1>3, StartInvariant, PTL DEF Spec, NonceStartsOnce
=============================================================================
