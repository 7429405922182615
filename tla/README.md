# Verification of LeanFlow's coordination core

TLA+ specifications of the parts of LeanFlow (`src/leanflow`) where several
processes, threads and files have to agree: the dispatch of research workers,
the admission of Lean-heavy work, the gate of live research actors, the
reservations of source files, the plan graph and its writers, and the two
transactions that carry a disproof into sources and graph. TLC model-checks every specification on small instances; TLAPS proves
the safety theorems for every value of the constants.

Paths below are relative to `src/leanflow/`; `wf/` stands for
`leanflow_cli/workflows/`, `native/` for `leanflow_cli/native/`.

## 1. The system

LeanFlow runs a language-model agent on a Lean project. The *native runner*
(`native/native_runner.py`) loops over a queue of declarations, starts
*dispatch workers* (research agents in processes of their own) beside the
prover, and writes what it learns into JSON files under `.leanflow/`. Nothing
is coordinated by a server: processes meet in files, guarded by `flock` on
side-cars, and threads of one process in locks of that process. A process may
die at any time; a restart finds its files.

### Components

| Component | State it keeps | Operations | What makes it correct | Modelled |
|---|---|---|---|---|
| Dispatch service (`wf/dispatch_service.py`) | ledger entries (state, launch nonce, attempt, process identity, note, result, `consumed_at`), a launch lock per job | deploy, launch, reconcile, harvest, expire, kill, consume, recover artifacts | one worker per job, inside its slot of the cap; a success is not lost to a verdict; verdicts stand; no entry stays half launched | `AsyncDispatch`, `DispatchLedger` |
| Dispatch worker (`native/dispatch_worker.py`) | spec file, identity receipt, evidence and result artifacts of its nonce | publish identity, pass the fence, publish evidence and result, exit | a fenced-off or orphaned worker does no work | `AsyncDispatch` |
| Ledger compaction (`wf/dispatch_ledger_compaction.py`) | hot and archived ledger | compact, rehydrate | no entry lost or revived | no |
| Project Lean admission (`core/project_resource_admission.py`) | gate per process, flock of the slot, markers of the foreground, sticky gates | admit, nest, retain, hand off, reserve priority, reclaim | mutual exclusion, foreground priority, no one waits for ever | `ProjectLeanAdmission` |
| File reservations (`leanflow_cli/runtime/file_locks.py`) | one JSON registry of leases | acquire, release, release all, release stale, list | nobody else is granted an overlapping path; terminal leases are not evicted | `FileLocks` |
| Terminal authority (`native/terminal_authority.py`) | the leases it holds | guards around terminal outcomes | what it guards does not change under it | as the strict actors of `FileLocks` |
| Provider capacity (`core/provider_capacity.py`) | semaphore per process, slot files, reference-counted leases in context variables | acquire, retain, release | a holder keeps its slot and never queues behind itself; no permit is lost | `ProviderCapacity` |
| Verified edit authority (`core/verified_edit_authority.py`) | single-use authorizations | issue, consume, revoke | consumed at most once, before it expires | no (planned) |
| JSON store (`wf/workflow_json_io.py`) | the workflow's JSON files | update under a side-car lock | no lost update | assumed atomic |
| Plan state (`wf/plan_state.py`) and its synchronization (`_maybe_sync_plan_state` of the runner) | blueprint with revision; queue outcomes | load, save, reconcile, invalidate, sync | a stale writer is refused; proofs and refutations are not overwritten; what regressed falls, as far as it can be read | `PlanGraph`, `PlanState`, `NodeLife` |
| Negation promotion (`wf/negation_promotion.py`, `wf/negation_transaction_registry.py`) | records of evidence with a rollback plan; the graph | begin, save, commit, quarantine, recover | a false node has a record; evidence commits and is withdrawn only over the graph it speaks of | `NegationPromotion` |
| False decomposition cleanup (`wf/false_decomposition_cleanup.py`, `wf/false_cleanup_transaction_registry.py`) | plans, quarantine rows; source and graph | begin, swap, clean, commit, replay, stop, authorise | durable before it acts; commits once, over a clean graph; a stopped plan waits for a person | `FalseCleanup`, `CleanupLife` |
| Decomposition provenance (`wf/decomposition_provenance.py`) | source-operation leases | compare-and-swap of sources | the swap sees the bytes it was decided on | the lease and the swap, in `FalseCleanup` and `NegationPromotion` |
| Theorem queue, target handoff, campaign epoch (`wf/queue_manager.py`, `wf/target_handoff.py`, `wf/campaign_epoch.py`) | assignments, checkpoints, bounded rounds | assign, hand off, open and close epochs | one assignment at a time; bounds survive restarts | assignment and outcomes, in `PlanState` |
| Orchestrator, circuits (`wf/orchestrator*.py`, `wf/advisor_failure_circuit.py`) | failure circuit, event watermark | route, trip, reset, advance | no event handled twice or skipped | no (planned) |
| Process registry (`tools/utilities/process_registry.py`) | running and finished sessions | spawn, poll, kill, reap | one final exit status | no (planned) |
| Workflow state and activity (`wf/workflow_state.py`, `wf/workflow_activity_retention.py`) | logs and projections | append, rotate | retention drops nothing live | no |
| Agent, CLI, shell, skills, Lean services, tools, data | conversations, prompts, caches | | | no: network and terminal I/O, prompts and data |

`PROJECT.json` lists the components with their status, and under `hazards` the
places of the code where they are hard to test, with the properties aimed at
each.

### How they interact

* The runner calls the dispatch service on every tick (`reconcile`), and so may
  a status command or a second runner on the same project. All of them are the
  *callers* of `AsyncDispatch`.
* A dispatch worker shares with its caller the spec file, the launch lock, the
  artifacts of its nonce, signals, and the parent's liveness.
* Workers and the prover take the Lean admission before they run Lean; workers
  are its *background* processes.
* Every research actor, in the runner's process or a worker's, passes the
  provider gate; the threads of its tools inherit its lease by copied contexts.
* File tools, `lean_patch` and the terminal guards reserve paths in the same
  registry; guards do it strictly and for whole directories.
* The runner's synchronization, planners, prover jobs, audits and the two
  transactions all write the plan graph, each from a copy it loaded before.
* A negation promotion makes a node of the graph false; the cleanup takes the
  helper it refuted out of the source and uses up the promotion.

### Hard behaviours

Crashes between two files that belong together (spec/ledger, spawn/commit);
several processes that recover the same job; signals that race with a result;
probes that cannot decide whether a process lives; locks handed from thread to
thread while a third process scans marker files; cleanup code that raises;
registries read tolerantly after an error and then written back; transactions
over a source file, a graph and a record that no lock covers together, with an
editor that takes no lock at all; replays of what was done already.

## 2. Modules

| Module | Content |
|---|---|
| `DispatchLedger` | abstract specification: legal transitions, the cap, one hand-off per job, the one correction of a verdict |
| `AsyncDispatch` | the dispatch service and its workers, step by step; refines `DispatchLedger` |
| `AsyncDispatch_proofs` | its theorems: types, ledger, verdicts, cap, nonces |
| `AsyncDispatchSlots_proofs` | its theorems about processes, results and slots |
| `ProjectLeanAdmission`, `ProjectLeanAdmission_proofs` | the slot, gates and markers; its theorems |
| `FileLocks`, `FileLocks_proofs` | the registry of reservations; its theorems |
| `ProviderCapacity`, `ProviderCapacity_proofs` | permits, slots and shared leases; its theorems |
| `PlanGraph` | the plan graph as data: statuses, edges, and the passes over it, as operators |
| `NodeLife` | abstract specification: how a declaration's status may change |
| `PlanState`, `PlanState_proofs` | the writers of the plan graph; refines `NodeLife`; its theorems |
| `CleanupLife` | abstract specification: one plan, one promotion, one helper |
| `FalseCleanup`, `FalseCleanup_proofs` | the cleanup transaction; refines `CleanupLife`; its theorems |
| `NegationPromotion`, `NegationPromotion_proofs` | the promotion transaction, over `PlanGraph`; its theorems |
| `MC…` | constants and symmetry for TLC |

An operator `X_Y` below the comment "Mutant" is a wrong version of `X`, in the
way a plausible bug would make it; for each property of a passing run
`PROJECT.json` names one that violates it. They are not part of any
specification.

### 2.1 AsyncDispatch

*Actors.* `Callers` are processes that use a `DispatchService`; those in
`Killers` also call `kill`. `worker[j][n]` is the process started for job `j`
under nonce `n`.

*State.* `ledger` is the JSON ledger; `spec[j]` the nonce in the spec file of
`j`, 0 when the spec was replaced by a cancelled fence; `files[j][n]` the
receipt, result and evidence artifacts of a launch; `issued[j]` the nonces
drawn so far; `call[c]` what caller `c` remembers between two steps: where it
is, the job, the nonce it read, whether it holds the job's launch lock; and
`epoch[c]` its incarnation, so that `Pid(c)` changes by a crash.

*Actions.* A caller's operation is cut where another process can come between:
at every ledger transaction, file publication, signal and wait. So
`deploy_async` is `DeployAsync` (the reservation), `Recheck`, `WriteSpec`,
`SpawnWorker`, `PublishReceipt`, `CommitRunning` or `FailLaunch`;
`_recover_deployed_launch` is `RecoverUnidentified`, `RecoverAdopt`,
`RecoverRetire`, `Retire`, `AwaitRetirement`, `Salvage`, `HarvestAdopted`,
`RotateNonce`; `reconcile` of a running entry is `HarvestResult`,
`FindNothing` and `DeclareDied`, `MarkExpired`, `SignalExpired` and
`CloseExpired`; `kill` is `BeginKill` to `KillCommit`. The worker's `main` is
`LoadSpec` to `ExitWorker`. `Crash` may come anywhere. Two transactions of a
launch write the spec file before the ledger; `CrashInTransaction` is the crash
in between (`SpecAhead`). With `WriteFaults` a launch transaction may raise,
before or after that write.

*Abstractions.*
* A nonce (a random uuid) is a counter per job, bounded by `MaxNonce`. A nonce
  is lost without being counted as an attempt only when a rotation is cut
  between its two writes: by a crash, for which
  `MaxAttempts + MaxCrashes * |Callers|` is always enough, or by an exception,
  of which `LostNonces` admits one.
* Probes of a process err on one side. A probe may fail to find a live process
  or fail to prove an exit, hence the alternatives that settle nothing; it
  never claims the exit of a live process. Process identities (pid, start
  time, token) are taken as unique.
* The code takes an artifact for earlier than a verdict if its modification
  time is at most `finished_at` plus one second, since the ledger's times have
  whole seconds. `late` holds the artifacts that count as later. There is no
  clock, so what is published after a verdict may fall on either side of the
  margin (`Dated`), in the order of publication: once something is late, so is
  whatever comes after it. A kill without proof of the exit draws `finished_at`
  before the transaction that stores it, so what was published in between may
  be late as well (`KillStamps`). Results and evidence are late each on their own.
* Callers are separate processes. Each runs one operation at a time.
* Contents of specs, results and evidence are what recovery branches on: absent,
  success, error or interruption. Validation of evidence is data.

*Not modelled.* Entries without launch nonce of older versions; the
synchronous `deploy` through a delegate with its `stuck` state; reservation of
capacity by `propose`; compaction.

### 2.2 ProjectLeanAdmission

*State.* `gate[p]` is the `threading.Lock` of process `p` for the project,
`sticky[p]` its entry in `_STICKY_GATES`, `slot` the thread whose file handle
has the flock, `pc` and `depth` a thread's place and nesting. A marker file of
a thread is `waiter` (locked by its owner), `armed` (locked, with a deadline),
`grace` (unlocked, deadline ahead) or `lease` (a priority lease). `promised` is
a history variable: a handoff was granted and its time has not run out.

*Actions.* One for each step of `project_lean_heavy_admission` between which
other threads or processes can act: publish the marker, take the gate, flock
(or, in the background, scan, try, scan again), work and nest, write the
deadline, unlock, clear the marker, open the gate. `Abandon` is an exception
while waiting; with `MarkerFaults` the marker's file operations raise where the
code lets them. `ExitProcess` is exit or crash of a process: the system drops
its locks and its markers with deadlines live on. `ReclaimWaiters`,
`ReservePriorityLease` and `EndPriorityLease` are the remaining entry points.

*Abstractions.* One project. A marker that is inactive is unlinked by the next
scan and not represented. The deadlines of several markers of one thread count
as one, the latest; a thread has one priority lease at a time. Failure to
register a marker raises before anything is taken, so there is no request. Only
platforms with `fcntl`.

### 2.3 FileLocks

*State.* `locks` is the registry, a function from paths to entries; `granted`
is what the actors were told; `txn` the snapshot of a transaction that runs
without its flock; `alive` the processes; `ended` the owner ids whose sessions
a status file reports as terminal. Paths are an abstract tree given by
`Within`.

*Actions.* A transaction under the flock is one step: read, clean by liveness
or time, decide, write. `Acquire` and `Release` take a kind and `force`;
`ReleaseAll`, `ReleaseStale` and `ListLocks` rewrite the registry too. If the
flock fails (`FlockFaults`) a tolerant transaction goes on:
`OpenWithoutFlock` reads, and the operation writes in a later step, while only
the mutex of its process protects it. If a read fails (`ReadFaults`) a tolerant
transaction sees an empty registry; a strict one gives up. `Lapse` is the time
limit of entries without process id, which occur only in registries of older
versions (`Init`). A refused request and a failed write change nothing.

*Abstractions.* Only the actors in `Terminals` take namespaces. Only those in
`Forcing` use `force`, and on files. The code under `src/` has no caller that
does so; the flag is part of the tool's interface. Reuse of a process id is
not modelled, and an owner whose session is over acts no more.

### 2.4 ProviderCapacity

*State.* A *context* is what a thread runs in; `current[c]` is the context
variable `_CURRENT_LEASE` there, `held[c]` the stack of leases the context has
to release, `target[c]` the lease it is retaining or releasing. `refs`,
`released` and `slotOf` are the fields of a lease, `slot[k]` the lease whose
file handle locks `slot-<k>.lock`, `permits[p]` the semaphore of a process.

*Actions.* `acquire_background_provider_lease` is `Enter` (the look at the
inherited lease, without its lock), then `Retain` or `RetainFails`, or
`TakePermit` and the walk over the slots (`TakeSlot`, `SlotBusy`), left by
`GiveUp` or `Abandon` on cancellation, timeout or error. `release` is
`DropReference`, or `DropLast`, `Unlock` and `Post`. `Fork` is `copy_context`
for a tool's thread, `Crash` the death of a process.

*Abstractions.* One namespace of slots. Lease objects nobody can reach are
used again. The calls of one context are nested, as `with` blocks nest them.

### 2.5 PlanGraph, NodeLife, PlanState

*PlanGraph* has no state. Its operators are the passes of `plan_state.py` over
a graph: `InvalidateFalseSubtree`, `Reconcile`, `ReopenFidelityParks`,
`RetireInactiveProving`, `UpsertNodeForAssignment`, `RevokeGateAcceptance`.
Reachability (`HasInvalidDependency`, `Ancestors`) is stated as membership in
every closed set. `Ancestors` follows the one parent per node that the code
keeps: if a node has several `split_of` edges, the last one counts. A scan finds
a declaration absent, dirty or clean, or says nothing of it: `unread`, if the
file that declares it (`FileOf`) is gone or cannot be read. The passes leave
such nodes as they are, proofs included, as the code does. Passes that write one
node after the other (`ReopenFidelityParks`, and `FollowOutcomes` of
`PlanState`) are functions of how far along `Order` they are.

*PlanState.* `graph` is the blueprint; a revision number grows by every save,
so `planFresh` and `fresh[w]` ("nobody saved since I loaded") stand for the
comparison of revisions. The synchronization of the runner is cut at its load,
its scan, its save and the second save after progress; `Synced` is everything
between load and save, in the order of the code. `job[w]` is the change another
writer makes: park, block, pass or doubt an audit, state, prove, falsify or
rewire; those that retry once do so. `Queue` assigns and finishes theorems,
`Restart` resumes the runner. Of the `Sources`, `Edit` changes a declaration;
`Vanish` makes a whole file unreadable and `Reappear` brings it back with any
contents.

*NodeLife* says what the writers may do to a declaration: work moves freely, a
proof comes down only to be worked on again, a refutation is forgotten by
nobody but the gate of a prover job, which accepts a proof of the node.

*Abstractions.* Outcomes of the queue are classes of what the synchronization
distinguishes. The blueprint can be read and its side-car locked: with an unreadable file
`save_blueprint` compares no revision, and after a failed flock it goes on
unlocked. The journal and the summary are not represented.

### 2.6 FalseCleanup, CleanupLife

*State.* `source` and `graph` are classes of texts and graphs as far as the
cleanup's tests tell them apart; `plan` is the durable transaction with the
text it was made for, `authority` the promotion that allows it, `row` a live
quarantine row. `seen[r]` and `fresh[r]` are what runner `r` goes by. The
lease keeps other runners out, the `guard` other writers of the blueprint;
neither keeps out the user's editor.

*Actions.* `Start`, `Lease`, `Select`, `Examine`, `Validate` and `Begin` lead
to a plan, whether replayed or new; `Read`, `Compare`, `Replace`, `Recheck`
(four looks at the file), `Load`, `Save`, `Guard`, `Reflect`, `Commit` carry it
out. Each check that fails either retains the plan (`Retain`) or stops it
(`Mark`); a replay whose payload is lost, or whose parent statement has changed,
is stopped at `Read`. `AfterRetain` and `AfterMark` write their state over whatever is
durable, as the code does, and a record whose marks contradict its state is not
touched again (`Corrupt`).

*CleanupLife* is the promise: a durable plan before the helper goes, a stopped
plan only continued by a person, one commit that uses up the promotion.

### 2.7 NegationPromotion

*State.* `tx[i]` is a durable record with its rollback plan (the statuses
before and after); `age` counts the saves since the plan's revision, up to two,
because the code only asks whether the graph is at the expected revision. `undo`
is an unsealed quarantine. `pc`, `job`, `pin`, `fresh`, `after`, `todo` are the
process: its place, the record at hand, the source bytes it goes by, whether its
graph is fresh, where it continues, and the rest of the registry it is going
through.

*Actions.* `Probe` to `Posted` is `_commit_promotion` after the kernel check;
`Restore` to `Withdraw` is `_quarantine_promotion`; `Start`, `NextPass`,
`RecoverUndo`, `Recover`, `Load`, `Root`, `RootSave`, `RootFinal` and `End` are
the three passes of `reconcile_promotions_on_startup`. A look at the source
that differs, a conflict of revisions, a failed read, an edit, a save by another
writer and a crash can come between any two of them.

*Abstractions.* One node is refuted, `target`; all records are about it. Where
the kernel checks evidence again it may reject it. Identities of records are
numbers in the order of the registry, and an attempt meets its own record again
exactly if its plan and revision are the same.

## 3. Runs

Deadlock is checked for the two transactions; it is off where a system may
stop: jobs are closed, threads rest, processes are gone. Symmetry is used
in safety runs only.

| Run | Instance | Checks |
|---|---|---|
| `dispatch_callers` | 1 job, 2 callers, one kills, 2 attempts, raising transactions | `OneBackendPerJob`, `ResultOfItsLaunch`, `VerdictsStand`, `ImplementsLedger`, `NonceStartsOnce` |
| `dispatch_liveness` | 1 job, 1 caller that kills, 2 attempts, 2 crashes, fair | `SpawnsBounded`, `BackendHoldsSlot`, `NoLaterWrite`, `LaunchResolves`, `RunningResolves`, `SuccessIsHarvested` |
| `admission_liveness` | a prover of 2 threads, a worker, nesting 2, fair | `TypeOK`, `MutualExclusion`, `RetainedHoldsSlot`, `BackgroundYields`, `ForegroundAdmitted`, `RetainedRefuses`, `BackgroundProceeds` |
| `locks` | a guard and two tools in one process, a directory and two files, flock may fail | `GrantsDisjoint`, `TerminalStands`, `LeaseStands` |
| `capacity` | an actor, a thread that shares its context, an actor of another process, 1 slot, nesting 2, 2 failures | `HolderHasSlot`, `HolderNeverQueues`, `PermitsConserved`, `QueueMoves` |
| `plan` | a goal and its helper in files of their own, the runner and another writer, 3 events, fair | `TypeOK`, `ImplementsNodeLife`, `SyncGrounded`, `StaleProofFalls`, `SolvedIsProved` |
| `cleanup` | 1 runner, 2 edits, 2 foreign graph saves, 2 crashes, 1 retry, fair | `TypeOK`, `StoppedHasRow`, `CleanAtCommit`, `ImplementsCleanupLife`, `PendingSettles` |
| `promotion` | a goal and its helper, 2 records, 2 edits, 1 foreign save, 1 crash, 1 failed read, fair | `FalsityHasRecord`, `CommitsAgreedGraph`, `WithdrawalReopens`, `AlignedSettles` |
| `dispatch_kill_race`, `dispatch_success_lost`, `admission_cleanup_leaks_gate`, `promotion_orphan` | | a violation each, see below |

The type invariants of `AsyncDispatch`, `FileLocks`, `ProviderCapacity` and
`NegationPromotion` are in no run: section 4 proves them for every instance.

*Why the bounds are enough.*

* Dispatch. Jobs interact only through the cap, which is proved and not run
  (`CapHolds`), so one job is enough for everything else. Two attempts give a first launch, a
  rotation and spent attempts. A crash makes an orphan, a new pid and a second
  recoverer. Of a pair of callers one recovers what the other is in the middle
  of; a third repeats the role of the second, since the launch lock admits one.
* Admission. Two threads of a prover meet at the gate, either of them meets the
  worker at the slot; nesting 2 gives an inner scope.
* Registry. A directory above two files gives equal, nested and disjoint paths.
* Provider gate. One slot makes everybody queue; of two contexts of a process
  one can share the other's lease and outlive its release; nesting 2 separates
  the last release from the others.
* Plan. A helper and the goal it was split from, with or without the proof edge,
  give a node with an ancestor and a dependency; one writer beside the runner
  makes either of them stale, and three events are a proof, its loss and a
  second change, or a file that is lost and comes back. With the two nodes in
  different files one can be unreadable while the other is judged.
* Transactions. Two edits leave a text and come back to it. A foreign save
  makes a loaded graph stale or moves it past the expected revision; in the
  cleanup a second one meets the replay of the first. A crash makes a replay, in
  the cleanup a second one interrupts it. Two records give an attempt on top of
  another.

What these instances leave out of larger ones is covered by the theorems of
section 4, for all properties but those listed as only model-checked.

*What they show.* Cancelling, retrying and timing out never frees a slot under
a working process as long as kills are serialized; a success that was published
is not lost to a died, timeout or kill verdict under repeated reconciliation
(checked helpers of the same launch may take its place, see below), and what
may overturn such a verdict is there when it is reached; the background
never starts in the gap of a foreground handoff; an actor's slot survives every
release but its own last one; a graph that many write by stale copies is neither
proved without grounds nor, where the sources can be read, kept proved on stale
ones; and the two transactions
can be cut between any two writes without losing what a restart needs to
finish or undo them.

### Disagreements found

Four runs expect a violation. Each checks what a docstring or a comment of the
code says; `findings` in `PROJECT.json` quotes it.

* `dispatch_kill_race`: `kill` decides from an unlocked read whether it takes
  the launch lock. A proposed job that is deployed meanwhile can be marked
  killed while its new worker lives. (A second way to the same state, without
  a race: after a launch whose commit raised, the entry is deployed without
  process id while its worker works; `kill` then has nothing to terminate.) The
  same state refutes the comment on the one-second margin, that the worker is
  reaped before a kill verdict and the margin admits no write of a live worker.
* `dispatch_success_lost`: the worker publishes its success and exits after
  `reconcile`'s last look at the artifacts. The exit is confirmed, the checked
  helpers of the launch become its partial result, the job is done, and no
  harvest or recovery looks at it again. The comment at the head of that loop
  says that a dead-process verdict must never overwrite a valid deliverable.
* `admission_cleanup_leaks_gate`: if clearing the marker raises, the process's
  gate is never released nor made sticky; later threads wait for ever.
* `promotion_orphan`: a second attempt on a node that is false already has an
  empty rollback plan. After a crash and the withdrawal of the first record its
  replay writes the node false again, finds nothing to roll back and withdraws
  itself: the node is false and no record says why.

`BackendHoldsSlot` and `NoLaterWrite` are therefore checked with one caller that
launches and kills (and proved for any number under the condition of section 4);
`SuccessIsHarvested` lets helpers of the same launch stand; `FalsityHasRecord`
is about attempts that set out from a node that was not false.

Other behaviours of the code the models have and no property forbids are in
`hazards`: an unreadable registry is taken for an empty one; two runners that
replay one plan can leave a record that contradicts itself; a promotion whose
graph another writer saved stays pending for ever and makes the node false and
open again at every start; a prover job's proof overwrites a refutation; a proof
stays in the graph as long as its file is lost. One more is a difference of
wording only: drift after the cut stops a cleanup and waits for a person
(`Mark`), where the module's docstring says that it stays pending.

### Fairness

*Dispatch.* A call in progress goes on (`WF` of `Proceeds`): it is a running
thread. The runner reconciles on every tick, and an entry that stays deployed
or running comes up again (`SF` of `Reconciles`: the lock it needs may be taken
in between). A probe that fails, or a handshake window that has not passed, is
transient, so an outcome that settles an entry is reached if it is possible
again and again (`SF` of `Settles`). A worker goes on and is ended at the latest
by its guard at its wall clock (`SF` of `WorkerProceeds`, as the launch lock it
waits for comes and goes). Nobody is forced to deploy, kill, consume or not to
crash.

*Admission.* A lock that becomes free again and again is granted to one who
keeps waiting: `SF` of `AcquireGate` and `LockFile`; `flock` and
`threading.Lock` do not promise it in general, but their waiters do not starve
in practice, where contenders are few and leave for long. Lean work ends by its
timeouts (`SF` of `Leave`, since nesting disables it for a while). Pollers poll
and clocks run (`WF`). Requests, retention, leases, failures and exits are not
forced.

*Provider gate.* A thread that can go on does, and actors release in the end
(`WF` per context of `Acquire` and `Release`). Nobody is promised to win a
semaphore, so `QueueMoves` asks only that a slot is held by somebody while a
context is queued.

*Plan.* Every turn of the runner synchronizes: `WF` of the steps of `Sync` as a
whole. The other writers owe nothing.

*Cleanup.* A runner that can take its next step does (`WF` of `Run`), and
starts over when it is done. `PendingSettles` asks for a settlement only if from
some point on the project stays in a state in which the plan can be finished:
users and writers who keep changing it may postpone it for ever.

*Promotion.* The process takes its next step (`WF` of `Run`). A campaign is
started again sooner or later (`SF` of `Start`): without it, a process that
looks for ever for new refutations would never get to the records a crash left.
`SF`, because `Start` is disabled while an attempt runs. Nobody has to look for
another refutation.

`FileLocks` has no liveness property: its operations do not wait but refuse.

## 4. Proofs

`tlapm` checks every theorem to its last leaf, for all values of the constants
under the assumptions named in the modules.

### AsyncDispatch_proofs

* `TypeInvariant`, `TypeCorrect` (`TypeOK`). `TypeOK` is not inductive: a
  running entry with nonce 0 has no artifacts to bind, a call in progress
  without a job nothing to read. It is strengthened with `GoodEntries` (no
  entry is stuck, one in flight has a nonce) and `GoodCalls` (a call in
  progress has a job and, where it launches or recovers, a nonce).
* `VerdictsFinal` (`VerdictsStand`), from the type invariant: one step of the
  proof per action that writes the ledger. It says by what a verdict may be
  overturned, the margin of one second included; that nothing is written in that
  margin is `NothingPublishedLater` below.
* `CapHolds` (`CapRespected`, which no run checks): only `DeployAsync` enters flight, and it counts
  first, in the same transaction.
* `Refinement` (`ImplementsLedger`): the mapping takes each entry's state and
  its consumed flag; each action is a `Move`, a `Restore`, a `Consume` or a
  stutter.
* `StartInvariant`, `OneStartPerNonce` (`NonceStartsOnce`). The invariant adds
  `LockHeld` (callers at launch steps hold the launch lock of their job, and
  hold it alone) and `NonceUnused` (the nonce a caller is about to launch, and
  every nonce not drawn yet, has no process). Every step is one of five kinds,
  each with a lemma: it goes on in a launch, begins one, renews the nonce,
  starts the process, or rests.

### AsyncDispatchSlots_proofs

Two further invariants, on top of `StartInv`.

`LaunchInv` needs no condition: any kills, crashes and failing writes.
`CurrentInv` says that a call goes by the nonce of its entry, that an entry
which is proposed was never launched, and that only the process the entry names
can be past the fence; `ResultsOfDone`, that only an entry which is done holds a
result; `UsedBounded`, that the processes ever started and the entry's nonce
together are no more than the attempts it counts. `OneBackend`
(`OneBackendPerJob`), `ResultsBound` (`ResultOfItsLaunch`) and `SpawnsCounted`
(`SpawnsBounded`) follow.

`SlotInv` says who relies on a reservation: a launch or recovery in progress, a
process before its backend (whose launcher is still there to attend it, or whose
launch was recorded), a process at work; and that a kill which found no process
has closed the fence. It is inductive as long as `KillsLocked` holds, that is, as
long as a kill on a job that was launched holds the launch lock, and if
transactions do not fail where there are killers. Both hypotheses are needed.
Without the first there is the race that `dispatch_kill_race` shows. Without the
second, a launch whose last transaction raised leaves the entry deployed, without
process id, while its process passes the fence: a kill under the lock finds
nothing to end, cancels the fence too late and marks the job killed.
`SlotsHeld` and `SlotsHeldUnlessKilled` (`BackendHoldsSlot`),
`KillsEndProcesses` (`KilledAfterExit`) and `NothingPublishedLater`
(`NoLaterWrite`: a process that may publish holds the slot of its job, so the
job has no verdict yet) follow; without killers `KillsLocked` is
true in every state, so `SlotsHeldUnlessKilled` has no condition on the
behaviour, and failing writes are allowed.

The proofs go by frames. Almost every step of a caller is *quiet*: it leaves the
processes and the nonces alone, moves an entry only out of flight and changes the
caller's own call only. The others are a launch that draws a nonce (`Draws`), the
one that reserves (`Opens`) and the spawn (`Spawns`). `CallerStep` shows, action
by action, that each is one of the four; then each invariant is kept by these
four and by the steps of a process (`WorkerIsFrame`), and not by fifty actions.

### ProjectLeanAdmission_proofs

`InductiveInvariant` is `IInv`: types, `GateOwned` (who is past the gate holds
it), `SlotOwned` (the holder of the slot is where its `pc` says),
`RetainedOwned` (a sticky gate has its owner and the slot) and `MarkersShown`
(a foreground thread that waits has its marker locked, a promise stands as
armed or grace marker). `Exclusion`, `RetentionHolds` and `Yielding` follow
from it. The second scan of the background is where `MarkersShown` is needed:
it sees the marker of whoever waits or was promised the slot, at the instant of
the admission.

### FileLocks_proofs

`TypeCorrect` holds without conditions. The rest assumes `Serialized` (the
registry can be read, and if it cannot be flocked all actors are threads of one
process) and `UniqueOwners` (no two actors share an owner id); without the
first, a registry that is taken for empty once loses the lease of a terminal
guard in two steps. The invariant says
that the snapshot of an open transaction agrees with the registry on every
lease of a live process (`Snapshots`), that entries without process id are file
leases (`OldAreFiles`), and that a grant has its lease in the registry
(`Backed`: namespaces, and files too if nobody forces); without force, also
that a live lease in the registry is known to its actor (`Recorded`).
`TerminalKept` holds against actors that force; `Exclusive` (`GrantsDisjoint`)
and `LeaseKept` (`LeaseStands`) need `Forcing = {}`.

### ProviderCapacity_proofs

For any number of contexts, processes, leases and slots. `InductiveInvariant`
is the conjunction of `Shape` (types, without the upper bound of the permits),
`AtPoint` (a context holds nothing but its current lease, and none while it
queues or gives back), `Counted` (a held lease is open, has the lock of its
slot, and `refs` is the number of its places in all stacks), `Reached` (an open
lease that can be reached is held), `OneProcess` (a lease stays in the process
that made it), `Unlocking` (a slot is unlocked once, by the context that dropped
the last reference) and `Conserved` (permits, open leases and calls in between
make the capacity). `TypeCorrect`,
`HolderKeepsSlot`, `NeverQueues` and `PermitsKept` follow. Counting needs the
cardinalities of sets that change by one element; the lemmas about them come
first. That a permit never exceeds the capacity, which `TypeOK` says, is a
consequence of the sum and not of any guard.

### FalseCleanup_proofs

`TypeCorrect` and `CommitsClean` hold for any number of runners: lease and guard
admit one, the last look at the graph and the commit are under the guard, and
foreign writers need it too. `StoppedPlansHaveRows` and `Implements` assume
`OneRunner`; with two, a replay that goes by an old record rewrites a committed
one. The refinement maps the plan's state, the promotion, the presence of the
helper in the source and the count of user edits.

### NegationPromotion_proofs

`TypeCorrect`, `FalseNodesHaveRecords` and `WithdrawalsReopen` follow from
`IInv`: types, `Refuted` (every record that is or is about to be durable writes
its node false), `AtWork` (the record at hand is in the state its place implies;
at the withdrawal the graph reflects the rollback), `Passes` (what a pass of the
startup still has to go through is in the state the pass is about, and does not
contain the record at hand) and `FalsityHasRecord` itself. Two kinds of steps
could leave a false node without a record: a save, whose record is pending or
committed by `AtWork`, and a withdrawal, where every status of the plan is back,
that of the node too if the attempt set out from one that was not false.

`CommitsAgreed` (`CommitsAgreedGraph`) adds `Agreed`: a plan says what the
refutation makes of the statuses it was made for; while its age is 0 the graph
has those statuses; and when its age is 1 and the graph reflects the plan on the
nodes it changes, then it is the promoted graph on all nodes. The last is where
the age earns its place. A save ages a plan from 0 to 1 by writing the promotion,
another writer's one status, or a rollback. A single status makes all the
changes of the plan only if it is the only one (`OtherCloses`); a rollback makes
none of them, since it never writes a status to what a refutation writes it to
(`RollbackCloses`); and refuting twice is refuting once (`FalsifiedShape`), so
that the guarded look at the graph suffices.

### PlanState_proofs

For any nodes, dependencies, order of the nodes and number of writers. The
central notion is `Advances(g, h)`: every status is kept, or put to work or
proved and was not false. All passes of a synchronization advance the graph, and
what advances makes no dependency bad (`BadShrinks`). A graph is `Grounded` in a
scan `t` and a set of proofs `P` if every proof was seen clean and rests on
nothing bad, or is in `P` and `t` says nothing of it. A pass that proves only
what is clean and rests on nothing bad keeps a grounded graph grounded
(`GroundedOn`), and `Reconcile` grounds any graph in the scan and the proofs the
graph had. The two passes that go
node by node are recursive functions over the order. That such a function is
what its recursion says, and that a property kept by each step holds at the end,
is shown once by induction over the number of steps (`IteratesExist`,
`PassKeeps`), from the existence of least elements in the library.

The inductive invariant `IInv` is `TypeOK` with `SyncCurrent` (as long as nobody
saved since the load, the plan to be saved advances the graph on disk),
`SyncSeen` (likewise, that plan is grounded in the truth it scanned and the
proofs of the graph on disk) and `CopiesLive` (a
change that will not be refused is one that a life allows). `TypeCorrect`,
`SyncsGrounded` (`SyncGrounded`) and the refinement `Implements`
(`ImplementsNodeLife`) follow.

### Only model-checked

Liveness (`LaunchResolves`, `RunningResolves`, `SuccessIsHarvested`,
`ForegroundAdmitted`, `RetainedRefuses`, `BackgroundProceeds`, `QueueMoves`,
`StaleProofFalls`, `SolvedIsProved`, `PendingSettles`, `AlignedSettles`):
`ENABLED` and fairness are out of the prover's reach. Every invariant, action
property and refinement of a passing run is stated by a theorem. Of the
properties that are violated, `KilledAfterExit` is proved under the condition
its counterexample breaks, `FalsityHasRecord` is what remains true of
`RecordSurvives`, and `SuccessIsHarvested` of `DeliverableKept`.

## 5. Plan

1. (done) `AsyncDispatch` with `DispatchLedger`, `ProjectLeanAdmission`,
   `FileLocks`, and their proofs.
2. (done) `ProviderCapacity` and its proofs.
3. (done) `PlanGraph`, `PlanState`, `NodeLife`.
4. (done) `FalseCleanup` with `CleanupLife`, `NegationPromotion`, and their
   proofs.
5. (done) Proofs of the remaining safety properties of `AsyncDispatch`,
   `NegationPromotion` and `PlanState`.
6. Composition of promotion and cleanup over one graph and one record; two
   actors of one owner in `FileLocks`.
7. The queue's selection, the campaign's epochs, the orchestrator's failure
   circuit and event watermark; the process registry; ledger compaction.

## 6. Not modelled

The repository has about 190000 lines of implementation, most of them prompts,
parsers, projections, reports, network and terminal I/O around little state;
the models cover the protocols by which processes and files agree, a few
percent of the lines. Left out of the modelled parts: the synchronous delegate
path of the dispatch service, entries of older versions, compaction; platforms
without `fcntl`; migrations of older records of both transactions, the legacy
evidence bridge, retention of rows; the scan for sources that carry candidate
negations; promotions of several nodes at once; the summary, the journal and
decision packets of the plan state; saves without a readable or lockable
blueprint. Components without a module are listed in section 1 and, with the
reason, in `PROJECT.json`.
